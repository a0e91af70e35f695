--------------------------- MODULE CollectionProofs ---------------------------
(***************************************************************************)
(* Proofs about Collections, whose endpoints share no state: the invariant *)
(* is that of each of them.  Those of the container lists, the service     *)
(* lists and the pages of a table are in ListProofs; here are what a tail  *)
(* buffer holds, the list of errors of a report, and the exchange with a   *)
(* registry.                                                               *)
(***************************************************************************)
EXTENDS Collections, ListProofs, FiniteSetTheorems, SequenceTheorems, TLAPS

-----------------------------------------------------------------------------
(* The tail buffer. *)

First(total) == IF total > MaxLogBytes THEN total - MaxLogBytes ELSE 0

\* TailExact for one stream, with the types it needs.
Exact(w) ==
    /\ w.total \in Nat /\ w.truncated \in BOOLEAN
    /\ w.buf = Bytes(First(w.total), w.total)
    /\ w.truncated <=> w.total > MaxLogBytes

LEMMA BytesSeq ==
  ASSUME NEW a \in Nat, NEW b \in Nat, a <= b
  PROVE  /\ Bytes(a, b) \in Seq(Nat)
         /\ Len(Bytes(a, b)) = b - a
         /\ \A i \in 1..(b - a) : Bytes(a, b)[i] = a + i
<1>1. b - a \in Nat /\ Bytes(a, b) \in [1..(b - a) -> Nat]
    BY DEF Bytes
<1>2. Bytes(a, b) \in Seq(Nat)
    BY <1>1, SeqDef
<1>3. Len(Bytes(a, b)) = b - a
    BY <1>1, <1>2, LenProperties
<1> QED
    BY <1>1, <1>2, <1>3 DEF Bytes

\* A stretch of a stream is what it is, whatever it was put together from.
LEMMA SeqIsBytes ==
  ASSUME NEW a \in Nat, NEW b \in Nat, a <= b, NEW s \in Seq(Nat), Len(s) = b - a,
         \A i \in 1..(b - a) : s[i] = a + i
  PROVE  s = Bytes(a, b)
<1>1. /\ Bytes(a, b) \in Seq(Nat) /\ Len(Bytes(a, b)) = b - a
      /\ \A i \in 1..(b - a) : Bytes(a, b)[i] = a + i
    BY BytesSeq
<1>2. \A i \in 1..Len(s) : s[i] = Bytes(a, b)[i]
    BY <1>1
<1> HIDE DEF Bytes
<1> QED
    BY <1>1, <1>2, SeqEqual, Zenon

LEMMA LastOfBytes ==
  ASSUME NEW a \in Nat, NEW b \in Nat, NEW k \in Nat, a + k <= b
  PROVE  LastOf(Bytes(a, b), k) = Bytes(b - k, b)
<1>1. /\ Len(Bytes(a, b)) = b - a
      /\ \A i \in 1..(b - a) : Bytes(a, b)[i] = a + i
    BY BytesSeq
<1>2. \A i \in 1..k : Bytes(a, b)[Len(Bytes(a, b)) - k + i] = (b - k) + i
    BY <1>1
<1>3. b - (b - k) = k
    OBVIOUS
<1> QED
    BY <1>2, <1>3 DEF LastOf, Bytes

LEMMA ConcatBytes ==
  ASSUME NEW a \in Nat, NEW b \in Nat, NEW c \in Nat, a <= b, b <= c
  PROVE  Bytes(a, b) \o Bytes(b, c) = Bytes(a, c)
<1>1. PICK x : x = Bytes(a, b)
    OBVIOUS
<1>2. PICK y : y = Bytes(b, c)
    OBVIOUS
<1>3. x \in Seq(Nat) /\ Len(x) = b - a /\ \A i \in 1..(b - a) : x[i] = a + i
    BY <1>1, BytesSeq
<1>4. y \in Seq(Nat) /\ Len(y) = c - b /\ \A i \in 1..(c - b) : y[i] = b + i
    BY <1>2, BytesSeq
<1>5. PICK s : s = x \o y
    OBVIOUS
<1>6. /\ s \in Seq(Nat) /\ Len(s) = Len(x) + Len(y)
      /\ \A i \in 1..Len(x) + Len(y) : s[i] = IF i <= Len(x) THEN x[i] ELSE y[i - Len(x)]
    BY <1>3, <1>4, <1>5, ConcatProperties
<1>7. Len(s) = c - a /\ a <= c
    BY <1>3, <1>4, <1>6
<1>8. ASSUME NEW i \in 1..(c - a) PROVE s[i] = a + i
  <2>1. CASE i <= b - a
      BY <1>3, <1>4, <1>6, <2>1
  <2>2. CASE ~(i <= b - a)
    <3>1. i - (b - a) \in 1..(c - b) /\ b + (i - (b - a)) = a + i
        BY <2>2
    <3>2. s[i] = y[i - (b - a)]
        BY <1>3, <1>4, <1>6, <2>2
    <3> QED
        BY <1>4, <3>1, <3>2
  <2> QED
      BY <2>1, <2>2
<1>9. s = Bytes(a, c)
    BY <1>6, <1>7, <1>8, SeqIsBytes, Zenon
<1> QED
    BY <1>1, <1>2, <1>5, <1>9

\* tailWriter.Write keeps a buffer exact.
LEMMA WriteExact ==
  ASSUME NEW w, Exact(w), NEW n \in 0..MaxChunk
  PROVE  Exact(Write(w, n))
<1>0. PICK t \in Nat : t = w.total
    BY DEF Exact
<1>1. /\ n \in Nat /\ MaxLogBytes \in Nat /\ n < MaxLogBytes
      /\ First(t) \in Nat /\ First(t) <= t
    BY LogLimits, ChunkFits DEF First
<1>2. w.buf = Bytes(First(t), t) /\ Len(w.buf) = t - First(t) /\ (w.truncated <=> t > MaxLogBytes)
    BY <1>0, <1>1, BytesSeq DEF Exact
<1>3. CASE n = 0
    BY <1>3 DEF Write
<1>4. CASE n # 0 /\ Len(w.buf) + n > MaxLogBytes
  <2>1. /\ t + n \in Nat /\ t + n > MaxLogBytes /\ First(t + n) = t + n - MaxLogBytes
        /\ First(t) + (MaxLogBytes - n) <= t /\ t - (MaxLogBytes - n) = First(t + n)
        /\ First(t + n) \in Nat /\ MaxLogBytes - n \in Nat /\ First(t + n) <= t
      BY <1>1, <1>2, <1>4 DEF First
  <2>2. PICK b : b = LastOf(w.buf, MaxLogBytes - n) \o Bytes(t, t + n)
      OBVIOUS
  <2>3. PICK v : v = Write(w, n)
      OBVIOUS
  <2>4. v = [buf |-> b, total |-> t + n, truncated |-> w.truncated \/ TRUE]
      BY <1>0, <1>1, <1>4, <2>2, <2>3 DEF Write
  <2>5. v.buf = b /\ v.total = t + n /\ v.truncated
      BY <2>4
  <2>6. LastOf(Bytes(First(t), t), MaxLogBytes - n) = Bytes(t - (MaxLogBytes - n), t)
      BY <1>1, <2>1, LastOfBytes, Zenon
  <2>7. t <= t + n
      BY <1>1
  <2>8. Bytes(First(t + n), t) \o Bytes(t, t + n) = Bytes(First(t + n), t + n)
      BY <2>1, <2>7, ConcatBytes, Zenon
  <2>9. b = Bytes(First(t + n), t + n)
      BY <1>2, <2>1, <2>2, <2>6, <2>8
  <2> QED
      BY <2>1, <2>3, <2>5, <2>9 DEF Exact
<1>5. CASE n # 0 /\ ~(Len(w.buf) + n > MaxLogBytes)
  <2>1. /\ First(t) = 0 /\ First(t + n) = 0 /\ t + n \in Nat
        /\ ~(t > MaxLogBytes) /\ ~(t + n > MaxLogBytes)
      BY <1>1, <1>2, <1>5 DEF First
  <2>2. PICK b : b = w.buf \o Bytes(t, t + n)
      OBVIOUS
  <2>3. PICK v : v = Write(w, n)
      OBVIOUS
  <2>4. v = [buf |-> b, total |-> t + n, truncated |-> w.truncated \/ FALSE]
      BY <1>0, <1>1, <1>5, <2>2, <2>3 DEF Write
  <2>5. v.buf = b /\ v.total = t + n /\ ~v.truncated /\ v.truncated \in BOOLEAN
      BY <1>2, <2>1, <2>4 DEF Exact
  <2>6. 0 \in Nat /\ 0 <= t /\ t <= t + n
      BY <1>1
  <2>7. Bytes(0, t) \o Bytes(t, t + n) = Bytes(0, t + n)
      BY <2>1, <2>6, ConcatBytes, Zenon
  <2>8. b = Bytes(First(t + n), t + n)
      BY <1>2, <2>1, <2>2, <2>7
  <2> QED
      BY <2>1, <2>3, <2>5, <2>8 DEF Exact
<1> QED
    BY <1>3, <1>4, <1>5

LogsPlaces == {"probe", "start", "stream", "ended", "panicked", "done"}
LogsAnswers == Complaint \cup {"none", "available", "cli-not-found", "exited-with-error"}

LogsInv ==
    /\ docker \in DockerState /\ withStderr \in BOOLEAN
    /\ DOMAIN logs = {"pc", "said", "answer", "out"}
    /\ logs.pc \in LogsPlaces /\ logs.said \in Complaint \cup {"nothing"} /\ logs.answer \in LogsAnswers
    /\ DOMAIN logs.out = Streams /\ \A s \in Streams : Exact(logs.out[s])

LEMMA NewTailWriterExact == Exact(NewTailWriter)
<1>1. Bytes(0, 0) = <<>>
    BY BytesSeq, EmptySeq
<1> QED
    BY <1>1, LogLimits DEF Exact, NewTailWriter, First

LEMMA LogsInvInit == LogsInit \/ LogsRest => LogsInv
<1> SUFFICES ASSUME LogsInit \/ LogsRest PROVE LogsInv
    OBVIOUS
<1>1. docker \in DockerState /\ withStderr \in BOOLEAN /\ logs = NoLogs
    BY DEF LogsInit, LogsRest, DockerState
<1>2. /\ DOMAIN NoLogs = {"pc", "said", "answer", "out"} /\ NoLogs.out = [s \in Streams |-> NewTailWriter]
      /\ NoLogs.pc \in LogsPlaces /\ NoLogs.said = "nothing" /\ NoLogs.answer \in LogsAnswers
    BY DEF NoLogs, LogsPlaces, LogsAnswers
<1> QED
    BY <1>1, <1>2, NewTailWriterExact DEF LogsInv

LEMMA LogsMoves ==
  ASSUME LogsInv, UNCHANGED <<docker, withStderr>>, DOMAIN logs' = DOMAIN logs, logs'.out = logs.out,
         logs'.pc \in LogsPlaces, logs'.said \in Complaint \cup {"nothing"}, logs'.answer \in LogsAnswers
  PROVE  LogsInv'
    BY DEF LogsInv

LEMMA LogsInvStep ==
  ASSUME LogsInv, LogsNext
  PROVE  LogsInv'
<1>0. UNCHANGED <<docker, withStderr>>
    BY Zenon DEF LogsNext, LogsProbe, LogsStart, LogsComplain, LogsExit, LogsBreak, LogsJudge, LogsChunk, LogsQuote
<1>1. ASSUME NEW s \in Streams, NEW n \in 0..MaxChunk, LogsChunk(s, n)
      PROVE  LogsInv'
  <2>1. PICK out : out = [logs.out EXCEPT ![s] = Write(logs.out[s], n)]
      OBVIOUS
  <2>2. logs' = [logs EXCEPT !.out = out]
      BY <1>1, <2>1 DEF LogsChunk
  <2>3. /\ DOMAIN logs' = DOMAIN logs /\ logs'.out = out
        /\ logs'.pc = logs.pc /\ logs'.said = logs.said /\ logs'.answer = logs.answer
      BY <2>2 DEF LogsInv
  <2>4. /\ DOMAIN out = Streams /\ out[s] = Write(logs.out[s], n)
        /\ \A o \in Streams \ {s} : out[o] = logs.out[o]
      BY <2>1 DEF LogsInv
  <2>5. Exact(Write(logs.out[s], n))
      BY <1>1, WriteExact DEF LogsInv
  <2>6. \A o \in Streams : Exact(out[o])
      BY <2>4, <2>5 DEF LogsInv
  <2> QED
      BY <1>0, <2>3, <2>4, <2>6 DEF LogsInv
<1>2. ASSUME NEW pc \in LogsPlaces, logs' = [logs EXCEPT !.pc = pc]
      PROVE  LogsInv'
  <2>1. /\ DOMAIN logs' = DOMAIN logs /\ logs'.out = logs.out
        /\ logs'.pc = pc /\ logs'.said = logs.said /\ logs'.answer = logs.answer
      BY <1>2 DEF LogsInv
  <2> QED
      BY <1>0, <2>1, LogsMoves DEF LogsInv
<1>3. ASSUME NEW answer \in LogsAnswers, LogsEnd(answer)
      PROVE  LogsInv'
  <2>1. /\ DOMAIN logs' = DOMAIN logs /\ logs'.out = logs.out
        /\ logs'.pc = "done" /\ logs'.said = logs.said /\ logs'.answer = answer
      BY <1>3 DEF LogsInv, LogsEnd
  <2> QED
      BY <1>0, <2>1, LogsMoves DEF LogsInv, LogsPlaces
<1>4. CASE LogsProbe \/ LogsStart \/ LogsBreak
    BY <1>2, <1>3, <1>4 DEF LogsProbe, LogsStart, LogsBreak, LogsPlaces, LogsAnswers
<1>5. CASE LogsExit \/ LogsJudge
    BY <1>3, <1>5 DEF LogsExit, LogsJudge, LogsAnswers
<1>6. CASE LogsComplain
  <2>1. PICK said : said = IF withStderr THEN docker ELSE logs.said
      OBVIOUS
  <2>2. said \in Complaint \cup {"nothing"}
      BY <1>6, <2>1 DEF LogsComplain, LogsInv
  <2>3. logs' = [logs EXCEPT !.pc = "ended", !.said = said]
      BY <1>6, <2>1 DEF LogsComplain
  <2>4. /\ DOMAIN logs' = DOMAIN logs /\ logs'.out = logs.out
        /\ logs'.pc = "ended" /\ logs'.said = said /\ logs'.answer = logs.answer
      BY <2>3 DEF LogsInv
  <2> QED
      BY <1>0, <2>2, <2>4, LogsMoves DEF LogsInv, LogsPlaces
<1>7. ASSUME NEW text \in Complaint, LogsQuote(text)
      PROVE  LogsInv'
  <2>1. /\ DOMAIN logs' = DOMAIN logs /\ logs'.out = logs.out
        /\ logs'.pc = logs.pc /\ logs'.said = text /\ logs'.answer = logs.answer
      BY <1>7 DEF LogsInv, LogsQuote
  <2> QED
      BY <1>0, <2>1, LogsMoves DEF LogsInv
<1> QED
    BY <1>1, <1>4, <1>5, <1>6, <1>7, Zenon DEF LogsNext

LEMMA LogsInvRest == LogsInv /\ UNCHANGED logVars => LogsInv'
    BY DEF logVars, LogsInv, Exact

\* LogsTypeOK of docker logs and its tailWriters.
LEMMA LogsInvTypes == LogsInv => LogsTypeOK
<1> SUFFICES ASSUME LogsInv PROVE LogsTypeOK
    OBVIOUS
<1>1. ASSUME NEW w, Exact(w) PROVE TailWriterOK(w)
  <2>1. PICK total \in Nat : total = w.total
      BY <1>1 DEF Exact
  <2>2. First(total) \in Nat /\ First(total) <= total /\ total - First(total) <= MaxLogBytes
      BY LogLimits DEF First
  <2>3. w.buf = Bytes(First(total), total)
      BY <1>1, <2>1 DEF Exact
  <2>4. PICK first \in Nat : first = First(total) /\ first <= total /\ total - first <= MaxLogBytes
      BY <2>2
  <2>5. /\ w.buf \in Seq(Nat) /\ Len(w.buf) = total - first
        /\ \A i \in 1..(total - first) : w.buf[i] = first + i
      BY <2>3, <2>4, BytesSeq
  <2>6. w.buf \in [1..(total - first) -> 1..total]
    <3>1. \A i \in 1..(total - first) : w.buf[i] \in 1..total
      <4> SUFFICES ASSUME NEW i \in 1..(total - first) PROVE w.buf[i] \in 1..total
          OBVIOUS
      <4>1. w.buf[i] = first + i
          BY <2>5
      <4>2. first + i \in 1..total
          BY <2>4
      <4> QED
          BY <4>1, <4>2
    <3>2. w.buf \in [1..(total - first) -> Nat]
        BY <2>5
    <3> QED
        BY <3>1, <3>2
  <2>7. w.buf \in Seq(1..total)
      BY <2>4, <2>6, SeqDef
  <2> QED
      BY <1>1, <2>1, <2>4, <2>5, <2>7 DEF Exact, TailWriterOK
<1> QED
    BY <1>1 DEF LogsInv, LogsTypeOK, LogsPlaces, LogsAnswers
-----------------------------------------------------------------------------
(* The list of errors of a report. *)

Places == {"running", "fetching", "err", "appending", "done"}
ReportRecord ==
    [at : [Sections -> Places], seen : [Sections -> SUBSET Sections], errors : SUBSET Sections,
     filled : SUBSET Sections, answered : BOOLEAN]

\* What a section, failed or not, has entered in its report at each of its places.
SectionStory(r, s) ==
    LET q == reports[r] IN
    /\ q.at[s] \in {"running", "fetching"} => <<r, s>> \notin failed /\ s \notin q.errors
    /\ q.at[s] \in {"err", "appending"} => <<r, s>> \in failed
    /\ q.at[s] = "appending" => errMu = <<r, s>> /\ q.seen[s] = q.errors
    /\ q.at[s] = "done" => s \in q.filled /\ (s \in q.errors <=> <<r, s>> \in failed)
    /\ q.answered => q.at[s] = "done"

ReportInv ==
    /\ reports \in [Reports -> ReportRecord]
    /\ \A r \in Reports, s \in Sections : SectionStory(r, s)

LEMMA ReportInvInit == ReportInit \/ ReportRest => ReportInv
<1> SUFFICES ASSUME reports = [r \in Reports |-> NoReport], failed = {} PROVE ReportInv
    BY DEF ReportInit, ReportRest
<1>1. NoReport \in ReportRecord
    BY DEF NoReport, ReportRecord, Places
<1> QED
    BY <1>1 DEF ReportInv, SectionStory, NoReport

\* A step of section s in report r, by what becomes of the report.
LEMMA SectionInv ==
  ASSUME ReportInv, NEW r \in Reports, NEW s \in Sections, NEW q \in ReportRecord,
         reports' = [reports EXCEPT ![r] = q],
         \A o \in Sections \ {s} : /\ q.at[o] = reports[r].at[o]
                                   /\ q.seen[o] = reports[r].seen[o]
                                   /\ o \in q.errors <=> o \in reports[r].errors
                                   /\ reports[r].at[o] = "appending" => q.errors = reports[r].errors
                                   /\ o \in reports[r].filled => o \in q.filled
                                   /\ <<r, o>> \in failed' <=> <<r, o>> \in failed,
         q.answered => \A o \in Sections : q.at[o] = "done",
         \A p \in Reports \ {r}, o \in Sections : <<p, o>> \in failed' <=> <<p, o>> \in failed,
         \A p \in Reports, o \in Sections :
            <<p, o>> # <<r, s>> /\ reports[p].at[o] = "appending" => errMu' = errMu,
         SectionStory(r, s)'
  PROVE  ReportInv'
<1>1. /\ reports' \in [Reports -> ReportRecord] /\ reports'[r] = q
      /\ \A p \in Reports \ {r} : reports'[p] = reports[p]
    BY DEF ReportInv
<1>2. ASSUME NEW p \in Reports, NEW o \in Sections
      PROVE  SectionStory(p, o)'
  <2>1. SectionStory(p, o)
      BY DEF ReportInv
  <2>2. CASE p # r
      BY <1>1, <2>1, <2>2 DEF SectionStory
  <2>3. CASE p = r /\ o # s
      BY <1>1, <2>1, <2>3 DEF SectionStory
  <2> QED
      BY <2>2, <2>3
<1> QED
    BY <1>1, <1>2 DEF ReportInv

LEMMA ReportInvStep ==
  ASSUME ReportInv, NEW r \in Reports, ReportStep(r)
  PROVE  ReportInv'
<1>0. PICK q : q = reports[r]
    OBVIOUS
<1>1. /\ reports \in [Reports -> ReportRecord] /\ q \in ReportRecord
      /\ q.at \in [Sections -> Places] /\ q.seen \in [Sections -> SUBSET Sections]
      /\ \A s \in Sections : q.at[s] \in Places /\ SectionStory(r, s)
    BY <1>0 DEF ReportInv, ReportRecord
<1>2. ASSUME NEW s \in Sections, SectionFails(r, s)
      PROVE  ReportInv'
  <2>1. PICK v : v = [q EXCEPT !.at = [q.at EXCEPT ![s] = "err"]]
      OBVIOUS
  <2>2. reports' = [reports EXCEPT ![r] = v] /\ reports'[r] = v
      BY <1>0, <1>1, <1>2, <2>1 DEF SectionFails
  <2>3. /\ v \in ReportRecord /\ v.at = [q.at EXCEPT ![s] = "err"] /\ v.at[s] = "err"
        /\ v.seen = q.seen /\ v.errors = q.errors /\ v.filled = q.filled /\ v.answered = q.answered
      BY <1>1, <2>1 DEF ReportRecord, Places
  <2>4. q.at[s] = "running" /\ failed' = failed \cup {<<r, s>>} /\ errMu' = errMu
      BY <1>0, <1>2 DEF SectionFails, At
  <2>5. ~v.answered
      BY <1>0, <1>1, <2>3, <2>4 DEF SectionStory
  <2>6. SectionStory(r, s)'
      BY <2>2, <2>3, <2>4, <2>5 DEF SectionStory
  <2> QED
      BY <1>0, <1>1, <2>2, <2>3, <2>4, <2>5, <2>6, SectionInv DEF ReportRecord
<1>3. ASSUME NEW s \in Sections, q.at[s] \in {"running", "fetching"}, Fill(r, s),
             UNCHANGED <<errMu, failed>>
      PROVE  ReportInv'
  <2>1. PICK v : v = [[q EXCEPT !.at = [q.at EXCEPT ![s] = "done"]] EXCEPT !.filled = q.filled \cup {s}]
      OBVIOUS
  <2>2. reports' = [reports EXCEPT ![r] = v] /\ reports'[r] = v
      BY <1>0, <1>1, <1>3, <2>1 DEF Fill
  <2>3. /\ v \in ReportRecord /\ v.at = [q.at EXCEPT ![s] = "done"] /\ v.at[s] = "done"
        /\ v.seen = q.seen /\ v.errors = q.errors /\ v.filled = q.filled \cup {s} /\ v.answered = q.answered
      BY <1>1, <2>1 DEF ReportRecord, Places
  <2>4. ~v.answered
      BY <1>0, <1>1, <1>3, <2>3 DEF SectionStory
  <2>5. SectionStory(r, s)'
      BY <1>0, <1>1, <1>3, <2>2, <2>3, <2>4 DEF SectionStory
  <2> QED
      BY <1>0, <1>1, <1>3, <2>2, <2>3, <2>4, <2>5, SectionInv DEF ReportRecord
<1>4. CASE LookIntoCache(r) /\ ~Fill(r, "host")
  <2>1. PICK v : v = [q EXCEPT !.at = [q.at EXCEPT !["host"] = "fetching"]]
      OBVIOUS
  <2>2. reports' = [reports EXCEPT ![r] = v] /\ reports'[r] = v
      BY <1>0, <1>1, <1>4, <2>1 DEF LookIntoCache
  <2>3. /\ v \in ReportRecord /\ v.at = [q.at EXCEPT !["host"] = "fetching"] /\ v.at["host"] = "fetching"
        /\ v.seen = q.seen /\ v.errors = q.errors /\ v.filled = q.filled /\ v.answered = q.answered
      BY <1>1, <2>1 DEF ReportRecord, Places, Sections
  <2>4. q.at["host"] = "running" /\ failed' = failed /\ errMu' = errMu /\ "host" \in Sections
      BY <1>0, <1>4 DEF LookIntoCache, At, Sections
  <2>5. ~v.answered
      BY <1>0, <1>1, <2>3, <2>4 DEF SectionStory
  <2>6. SectionStory(r, "host")'
      BY <1>0, <1>1, <2>2, <2>3, <2>4, <2>5 DEF SectionStory
  <2> QED
      BY <1>0, <1>1, <2>2, <2>3, <2>4, <2>5, <2>6, SectionInv DEF ReportRecord
<1>5. ASSUME NEW s \in Sections, AddErrLock(r, s)
      PROVE  ReportInv'
  <2>1. PICK v : v = [[q EXCEPT !.at = [q.at EXCEPT ![s] = "appending"]]
                         EXCEPT !.seen = [q.seen EXCEPT ![s] = q.errors]]
      OBVIOUS
  <2>2. reports' = [reports EXCEPT ![r] = v] /\ reports'[r] = v
      BY <1>0, <1>1, <1>5, <2>1 DEF AddErrLock
  <2>3. /\ v \in ReportRecord /\ v.at = [q.at EXCEPT ![s] = "appending"] /\ v.at[s] = "appending"
        /\ v.seen = [q.seen EXCEPT ![s] = q.errors] /\ v.seen[s] = q.errors
        /\ v.errors = q.errors /\ v.filled = q.filled /\ v.answered = q.answered
      BY <1>1, <2>1 DEF ReportRecord, Places
  <2>4. q.at[s] = "err" /\ failed' = failed /\ errMu = Free /\ errMu' = <<r, s>>
      BY <1>0, <1>5 DEF AddErrLock, At
  <2>5. ~v.answered
      BY <1>0, <1>1, <2>3, <2>4 DEF SectionStory
  <2>6. SectionStory(r, s)'
      BY <1>0, <1>1, <2>2, <2>3, <2>4, <2>5 DEF SectionStory
  <2>7. \A p \in Reports, o \in Sections : reports[p].at[o] # "appending"
      BY <2>4 DEF ReportInv, SectionStory, Free
  <2>8. ASSUME NEW o \in Sections \ {s}
        PROVE  /\ v.at[o] = reports[r].at[o] /\ v.seen[o] = reports[r].seen[o]
               /\ o \in v.errors <=> o \in reports[r].errors
               /\ reports[r].at[o] = "appending" => v.errors = reports[r].errors
               /\ o \in reports[r].filled => o \in v.filled
               /\ <<r, o>> \in failed' <=> <<r, o>> \in failed
    <3>1. reports[r].at[o] # "appending"
        BY <2>7
    <3> QED
        BY <1>0, <1>1, <2>3, <2>4, <3>1
  <2>9. \A p \in Reports, o \in Sections :
            <<p, o>> # <<r, s>> /\ reports[p].at[o] = "appending" => errMu' = errMu
      BY <2>7
  <2> QED
      BY <2>2, <2>3, <2>4, <2>5, <2>6, <2>8, <2>9, SectionInv
<1>6. ASSUME NEW s \in Sections, AddErr(r, s)
      PROVE  ReportInv'
  <2>1. PICK v : v = [[[q EXCEPT !.at = [q.at EXCEPT ![s] = "done"]]
                          EXCEPT !.filled = q.filled \cup {s}]
                          EXCEPT !.errors = q.seen[s] \cup {s}]
      OBVIOUS
  <2>2. reports' = [reports EXCEPT ![r] = v] /\ reports'[r] = v
      BY <1>0, <1>1, <1>6, <2>1 DEF AddErr
  <2>3. q.at[s] = "appending" /\ failed' = failed /\ errMu = <<r, s>> /\ q.seen[s] = q.errors
      BY <1>0, <1>1, <1>6 DEF AddErr, At, SectionStory
  <2>4. /\ v \in ReportRecord /\ v.at = [q.at EXCEPT ![s] = "done"] /\ v.at[s] = "done"
        /\ v.seen = q.seen /\ v.errors = q.errors \cup {s} /\ v.filled = q.filled \cup {s}
        /\ v.answered = q.answered
      BY <1>1, <2>1, <2>3 DEF ReportRecord, Places
  <2>5. ~v.answered
      BY <1>0, <1>1, <2>3, <2>4 DEF SectionStory
  <2>6. SectionStory(r, s)'
      BY <1>0, <1>1, <2>2, <2>3, <2>4, <2>5 DEF SectionStory
  <2>7. \A p \in Reports, o \in Sections : <<p, o>> # <<r, s>> => reports[p].at[o] # "appending"
      BY <2>3 DEF ReportInv, SectionStory
  <2>8. ASSUME NEW o \in Sections \ {s}
        PROVE  /\ v.at[o] = reports[r].at[o] /\ v.seen[o] = reports[r].seen[o]
               /\ o \in v.errors <=> o \in reports[r].errors
               /\ reports[r].at[o] = "appending" => v.errors = reports[r].errors
               /\ o \in reports[r].filled => o \in v.filled
               /\ <<r, o>> \in failed' <=> <<r, o>> \in failed
    <3>1. reports[r].at[o] # "appending"
        BY <2>7
    <3> QED
        BY <1>0, <1>1, <2>3, <2>4, <3>1
  <2>9. \A p \in Reports, o \in Sections :
            <<p, o>> # <<r, s>> /\ reports[p].at[o] = "appending" => errMu' = errMu
      BY <2>7
  <2> QED
      BY <2>2, <2>3, <2>4, <2>5, <2>6, <2>8, <2>9, SectionInv
<1>7. CASE Respond(r)
  <2>1. PICK v : v = [q EXCEPT !.answered = TRUE]
      OBVIOUS
  <2>2. reports' = [reports EXCEPT ![r] = v] /\ reports'[r] = v
      BY <1>0, <1>1, <1>7, <2>1 DEF Respond
  <2>3. /\ v \in ReportRecord /\ v.at = q.at
        /\ v.seen = q.seen /\ v.errors = q.errors /\ v.filled = q.filled
      BY <1>1, <2>1 DEF ReportRecord, Places
  <2>4. failed' = failed /\ errMu' = errMu /\ \A s \in Sections : q.at[s] = "done"
      BY <1>0, <1>7 DEF Respond, At
  <2>5. "host" \in Sections /\ SectionStory(r, "host")'
      BY <1>0, <1>1, <2>2, <2>3, <2>4 DEF SectionStory, Sections
  <2> QED
      BY <1>0, <1>1, <2>2, <2>3, <2>4, <2>5, SectionInv
<1>8. "host" \in Sections
    BY DEF Sections
<1>9. CASE LookIntoCache(r) /\ Fill(r, "host")
    BY <1>0, <1>3, <1>8, <1>9 DEF LookIntoCache, At
<1>10. CASE FetchPublicIP(r)
    BY <1>0, <1>3, <1>8, <1>10 DEF FetchPublicIP, At
<1>11. ASSUME NEW s \in Sections, SectionEnds(r, s) PROVE ReportInv'
    BY <1>0, <1>3, <1>11 DEF SectionEnds, At
<1> QED
    BY <1>2, <1>4, <1>5, <1>6, <1>7, <1>9, <1>10, <1>11 DEF ReportStep, SectionStep

\* The variables of a report beside the requests.
ReportTypes ==
    /\ reportOf \in {"local", "remote"} /\ errMu \in {Free} \cup (Reports \X Sections)
    /\ publicIP \in {NoIP, "address"} /\ failed \subseteq Reports \X Sections

LEMMA ReportTypesStep ==
  ASSUME ReportTypes, NEW r \in Reports, ReportStep(r)
  PROVE  ReportTypes'
<1>1. ASSUME NEW s \in Sections, SectionFails(r, s) PROVE ReportTypes'
    BY <1>1 DEF ReportTypes, SectionFails
<1>2. ASSUME NEW s \in Sections, AddErrLock(r, s) PROVE ReportTypes'
    BY <1>2 DEF ReportTypes, AddErrLock
<1>3. ASSUME NEW s \in Sections, AddErr(r, s) PROVE ReportTypes'
    BY <1>3 DEF ReportTypes, AddErr
<1>4. CASE FetchPublicIP(r)
    BY <1>4 DEF ReportTypes, FetchPublicIP, Cached
<1>5. ASSUME NEW s \in Sections, SectionEnds(r, s) PROVE ReportTypes'
    BY <1>5 DEF ReportTypes, SectionEnds
<1>6. CASE LookIntoCache(r) \/ Respond(r)
    BY <1>6 DEF ReportTypes, LookIntoCache, Respond
<1> QED
    BY <1>1, <1>2, <1>3, <1>4, <1>5, <1>6 DEF ReportStep, SectionStep

\* ReportTypeOK of the collectors of a report.
LEMMA ReportInvTypes == ReportInv /\ ReportTypes => ReportTypeOK
    BY DEF ReportInv, ReportTypes, ReportTypeOK, ReportRecord, Places

-----------------------------------------------------------------------------
(* The exchange with a registry. *)

RegistryRecord ==
    [state : {"live", "deleted"}, password : Passwords \cup {NoPassword}, active : BOOLEAN,
     status : Status \cup {"none"}]
DockerRecord ==
    [kind : {"hub", "open", "basic", "bearer", "strange"}, health : Healths, password : Passwords,
     lenient : BOOLEAN, valid : SUBSET (Passwords \cup {NoPassword})]
Results ==
    Status \cup {"none", "images", "NOT_FOUND", "INTERNAL_ERROR",
                 "REGISTRY_AUTH_FAILED", "REGISTRY_UNREACHABLE", "REGISTRY_UNSUPPORTED"}
Repos == 1..RepoCount
TagMaps == UNION {[S -> {"waiting", "fetching", "known", "unknown"}] : S \in SUBSET Repos}
CallRecord ==
    [ask : Asks \cup {"none", "update", "delete"},
     pc : {"idle", "ask", "token", "basic", "retry", "repos", "record", "tags", "done"},
     live : BOOLEAN, password : Passwords \cup {NoPassword}, result : Results, tags : TagMaps,
     total : Nat, hurt : SUBSET Repos]

InFlight(tags) == {x \in DOMAIN tags : tags[x] = "fetching"}
Settled(tags) == \A x \in DOMAIN tags : tags[x] \in {"known", "unknown"}

\* The password of the call was right at some time; or a result of OK says
\* nothing of it, because nobody has asked for it.
Trusted(c) == c.password \in docker_io.valid
Vouched(c) ==
    docker_io.kind = "open" \/ (docker_io.kind = "hub" /\ c.password = NoPassword) \/ Trusted(c)

\* What a call has found, by its place in the exchange: a token is given for a
\* right password only, and a result of OK as well.
CallStory(c) ==
    /\ c.hurt \subseteq DOMAIN c.tags /\ \A x \in DOMAIN c.tags : c.tags[x] = "unknown" => x \in c.hurt
    /\ IsFiniteSet(InFlight(c.tags)) /\ Cardinality(InFlight(c.tags)) <= TagFetchLimit
    /\ c.pc \notin {"tags", "done"} => c.tags = <<>>
    /\ c.pc \notin {"record", "done"} => c.result = "none"
    /\ c.pc \notin {"idle", "done"} => c.ask \in Asks
    /\ c.pc = "record" => c.result \in Status /\ c.ask \in {"connect", "ping"}
    /\ c.pc = "tags" \/ c.result = "images" => DOMAIN c.tags = 1..Cut(c.total)
    /\ c.result = "images" => Settled(c.tags)
    /\ c.pc \in {"repos", "tags"} => c.ask = "images"
    /\ c.pc = "retry" => Trusted(c)
    /\ c.ask \in {"connect", "ping"} /\ c.result = "OK" => Vouched(c)

RegInv ==
    /\ registry \in RegistryRecord /\ docker_io \in DockerRecord
    /\ docker_io.password \in docker_io.valid
    /\ docker_io.lenient => NoPassword \in docker_io.valid
    /\ calls \in [Callers -> CallRecord]
    /\ \A p \in Callers : CallStory(calls[p])

LEMMA NoTags == <<>> \in TagMaps /\ DOMAIN <<>> = {} /\ InFlight(<<>>) = {}
<1>1. DOMAIN <<>> = {} /\ <<>> \in [{} -> {"waiting", "fetching", "known", "unknown"}]
    OBVIOUS
<1>2. {} \in SUBSET Repos
    OBVIOUS
<1>3. <<>> \in TagMaps
    BY <1>1, <1>2, Zenon DEF TagMaps
<1> QED
    BY <1>1, <1>3 DEF InFlight

LEMMA NoneInFlight == IsFiniteSet({}) /\ Cardinality({}) <= TagFetchLimit
    BY FS_EmptySet, TagFetchLimitPositive

LEMMA RegInvStart ==
  ASSUME registry \in RegistryRecord, docker_io \in DockerRecord, docker_io.password \in docker_io.valid,
         docker_io.lenient => NoPassword \in docker_io.valid,
         calls = [p \in Callers |-> NoCall]
  PROVE  RegInv
<1>1. NoCall \in CallRecord
    BY NoTags DEF NoCall, CallRecord, Results
<1>2. InFlight(NoCall.tags) = {}
    BY NoTags DEF NoCall
<1>3. IsFiniteSet(InFlight(NoCall.tags)) /\ Cardinality(InFlight(NoCall.tags)) <= TagFetchLimit
    BY <1>2, NoneInFlight, Zenon
<1>4. CallStory(NoCall)
    BY <1>3, NoTags DEF CallStory, NoCall
<1> QED
    BY <1>1, <1>4 DEF RegInv

LEMMA RegInvInit == RegistryInit \/ RegistryRest => RegInv
<1>1. ASSUME NEW password \in Passwords \cup {NoPassword}, NEW active \in BOOLEAN, NEW state \in {"live", "deleted"}
      PROVE  [state |-> state, password |-> password, active |-> active, status |-> "none"] \in RegistryRecord
    BY DEF RegistryRecord
<1>2. ASSUME NEW kind \in {"hub", "open", "basic", "bearer", "strange"}, NEW lenient \in BOOLEAN,
             NEW valid, valid = {"p1"} \cup (IF lenient THEN {NoPassword} ELSE {}),
             docker_io = [kind |-> kind, health |-> "up", password |-> "p1", lenient |-> lenient, valid |-> valid]
      PROVE  /\ docker_io \in DockerRecord /\ docker_io.password \in docker_io.valid
             /\ docker_io.lenient => NoPassword \in docker_io.valid
  <2>1. valid \in SUBSET (Passwords \cup {NoPassword}) /\ "p1" \in valid /\ (lenient => NoPassword \in valid)
      BY <1>2 DEF Passwords
  <2>2. "up" \in Healths /\ "p1" \in Passwords
      BY DEF Healths, Passwords
  <2> QED
      BY <1>2, <2>1, <2>2 DEF DockerRecord
<1>3. ASSUME RegistryInit PROVE RegInv
  <2>1. registry \in RegistryRecord
      BY <1>1, <1>3 DEF RegistryInit
  <2>2. /\ docker_io \in DockerRecord /\ docker_io.password \in docker_io.valid
        /\ docker_io.lenient => NoPassword \in docker_io.valid
      BY <1>2, <1>3 DEF RegistryInit
  <2> QED
      BY <1>3, <2>1, <2>2, RegInvStart DEF RegistryInit
<1>4. ASSUME RegistryRest PROVE RegInv
  <2>1. registry \in RegistryRecord
      BY <1>1, <1>4 DEF RegistryRest
  <2>2. /\ docker_io \in DockerRecord /\ docker_io.password \in docker_io.valid
        /\ docker_io.lenient => NoPassword \in docker_io.valid
      BY <1>2, <1>4 DEF RegistryRest
  <2> QED
      BY <1>4, <2>1, <2>2, RegInvStart DEF RegistryRest
<1> QED
    BY <1>3, <1>4

LEMMA CallFinds ==
  ASSUME RegInv, NEW p \in Callers
  PROVE  /\ registry \in RegistryRecord /\ docker_io \in DockerRecord
         /\ docker_io.password \in docker_io.valid
         /\ docker_io.lenient => NoPassword \in docker_io.valid
         /\ calls \in [Callers -> CallRecord] /\ calls[p] \in CallRecord /\ CallStory(calls[p])
         /\ calls[p].tags \in TagMaps /\ calls[p].hurt \subseteq Repos
         /\ calls[p].password \in Passwords \cup {NoPassword}
         /\ calls[p].ask \in Asks \cup {"none", "update", "delete"}
    BY DEF RegInv, CallRecord, DockerRecord

\* A step of one call, by what becomes of it.
LEMMA CallMoves ==
  ASSUME RegInv, NEW p \in Callers, NEW c \in CallRecord, CallStory(c), calls' = [calls EXCEPT ![p] = c],
         UNCHANGED docker_io, registry' \in RegistryRecord
  PROVE  RegInv'
<1>1. /\ calls' \in [Callers -> CallRecord] /\ calls'[p] = c
      /\ \A q \in Callers \ {p} : calls'[q] = calls[q]
    BY DEF RegInv
<1>2. \A q \in Callers : CallStory(calls'[q])
    BY <1>1 DEF RegInv
<1>3. \A q \in Callers : CallStory(calls[q])'
    BY <1>2 DEF CallStory, Trusted, Vouched
<1> QED
    BY <1>1, <1>3 DEF RegInv

LEMMA CallDoneKeeps ==
  ASSUME RegInv, NEW p \in Callers, NEW result \in Results, CallDone(p, result),
         UNCHANGED docker_io, registry' \in RegistryRecord,
         result = "images" => Settled(calls[p].tags) /\ calls[p].pc = "tags",
         calls[p].ask \in {"connect", "ping"} /\ result = "OK" => Vouched(calls[p])
  PROVE  RegInv'
<1>1. PICK c : c = [calls[p] EXCEPT !.pc = "done", !.result = result, !.live = FALSE]
    OBVIOUS
<1>2. calls' = [calls EXCEPT ![p] = c]
    BY <1>1, CallFinds DEF CallDone
<1>3. /\ c \in CallRecord /\ c.pc = "done" /\ c.result = result /\ c.ask = calls[p].ask
      /\ c.tags = calls[p].tags /\ c.hurt = calls[p].hurt /\ c.password = calls[p].password
      /\ c.total = calls[p].total
    BY <1>1, CallFinds DEF CallRecord
<1>4. CallStory(c)
    BY <1>3, CallFinds DEF CallStory, Trusted, Vouched
<1> QED
    BY <1>2, <1>3, <1>4, CallMoves

LEMMA RegistryTurnsKeeps ==
  ASSUME RegInv, RegistryTurns
  PROVE  RegInv'
<1>1. \/ \E h \in Healths \ {"up"} : docker_io' = [docker_io EXCEPT !.health = h]
      \/ \E w \in Passwords \ docker_io.valid :
            docker_io' = [docker_io EXCEPT !.password = w, !.valid = docker_io.valid \cup {w}]
    BY Zenon DEF RegistryTurns
<1>2. /\ docker_io' \in DockerRecord /\ docker_io'.kind = docker_io.kind
      /\ docker_io.valid \subseteq docker_io'.valid /\ docker_io'.password \in docker_io'.valid
      /\ docker_io'.lenient = docker_io.lenient
  <2>1. ASSUME NEW h \in Healths, docker_io' = [docker_io EXCEPT !.health = h]
        PROVE  /\ docker_io' \in DockerRecord /\ docker_io'.kind = docker_io.kind
               /\ docker_io.valid \subseteq docker_io'.valid /\ docker_io'.password \in docker_io'.valid
               /\ docker_io'.lenient = docker_io.lenient
      BY <2>1 DEF RegInv, DockerRecord
  <2>2. ASSUME NEW w \in Passwords,
               docker_io' = [docker_io EXCEPT !.password = w, !.valid = docker_io.valid \cup {w}]
        PROVE  /\ docker_io' \in DockerRecord /\ docker_io'.kind = docker_io.kind
               /\ docker_io.valid \subseteq docker_io'.valid /\ docker_io'.password \in docker_io'.valid
               /\ docker_io'.lenient = docker_io.lenient
      BY <2>2 DEF RegInv, DockerRecord
  <2> QED
      BY <1>1, <2>1, <2>2, Zenon
<1>3. registry' = registry /\ calls' = calls
    BY Zenon DEF RegistryTurns
<1>4. \A p \in Callers : CallStory(calls[p])'
    BY <1>2, <1>3 DEF RegInv, CallStory, Trusted, Vouched
<1> QED
    BY <1>2, <1>3, <1>4 DEF RegInv

LEMMA ClientLeavesKeeps ==
  ASSUME RegInv, NEW p \in Callers, ClientLeaves(p)
  PROVE  RegInv'
<1>1. PICK c : c = [calls[p] EXCEPT !.live = FALSE]
    OBVIOUS
<1>2. calls' = [calls EXCEPT ![p] = c] /\ UNCHANGED <<registry, docker_io>>
    BY <1>1, CallFinds DEF ClientLeaves, SameRegistry
<1>3. /\ c \in CallRecord /\ c.pc = calls[p].pc /\ c.result = calls[p].result /\ c.ask = calls[p].ask
      /\ c.tags = calls[p].tags /\ c.hurt = calls[p].hurt /\ c.password = calls[p].password
      /\ c.total = calls[p].total
    BY <1>1, CallFinds DEF CallRecord
<1>4. CallStory(c)
    BY <1>3, CallFinds DEF CallStory, Trusted, Vouched
<1> QED
    BY <1>2, <1>3, <1>4, CallMoves, CallFinds

LEMMA RowChangeKeeps ==
  ASSUME RegInv, NEW p \in Callers,
         \/ RowDeleted(p)
         \/ \E password \in Passwords \cup {NoPassword}, active \in BOOLEAN : RowUpdated(p, password, active)
  PROVE  RegInv'
<1>1. PICK ask \in {"update", "delete"} : CallAt(p, "idle") /\ Only(p, ask) /\ UNCHANGED docker_io
  <2>1. CASE RowDeleted(p)
      BY <2>1, Zenon DEF RowDeleted
  <2>2. ASSUME NEW password \in Passwords \cup {NoPassword}, NEW active \in BOOLEAN, RowUpdated(p, password, active)
        PROVE  CallAt(p, "idle") /\ Only(p, "update") /\ UNCHANGED docker_io
      BY <2>2, Zenon DEF RowUpdated
  <2> QED
      BY <2>1, <2>2
<1>2. PICK c : c = [calls[p] EXCEPT !.ask = ask, !.pc = "done", !.live = FALSE]
    OBVIOUS
<1>3. calls' = [calls EXCEPT ![p] = c]
    BY <1>1, <1>2, CallFinds DEF Only
<1>4. /\ c \in CallRecord /\ c.pc = "done" /\ c.ask = ask /\ c.result = calls[p].result
      /\ c.tags = calls[p].tags /\ c.hurt = calls[p].hurt /\ c.password = calls[p].password
      /\ c.total = calls[p].total
    BY <1>2, CallFinds DEF CallRecord
<1>5. CallStory(c)
    BY <1>4, CallFinds DEF CallStory, Trusted, Vouched
<1>6. registry' \in RegistryRecord
  <2>1. CASE RowDeleted(p)
      BY <2>1, CallFinds DEF RowDeleted, RegistryRecord
  <2>2. ASSUME NEW password \in Passwords \cup {NoPassword}, NEW active \in BOOLEAN, RowUpdated(p, password, active)
        PROVE  registry' \in RegistryRecord
    <3>1. registry' = [registry EXCEPT !.password = password, !.active = active]
        BY <2>2, Zenon DEF RowUpdated
    <3> QED
        BY <3>1, CallFinds DEF RegistryRecord
  <2> QED
      BY <2>1, <2>2
<1> QED
    BY <1>1, <1>3, <1>4, <1>5, <1>6, CallMoves

LEMMA RowReadKeeps ==
  ASSUME RegInv, NEW p \in Callers, NEW ask \in Asks, RowRead(p, ask)
  PROVE  RegInv'
<1>1. CallAt(p, "idle") /\ UNCHANGED <<registry, docker_io>>
    BY DEF RowRead, SameRegistry
<1>2. CASE CallDone(p, "NOT_FOUND") \/ CallDone(p, "INTERNAL_ERROR")
    BY <1>1, <1>2, CallFinds, CallDoneKeeps DEF Results
<1>3. CASE calls' = [calls EXCEPT ![p].ask = ask, ![p].password = registry.password, ![p].pc = "ask"]
  <2>1. PICK c : c = [calls[p] EXCEPT !.ask = ask, !.password = registry.password, !.pc = "ask"]
      OBVIOUS
  <2>2. calls' = [calls EXCEPT ![p] = c]
      BY <1>3, <2>1, CallFinds
  <2>3. registry.password \in Passwords \cup {NoPassword}
      BY CallFinds DEF RegistryRecord
  <2>4. /\ c \in CallRecord /\ c.pc = "ask" /\ c.ask = ask /\ c.result = calls[p].result
        /\ c.tags = calls[p].tags /\ c.hurt = calls[p].hurt /\ c.total = calls[p].total
      BY <2>1, <2>3, CallFinds DEF CallRecord
  <2>5. CallStory(c)
      BY <1>1, <2>4, CallFinds DEF CallStory, CallAt
  <2> QED
      BY <1>1, <2>2, <2>4, <2>5, CallMoves, CallFinds
<1> QED
    BY <1>2, <1>3 DEF RowRead

LEMMA CheckStatusKnown ==
  ASSUME NEW p, NEW reply
  PROVE  CheckStatus(p, reply) \in Status /\ ListError(p, reply) \in Results \ (Status \cup {"images"})
    BY DEF CheckStatus, ListError, Status, Results

\* The exchange is over: what the registry has said last, with a password
\* that is right where it says welcome.
LEMMA EndedKeeps ==
  ASSUME RegInv, NEW p \in Callers, NEW reply, Ended(p, reply), UNCHANGED <<registry, docker_io>>,
         calls[p].pc \in {"ask", "token", "basic", "retry", "repos"},
         reply = "welcome" => Vouched(calls[p]) \/ calls[p].ask = "images"
  PROVE  RegInv'
<1>1. calls[p].result = "none" /\ calls[p].tags = <<>>
    BY CallFinds DEF CallStory
<1>2. CASE calls[p].ask # "images"
  <2>1. PICK result \in Status : result = CheckStatus(p, reply)
      BY CheckStatusKnown
  <2>2. PICK c : c = [calls[p] EXCEPT !.pc = "record", !.result = result]
      OBVIOUS
  <2>3. calls' = [calls EXCEPT ![p] = c]
      BY <1>2, <2>1, <2>2, CallFinds DEF Ended
  <2>4. /\ c \in CallRecord /\ c.pc = "record" /\ c.result = result /\ c.ask = calls[p].ask
        /\ c.tags = calls[p].tags /\ c.hurt = calls[p].hurt /\ c.password = calls[p].password
        /\ c.total = calls[p].total
      BY <2>2, CallFinds DEF CallRecord, Results
  <2>5. result = "OK" => Vouched(calls[p])
    <3>1. CASE reply = "welcome"
        BY <1>2, <3>1
    <3>2. CASE reply # "welcome"
        BY <2>1, <3>2 DEF CheckStatus, HasPassword, Vouched
    <3> QED
        BY <3>1, <3>2
  <2>6. result # "images"
      BY DEF Status
  <2>7. CallStory(c)
      BY <1>2, <2>4, <2>5, <2>6, CallFinds DEF CallStory, Trusted, Vouched, Asks
  <2> QED
      BY <2>3, <2>4, <2>7, CallMoves, CallFinds
<1>3. CASE calls[p].ask = "images" /\ reply = "welcome"
  <2>1. PICK total \in 0..RepoCount :
            calls' = [calls EXCEPT ![p].pc = "tags", ![p].total = total,
                                   ![p].tags = [x \in 1..Cut(total) |-> "waiting"]]
      BY <1>3, Zenon DEF Ended
  <2>2. PICK S, tags : S = 1..Cut(total) /\ tags = [x \in S |-> "waiting"]
      OBVIOUS
  <2>3. PICK c : c = [calls[p] EXCEPT !.pc = "tags", !.total = total, !.tags = tags]
      OBVIOUS
  <2>4. calls' = [calls EXCEPT ![p] = c]
      BY <2>1, <2>2, <2>3, CallFinds
  <2>5. S \in SUBSET Repos /\ tags \in [S -> {"waiting", "fetching", "known", "unknown"}]
      BY <2>1, <2>2, RepoBounds DEF Cut, Repos
  <2>6. tags \in TagMaps
      BY <2>5, Zenon DEF TagMaps
  <2>7. /\ c \in CallRecord /\ c.pc = "tags" /\ c.result = "none" /\ c.ask = "images"
        /\ c.tags = tags /\ c.hurt = calls[p].hurt /\ c.total = total
    <3>1. total \in Nat
        BY <2>1
    <3> QED
        BY <1>1, <1>3, <2>3, <2>6, <3>1, CallFinds DEF CallRecord
  <2>8. InFlight(c.tags) = {} /\ calls[p].hurt = {} /\ \A x \in DOMAIN c.tags : c.tags[x] = "waiting"
    <3>1. DOMAIN tags = S /\ \A x \in S : tags[x] = "waiting"
        BY <2>2
    <3>2. calls[p].hurt = {}
        BY <1>1, NoTags, CallFinds DEF CallStory
    <3> QED
        BY <2>7, <3>1, <3>2 DEF InFlight
  <2>9. IsFiniteSet(InFlight(c.tags)) /\ Cardinality(InFlight(c.tags)) <= TagFetchLimit
      BY <2>8, NoneInFlight, Zenon
  <2>10. CallStory(c)
    <3>1. DOMAIN c.tags = 1..Cut(c.total)
        BY <2>2, <2>7
    <3> QED
        BY <2>7, <2>8, <2>9, <3>1 DEF CallStory, Asks
  <2> QED
      BY <2>4, <2>7, <2>10, CallMoves, CallFinds
<1>4. CASE calls[p].ask = "images" /\ reply # "welcome"
  <2>1. CallDone(p, ListError(p, reply))
      BY <1>4, Zenon DEF Ended
  <2> QED
      BY <1>4, <2>1, CheckStatusKnown, CallDoneKeeps, CallFinds DEF Status
<1> QED
    BY <1>2, <1>3, <1>4

LEMMA WelcomeSaid ==
  ASSUME RegInv, NEW p \in Callers, "welcome" \in Replies(p)
  PROVE  "welcome" \in Says(p)
<1>1. docker_io.health \in {"up", "failing", "down", "bad-certificate"}
    BY DEF RegInv, DockerRecord, Healths
<1>2. CASE docker_io.health = "up"
    BY <1>2 DEF Replies
<1>3. CASE docker_io.health # "up"
    BY <1>1, <1>3 DEF Replies
<1> QED
    BY <1>2, <1>3

LEMMA JudgedTrusted ==
  ASSUME RegInv, NEW p \in Callers, "welcome" \in Judged(p)
  PROVE  Trusted(calls[p])
<1>1. calls[p].password = docker_io.password \/ (docker_io.lenient /\ calls[p].password = NoPassword)
    BY DEF Judged, HasPassword
<1> QED
    BY <1>1, CallFinds DEF Trusted

LEMMA SaysJudged ==
  ASSUME RegInv, NEW p \in Callers, calls[p].pc \notin {"retry", "repos"}
  PROVE  \/ Says(p) = Judged(p)
         \/ calls[p].pc = "ask" /\ docker_io.kind = "open"
         \/ calls[p].pc = "ask" /\ docker_io.kind = "hub" /\ ~HasPassword(p)
         \/ calls[p].pc = "ask" /\ docker_io.kind \in {"basic", "bearer", "strange"}
    BY DEF Says, CallAt

LEMMA WelcomeTrusted ==
  ASSUME RegInv, NEW p \in Callers, "welcome" \in Replies(p),
         calls[p].pc \in {"ask", "token", "basic", "retry", "repos"}
  PROVE  Vouched(calls[p]) \/ calls[p].ask = "images"
<1>1. CASE calls[p].pc \in {"retry", "repos"}
    BY <1>1, CallFinds DEF CallStory, Vouched
<1>2. CASE calls[p].pc \notin {"retry", "repos"}
  <2>1. "welcome" \in Says(p)
      BY WelcomeSaid
  <2>2. CASE Says(p) = Judged(p)
      BY <2>1, <2>2, JudgedTrusted DEF Vouched
  <2>3. CASE calls[p].pc = "ask" /\ docker_io.kind = "open"
      BY <2>3 DEF Vouched
  <2>4. CASE calls[p].pc = "ask" /\ docker_io.kind = "hub" /\ ~HasPassword(p)
      BY <2>4 DEF Vouched, HasPassword
  <2>5. CASE calls[p].pc = "ask" /\ docker_io.kind \in {"basic", "bearer", "strange"}
      BY <2>1, <2>5 DEF Says, CallAt
  <2> QED
      BY <1>2, <2>2, <2>3, <2>4, <2>5, SaysJudged
<1> QED
    BY <1>1, <1>2

LEMMA ExchangeKeeps ==
  ASSUME RegInv, NEW p \in Callers, Exchange(p)
  PROVE  RegInv'
<1>1. /\ calls[p].pc \in {"ask", "token", "basic", "retry", "repos"}
      /\ UNCHANGED <<registry, docker_io>>
    BY Zenon DEF Exchange, SameRegistry
<1>2. PICK reply \in Replies(p) :
          IF reply = "challenge"
          THEN IF Answered = "none" THEN Ended(p, "refused")
               ELSE calls' = [calls EXCEPT ![p].pc = Answered]
          ELSE IF CallAt(p, "token") /\ reply = "welcome"
          THEN calls' = [calls EXCEPT ![p].pc = "retry"]
          ELSE IF calls[p].ask = "images" /\ HubLogin(p) /\ CallAt(p, "ask") /\ reply = "welcome"
          THEN calls' = [calls EXCEPT ![p].pc = "repos"]
          ELSE Ended(p, reply)
    BY Zenon DEF Exchange
<1>3. reply = "welcome" => Vouched(calls[p]) \/ calls[p].ask = "images"
    BY <1>1, <1>2, WelcomeTrusted
<1>4. ASSUME NEW pc \in {"token", "basic", "retry", "repos"}, calls' = [calls EXCEPT ![p].pc = pc],
             pc = "repos" => calls[p].ask = "images",
             pc = "retry" => Trusted(calls[p])
      PROVE  RegInv'
  <2>1. PICK c : c = [calls[p] EXCEPT !.pc = pc]
      OBVIOUS
  <2>2. calls' = [calls EXCEPT ![p] = c]
      BY <1>4, <2>1, CallFinds
  <2>3. /\ c \in CallRecord /\ c.pc = pc /\ c.result = calls[p].result /\ c.ask = calls[p].ask
        /\ c.tags = calls[p].tags /\ c.hurt = calls[p].hurt /\ c.password = calls[p].password
        /\ c.total = calls[p].total
      BY <2>1, CallFinds DEF CallRecord
  <2>4. CallStory(c)
      BY <1>1, <1>4, <2>3, CallFinds DEF CallStory, Trusted, Vouched
  <2> QED
      BY <1>1, <2>2, <2>3, <2>4, CallMoves, CallFinds
<1>5. CASE reply = "challenge" /\ Answered = "none"
  <2>1. Ended(p, "refused")
      BY <1>2, <1>5
  <2> QED
      BY <1>1, <2>1, EndedKeeps
<1>6. CASE reply = "challenge" /\ Answered # "none"
  <2>1. Answered \in {"token", "basic"} /\ calls' = [calls EXCEPT ![p].pc = Answered]
      BY <1>2, <1>6 DEF Answered
  <2> QED
      BY <1>4, <2>1
<1>7. CASE reply = "welcome" /\ CallAt(p, "token")
  <2>1. calls' = [calls EXCEPT ![p].pc = "retry"]
      BY <1>2, <1>7
  <2>2. "welcome" \in Says(p) /\ calls[p].pc = "token"
      BY <1>2, <1>7, WelcomeSaid DEF CallAt
  <2>3. Trusted(calls[p])
      BY <2>2, SaysJudged, JudgedTrusted
  <2> QED
      BY <1>4, <2>1, <2>3
<1>8. CASE reply = "welcome" /\ calls[p].ask = "images" /\ HubLogin(p) /\ CallAt(p, "ask")
  <2>1. calls' = [calls EXCEPT ![p].pc = "repos"]
      BY <1>2, <1>8 DEF CallAt
  <2> QED
      BY <1>4, <1>8, <2>1
<1>9. CASE Ended(p, reply)
    BY <1>1, <1>3, <1>9, EndedKeeps
<1> QED
    BY <1>2, <1>5, <1>6, <1>7, <1>8, <1>9

LEMMA ListingEndsKeeps ==
  ASSUME RegInv, NEW p \in Callers, ListingEnds(p)
  PROVE  RegInv'
<1>1. /\ CallDone(p, "REGISTRY_UNSUPPORTED") \/ CallDone(p, "INTERNAL_ERROR")
      /\ UNCHANGED <<registry, docker_io>>
    BY Zenon DEF ListingEnds, SameRegistry
<1> QED
    BY <1>1, CallDoneKeeps, CallFinds DEF Results

LEMMA RecordKeeps ==
  ASSUME RegInv, NEW p \in Callers, Record(p)
  PROVE  RegInv'
<1>1. /\ calls[p].pc = "record" /\ CallDone(p, calls[p].result) /\ UNCHANGED docker_io
      /\ Recorded(p) \/ UNCHANGED registry
    BY Zenon DEF Record, CallAt
<1>2. calls[p].result \in Status /\ calls[p].result \in Results
    BY <1>1, CallFinds DEF CallStory, Results
<1>3. registry' \in RegistryRecord
  <2>1. PICK active : active = SetActive(p)
      OBVIOUS
  <2>2. active \in BOOLEAN
      BY <2>1, CallFinds DEF SetActive, Connected, RegistryRecord
  <2>3. CASE registry' = [registry EXCEPT !.status = calls[p].result, !.active = active]
      BY <1>2, <2>2, <2>3, CallFinds DEF RegistryRecord
  <2> QED
      BY <1>1, <2>1, <2>3, CallFinds DEF Recorded
<1>4. PICK result \in Results : result = calls[p].result
    BY <1>2
<1> QED
    BY <1>1, <1>2, <1>3, <1>4, CallDoneKeeps, CallFinds DEF CallStory, Status

TagPut(p, x, tag, more) ==
    calls' = [calls EXCEPT ![p] = [calls[p] EXCEPT !.tags = [calls[p].tags EXCEPT ![x] = tag], !.hurt = more]]

LEMMA TagsKeeps ==
  ASSUME RegInv, NEW p \in Callers, NEW x \in DOMAIN calls[p].tags, calls[p].pc = "tags",
         NEW tag \in {"fetching", "known", "unknown"}, NEW more \in {calls[p].hurt, calls[p].hurt \cup {x}},
         TagPut(p, x, tag, more),
         UNCHANGED <<registry, docker_io>>,
         tag = "unknown" => x \in more,
         tag = "fetching" => Cardinality(InFlight(calls[p].tags)) < TagFetchLimit
  PROVE  RegInv'
<1>1. PICK tags : tags = [calls[p].tags EXCEPT ![x] = tag]
    OBVIOUS
<1>2. PICK S \in SUBSET Repos : calls[p].tags \in [S -> {"waiting", "fetching", "known", "unknown"}]
    BY CallFinds DEF TagMaps
<1>3. tags \in [S -> {"waiting", "fetching", "known", "unknown"}] /\ DOMAIN tags = DOMAIN calls[p].tags
    BY <1>1, <1>2
<1>4. tags \in TagMaps /\ more \in SUBSET Repos
    BY <1>2, <1>3, CallFinds DEF TagMaps
<1>5. PICK c : c = [calls[p] EXCEPT !.tags = tags, !.hurt = more]
    OBVIOUS
<1>6. calls' = [calls EXCEPT ![p] = c]
    BY <1>1, <1>5 DEF TagPut
<1>7. /\ c \in CallRecord /\ c.pc = "tags" /\ c.result = calls[p].result /\ c.ask = calls[p].ask
      /\ c.tags = tags /\ c.hurt = more /\ c.total = calls[p].total
    BY <1>4, <1>5, CallFinds DEF CallRecord
<1>8. calls[p].result = "none" /\ calls[p].ask = "images" /\ DOMAIN tags = 1..Cut(calls[p].total)
    BY <1>3, CallFinds DEF CallStory
<1>9. /\ more \subseteq DOMAIN tags
      /\ \A y \in DOMAIN tags : tags[y] = "unknown" => y \in more
    BY <1>1, <1>3, CallFinds DEF CallStory
<1>10. IsFiniteSet(InFlight(tags)) /\ Cardinality(InFlight(tags)) <= TagFetchLimit
  <2>1. /\ IsFiniteSet(InFlight(calls[p].tags)) /\ Cardinality(InFlight(calls[p].tags)) \in Nat
        /\ Cardinality(InFlight(calls[p].tags)) <= TagFetchLimit
      BY CallFinds, FS_CardinalityType DEF CallStory
  <2>2. CASE tag = "fetching"
    <3>1. InFlight(tags) = InFlight(calls[p].tags) \cup {x}
        BY <1>1, <1>3, <2>2 DEF InFlight
    <3>2. PICK S0 : S0 = InFlight(calls[p].tags)
        OBVIOUS
    <3>3. /\ IsFiniteSet(S0 \cup {x})
          /\ Cardinality(S0 \cup {x}) = IF x \in S0 THEN Cardinality(S0) ELSE Cardinality(S0) + 1
        BY <2>1, <3>2, FS_AddElement
    <3> QED
        BY <2>1, <2>2, <3>1, <3>2, <3>3, TagFetchLimitPositive
  <2>3. CASE tag # "fetching"
    <3>1. InFlight(tags) \in SUBSET InFlight(calls[p].tags)
        BY <1>1, <1>3, <2>3 DEF InFlight
    <3>2. IsFiniteSet(InFlight(tags)) /\ Cardinality(InFlight(tags)) <= Cardinality(InFlight(calls[p].tags))
        BY <2>1, <3>1, FS_Subset
    <3>3. Cardinality(InFlight(tags)) \in Nat
        BY <3>2, FS_CardinalityType
    <3> QED
        BY <2>1, <3>2, <3>3, TagFetchLimitPositive
  <2> QED
      BY <2>2, <2>3
<1>11. CallStory(c)
    BY <1>7, <1>8, <1>9, <1>10 DEF CallStory, Asks
<1> QED
    BY <1>6, <1>7, <1>11, CallMoves, CallFinds

LEMMA TagsStartKeeps ==
  ASSUME RegInv, NEW p \in Callers, NEW x, TagsStart(p, x)
  PROVE  RegInv'
<1>1. /\ calls[p].pc = "tags" /\ x \in DOMAIN calls[p].tags /\ UNCHANGED <<registry, docker_io>>
      /\ Cardinality(InFlight(calls[p].tags)) < TagFetchLimit
      /\ calls' = [calls EXCEPT ![p].tags[x] = "fetching"]
    BY DEF TagsStart, CallAt, SameRegistry, Fetching, InFlight
<1>2. TagPut(p, x, "fetching", calls[p].hurt)
    BY <1>1, CallFinds DEF CallRecord, TagPut
<1> QED
    BY <1>1, <1>2, TagsKeeps

LEMMA TagsEndKeeps ==
  ASSUME RegInv, NEW p \in Callers, NEW x, TagsEnd(p, x)
  PROVE  RegInv'
<1>1. /\ calls[p].pc = "tags" /\ x \in DOMAIN calls[p].tags /\ UNCHANGED <<registry, docker_io>>
    BY DEF TagsEnd, CallAt, SameRegistry, Fetching
<1>2. CASE calls' = [calls EXCEPT ![p].tags[x] = "known"]
  <2>1. TagPut(p, x, "known", calls[p].hurt)
      BY <1>2, CallFinds DEF CallRecord, TagPut
  <2> QED
      BY <1>1, <2>1, TagsKeeps
<1>3. CASE TagsFail(p, x)
  <2>1. PICK more : more = calls[p].hurt \cup {x}
      OBVIOUS
  <2>2. TagPut(p, x, "unknown", more)
      BY <1>3, <2>1, CallFinds DEF CallRecord, TagsFail, TagPut
  <2>3. more \in {calls[p].hurt, calls[p].hurt \cup {x}} /\ x \in more
      BY <2>1
  <2> QED
      BY <1>1, <2>2, <2>3, TagsKeeps
<1> QED
    BY <1>2, <1>3 DEF TagsEnd

LEMMA TagsJoinKeeps ==
  ASSUME RegInv, NEW p \in Callers, TagsJoin(p)
  PROVE  RegInv'
<1>1. /\ CallDone(p, "images") /\ Settled(calls[p].tags) /\ UNCHANGED <<registry, docker_io>>
      /\ calls[p].pc = "tags"
    BY Zenon DEF TagsJoin, SameRegistry, Settled, CallAt
<1> QED
    BY <1>1, CallDoneKeeps, CallFinds DEF Results

LEMMA RegInvStep == RegInv /\ RegistryNext => RegInv'
    BY RegistryTurnsKeeps, ClientLeavesKeeps, RowChangeKeeps, ExchangeKeeps, ListingEndsKeeps, RecordKeeps,
       TagsJoinKeeps, RowReadKeeps, TagsStartKeeps, TagsEndKeeps, Zenon DEF RegistryNext

LEMMA RegInvRest == RegInv /\ UNCHANGED registryVars => RegInv'
    BY DEF registryVars, RegInv, CallStory, Trusted, Vouched

LEMMA RegInvTypes == RegInv => RegistryTypeOK
<1> SUFFICES ASSUME RegInv, NEW p \in Callers
             PROVE  /\ registry \in [state : {"live", "deleted"}, password : Passwords \cup {NoPassword},
                                     active : BOOLEAN, status : Status \cup {"none"}]
                    /\ docker_io.health \in Healths
                    /\ calls[p].ask \in Asks \cup {"none", "update", "delete"}
                    /\ calls[p].pc \in {"idle", "ask", "token", "basic", "retry", "repos", "record", "tags", "done"}
                    /\ calls[p].result \in Results
                    /\ Cardinality(Fetching(p)) <= TagFetchLimit
                    /\ calls[p].hurt \subseteq DOMAIN calls[p].tags
    BY DEF RegInv, RegistryTypeOK, Results, RegistryRecord, DockerRecord
<1> QED
    BY CallFinds DEF RegistryRecord, DockerRecord, CallRecord, CallStory, Fetching, InFlight

LEMMA RegInvTrusted == RegInv => OnlyRightPasswordConnects
    BY CallFinds DEF OnlyRightPasswordConnects, Authenticated, Connected, HasPassword, CallStory, Trusted, Vouched

LEMMA RegInvImages == RegInv => ImagesWhole
    BY CallFinds DEF ImagesWhole, CallStory, Settled

\* The row changes with an update, a deletion, or the record of a check whose
\* client is still there.
LEMMA ActivityStep ==
  ASSUME RegInv, RegistryNext
  PROVE  ActivityJustified
<1>1. CASE registry' = registry
    BY <1>1 DEF ActivityJustified
<1>2. ASSUME NEW p \in Callers, CallAt(p, "idle"), registry.state = "live", NEW ask, Only(p, ask),
             registry'.status = registry.status, ask = "update" \/ registry'.active = registry.active
      PROVE  ActivityJustified
  <2>1. calls[p].pc = "idle" /\ calls'[p].pc = "done" /\ calls'[p].ask = ask
      BY <1>2, CallFinds DEF Only, CallAt, CallRecord
  <2>2. ask = "update" => Finishes(p, "update")
      BY <2>1 DEF Finishes, CallAt
  <2> QED
      BY <1>2, <2>2 DEF ActivityJustified
<1>3. ASSUME NEW p \in Callers, Record(p), registry' # registry
      PROVE  ActivityJustified
  <2>1. /\ registry.state = "live" /\ calls[p].live /\ CallAt(p, "record")
        /\ registry' = [registry EXCEPT !.status = calls[p].result, !.active = SetActive(p)]
        /\ CallDone(p, calls[p].result)
      BY <1>3, Zenon DEF Record, Recorded
  <2>2. calls[p].pc = "record" /\ calls'[p].pc = "done" /\ calls'[p].ask = calls[p].ask
      BY <2>1, CallFinds DEF CallDone, CallAt, CallRecord
  <2>3. Finishes(p, calls[p].ask)
      BY <2>2 DEF Finishes, CallAt
  <2>4. calls[p].ask \in {"connect", "ping"}
      BY <2>2, CallFinds DEF CallStory
  <2>5. Checks(p)
      BY <2>1, <2>3, <2>4 DEF Checks
  <2>6. registry'.status = calls[p].result /\ registry'.active = SetActive(p) /\ registry.active \in BOOLEAN
      BY <2>1 DEF RegInv, RegistryRecord
  <2>7. registry'.active # registry.active =>
            IF registry'.active THEN Connected(p) ELSE calls[p].ask = "ping" /\ ~Connected(p)
      BY <2>6 DEF SetActive, Connected
  <2>8. registry'.active # registry.active =>
            IF registry'.active THEN Connected(p) ELSE Finishes(p, "ping") /\ ~Connected(p)
      BY <2>3, <2>7
  <2> QED
      BY <2>1, <2>5, <2>6, <2>8, Zenon DEF ActivityJustified
<1>4. ASSUME NEW p \in Callers, RowDeleted(p) PROVE ActivityJustified
  <2>1. /\ CallAt(p, "idle") /\ registry.state = "live" /\ Only(p, "delete")
        /\ registry' = [registry EXCEPT !.state = "deleted"]
      BY <1>4, Zenon DEF RowDeleted
  <2>2. registry'.status = registry.status /\ registry'.active = registry.active
      BY <2>1, CallFinds DEF RegistryRecord
  <2> QED
      BY <1>2, <2>1, <2>2
<1>5. ASSUME NEW p \in Callers, NEW password, NEW active, RowUpdated(p, password, active)
      PROVE  ActivityJustified
  <2>1. /\ CallAt(p, "idle") /\ registry.state = "live" /\ Only(p, "update")
        /\ registry' = [registry EXCEPT !.password = password, !.active = active]
      BY <1>5, Zenon DEF RowUpdated
  <2>2. registry'.status = registry.status
      BY <2>1, CallFinds DEF RegistryRecord
  <2> QED
      BY <1>2, <2>1, <2>2
<1>6. ASSUME NEW p \in Callers,
             \/ ClientLeaves(p) \/ Exchange(p) \/ ListingEnds(p) \/ TagsJoin(p)
             \/ \E ask \in Asks : RowRead(p, ask)
             \/ \E x \in 1..RepoCount : TagsStart(p, x) \/ TagsEnd(p, x)
      PROVE  registry' = registry
    BY <1>6, Zenon DEF ClientLeaves, Exchange, ListingEnds, TagsJoin, RowRead, TagsStart, TagsEnd, SameRegistry
<1>7. RegistryTurns => registry' = registry
    BY Zenon DEF RegistryTurns
<1> QED
    BY <1>1, <1>3, <1>4, <1>5, <1>6, <1>7, Zenon DEF RegistryNext

-----------------------------------------------------------------------------
(* The theorems. *)

Inv == LogsInv /\ BoxInv /\ UnitInv /\ ReportInv /\ ReportTypes /\ ListInv /\ RegInv

LEMMA InitInv == CollectionInit => Inv
<1> SUFFICES ASSUME CollectionInit PROVE Inv
    OBVIOUS
<1>1. LogsInit \/ LogsRest
    BY DEF CollectionInit, Asked
<1>2. BoxInit \/ BoxRest
    BY DEF CollectionInit, Asked
<1>3. UnitInit \/ UnitRest
    BY DEF CollectionInit, Asked
<1>4. ReportInit \/ ReportRest
    BY DEF CollectionInit, Asked
<1>5. ListInit \/ ListRest
    BY DEF CollectionInit, Asked
<1>6. RegistryInit \/ RegistryRest
    BY DEF CollectionInit, Asked
<1>7. ASSUME BoxRest PROVE BoxInv
  <2>1. boxes \in [Boxes -> BoxState \cup {Absent}] /\ engine \in {"up", "down", "no-cli"}
      BY <1>7 DEF BoxRest
  <2>2. sweep = NoSweep
      BY <1>7 DEF BoxRest
  <2>3. steady = Boxes /\ hurt = {} /\ trouble = FALSE
      BY <1>7 DEF BoxRest
  <2> QED
      BY <2>1, <2>2, <2>3, BoxInvStart
<1>8. ASSUME UnitRest PROVE UnitInv
  <2>1. /\ units \in [Units -> UnitState \cup {Gone}] /\ manager \in {"up", "unreachable", "not-installed"}
        /\ watch = [steady |-> Units, hurt |-> {}, trouble |-> FALSE]
      BY <1>8 DEF UnitRest
  <2>2. scan = [NoScan EXCEPT !.of = "local"]
      BY <1>8 DEF UnitRest, NoScan
  <2> QED
      BY <2>1, <2>2, UnitInvStart
<1>9. ListRest => ListInv
    BY ListInvStart, FALSE \in BOOLEAN, 0 \in Nat DEF ListRest
<1>10. ReportTypes
    BY <1>4 DEF ReportInit, ReportRest, ReportTypes
<1> QED
    BY <1>1, <1>2, <1>3, <1>4, <1>5, <1>6, <1>7, <1>8, <1>9, <1>10, LogsInvInit, BoxInvInit, UnitInvInit,
       ReportInvInit, ListInvInit, RegInvInit DEF Inv

LEMMA StepInv == Inv /\ [CollectionNext]_collectionVars => Inv'
<1> SUFFICES ASSUME Inv, [CollectionNext]_collectionVars PROVE Inv'
    OBVIOUS
<1>1. UNCHANGED logVars \/ LogsNext => LogsInv'
    BY LogsInvRest, LogsInvStep DEF Inv
<1>2. UNCHANGED boxVars \/ BoxNext => BoxInv'
    BY BoxInvRest, BoxInvStep DEF Inv
<1>3. UNCHANGED unitVars \/ UnitNext => UnitInv'
    BY UnitInvRest, UnitInvStep DEF Inv
<1>4. UNCHANGED reportVars \/ ReportNext => ReportInv' /\ ReportTypes'
  <2>1. UNCHANGED reportVars => ReportInv' /\ ReportTypes'
      BY DEF Inv, reportVars, ReportInv, SectionStory, ReportTypes
  <2>2. ReportNext => ReportInv' /\ ReportTypes'
      BY ReportInvStep, ReportTypesStep DEF Inv, ReportNext
  <2> QED
      BY <2>1, <2>2
<1>5. UNCHANGED listVars \/ ListNext => ListInv'
    BY ListInvRest, ListInvStep DEF Inv
<1>6. UNCHANGED registryVars \/ RegistryNext => RegInv'
    BY RegInvRest, RegInvStep DEF Inv
<1>7. /\ UNCHANGED logVars \/ LogsNext
      /\ UNCHANGED boxVars \/ BoxNext
      /\ UNCHANGED unitVars \/ UnitNext
      /\ UNCHANGED reportVars \/ ReportNext
      /\ UNCHANGED listVars \/ ListNext
      /\ UNCHANGED registryVars \/ RegistryNext
    BY Zenon DEF CollectionNext, Logs, Containers, Services, Report, List, Registry, OtherThanBoxes,
       OtherThanUnits, OtherThanReports, collectionVars
<1> QED
    BY <1>1, <1>2, <1>3, <1>4, <1>5, <1>6, <1>7 DEF Inv

LEMMA Invariance == Spec => []Inv
    BY InitInv, StepInv, PTL DEF Spec

\* The types of what the endpoints keep, and with them the limits on the
\* inspections, property calls and tag fetches under way.
THEOREM TypeCorrect == Spec => []TypeOK
<1>1. Inv => TypeOK
    BY LogsInvTypes, BoxInvTypes, UnitInvTypes, ReportInvTypes, ListInvTypes, RegInvTypes DEF Inv, TypeOK
<1> QED
    BY <1>1, Invariance, PTL

\* Whatever the limit, the stream and its chunks, a tail buffer holds exactly
\* the last bytes, and truncation is told exactly when there is one
\* (tailWriter.Write).
THEOREM LastBytesKept == Spec => []TailExact
<1>1. Inv => TailExact
    BY DEF Inv, LogsInv, Exact, TailExact, First
<1> QED
    BY <1>1, Invariance, PTL

\* However many reports are made at a time, each names exactly the sections
\* that have failed in it (addErr, Collect).
THEOREM FailuresNamed == Spec => []ErrorsKept
<1>1. ASSUME Inv, NEW r \in Reports, reports[r].answered
      PROVE  /\ reports[r].filled = Sections
             /\ reports[r].errors = {s \in Sections : <<r, s>> \in failed}
  <2>1. reports[r].filled \subseteq Sections /\ reports[r].errors \subseteq Sections
      BY <1>1 DEF Inv, ReportInv, ReportRecord
  <2>2. \A s \in Sections : /\ s \in reports[r].filled
                            /\ s \in reports[r].errors <=> <<r, s>> \in failed
      BY <1>1 DEF Inv, ReportInv, SectionStory
  <2> QED
      BY <2>1, <2>2
<1>2. Inv => ErrorsKept
    BY <1>1 DEF ErrorsKept
<1> QED
    BY <1>2, Invariance, PTL

\* Whatever happens to the other containers of a host, of any number, and
\* however often, a container nobody touches is in the answer, once and as it
\* is (gather and Collect of docker).
THEOREM UntouchedContainersShown == Spec => []SteadyShown
<1>1. Inv => SteadyShown
    BY BoxInvSteady DEF Inv
<1> QED
    BY <1>1, Invariance, PTL

\* An answer without an error has missed nothing (both docker collectors).
THEOREM NoErrorNothingMissed == Spec => []SilentIsWhole
<1>1. Inv => SilentIsWhole
    BY BoxInvSilent DEF Inv
<1> QED
    BY <1>1, Invariance, PTL

\* The same of the services: a unit nobody touches, and whose name no other
\* unit's is trimmed to, is listed once, with its state and the properties
\* whose call did not fail, for any number of units, any limit on the calls and
\* any size of a batch (both systemd collectors).
THEOREM UntouchedUnitsShown == Spec => []SteadyUnitsShown
<1>1. Inv => SteadyUnitsShown
    BY UnitInvSteady DEF Inv
<1> QED
    BY <1>1, Invariance, PTL

\* A property call that fails on the own host leaves an error (enrich, addErr).
THEOREM FailedCallsReported == Spec => []GapsReported
<1>1. Inv => GapsReported
    BY UnitInvGaps DEF Inv
<1> QED
    BY <1>1, Invariance, PTL

\* The pages of a table of any length, of any size, divide it
\* (ListServers and ListRegistries with their ORDER BY, LIMIT and OFFSET).
THEOREM PagesDivideTables == Spec => []PagesDivide
<1>1. Inv => PagesDivide
    BY ListInvDivides DEF Inv
<1> QED
    BY <1>1, Invariance, PTL

\* For any number of requests: "authenticated", from a registry that asks for a
\* login, means that the password tried - of a row without one, the empty one -
\* was accepted by it at some time (Checker.Check).
THEOREM OKMeansRightPassword == Spec => []OnlyRightPasswordConnects
<1>1. Inv => OnlyRightPasswordConnects
    BY RegInvTrusted DEF Inv
<1> QED
    BY <1>1, Invariance, PTL

\* For any number of repositories and any limits on the rows and the fetches:
\* no repository up to the cut is without its row, and a failed fetch of tags
\* costs these tags only (Checker.ListImages).
THEOREM TagsOfOthersKept == Spec => []ImagesWhole
<1>1. Inv => ImagesWhole
    BY RegInvImages DEF Inv
<1> QED
    BY <1>1, Invariance, PTL

\* No step of any number of requests changes a deleted row; is_active changes
\* only with an update, with a check that has connected, or with a ping that has
\* not, and the status only with a check whose client is there (ConnectRegistry,
\* PingRegistry, UpdateConnectionStatus).
THEOREM ActivityHasReason == Spec => ActivityIsJustified
<1>1. Inv /\ [CollectionNext]_collectionVars => [ActivityJustified]_registryVars
  <2> SUFFICES ASSUME Inv, [CollectionNext]_collectionVars, ~UNCHANGED registryVars
               PROVE  ActivityJustified
      OBVIOUS
  <2>1. RegistryNext
      BY Zenon DEF CollectionNext, Logs, Containers, Services, Report, List, Registry, OtherThanBoxes,
         OtherThanUnits, OtherThanReports, collectionVars
  <2> QED
      BY <2>1, ActivityStep DEF Inv
<1> QED
    BY <1>1, Invariance, PTL DEF Spec, ActivityIsJustified
=============================================================================
