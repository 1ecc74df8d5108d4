------------------------- MODULE RequestPathProofs -------------------------
(***************************************************************************)
(* Theorems about RequestPath, for any configuration, requests, bodies,    *)
(* histories, headrooms, statistics and lines: what history may change of  *)
(* a workflow, which models serve a contract and through which account,    *)
(* that fit comes first in both rankings, and how a streamed answer is     *)
(* judged, stripped and given up.  The recursive definitions of the        *)
(* library are opened by their least counterexample.                       *)
(***************************************************************************)
EXTENDS RequestPath, FiniteSetTheorems, SequenceTheorems, WellFoundedInduction, TLAPS

(* A set of naturals that is not empty has a least element.                *)
LEMMA LeastOf ==
    ASSUME NEW S \in SUBSET Nat, S # {}
    PROVE  \E x \in S : \A y \in S : x <= y
<1>1. PICK x \in S : \A y \in S : <<y, x>> \notin OpToRel(<, Nat)
  BY WFMin, NatLessThanWellFounded, Zenon
<1>2. \A y \in S : ~(y < x)
  BY <1>1, Zenon DEF OpToRel
<1> QED
  BY <1>2

(* A set of naturals with a bound has a greatest element.                  *)
LEMMA GreatestOf ==
    ASSUME NEW S \in SUBSET Nat, S # {}, NEW bound \in Nat, \A x \in S : x <= bound
    PROVE  /\ Max(S) \in S
           /\ \A y \in S : y <= Max(S)
<1> DEFINE gaps == {bound - x : x \in S}
<1>1. gaps \in SUBSET Nat /\ gaps # {}
  <2>1. \A x \in S : bound - x \in Nat
    OBVIOUS
  <2>2. PICK x \in S : TRUE
    OBVIOUS
  <2>3. bound - x \in gaps
    OBVIOUS
  <2> QED
    BY <2>1, <2>3
<1>2. PICK g \in gaps : \A h \in gaps : g <= h
  BY <1>1, LeastOf
<1>3. PICK x \in S : g = bound - x
  BY <1>2
<1>4. \A y \in S : y <= x
  <2> TAKE y \in S
  <2>1. bound - y \in gaps
    OBVIOUS
  <2>2. g <= bound - y
    BY <1>2, <2>1
  <2> QED
    BY <1>3, <2>2
<1> QED
  BY <1>4, Zenon DEF Max

-----------------------------------------------------------------------------
(* The bytes of an answer.                                                 *)

(* What has arrived of an answer after its first "from" lines.             *)
Bytes(from, to) == {Byte(k) : k \in (Newline * from + 1)..to}

(* d lines, and perhaps a part of another, have arrived.                   *)
IsDone(d, m) == d \in Nat /\ m \in Nat /\ 3 * d <= m /\ m <= 3 * d + 2

LEMMA DoneIsQuotient ==
    ASSUME NEW m \in Nat
    PROVE  IsDone(m \div Newline, m)
<1> DEFINE d == m \div 3
<1>1. d \in Nat /\ 3 * d <= m /\ m < 3 * d + 3
  OBVIOUS
<1> QED
  BY <1>1 DEF IsDone, Newline

LEMMA ByteAt ==
    ASSUME NEW i \in Nat, NEW r \in 1..3
    PROVE  Byte(3 * i + r) = [line |-> i + 1, part |-> r]
<1> DEFINE k == 3 * i + r
<1>1. (k - 1) \div 3 = i /\ (k - 1) % 3 = r - 1
  OBVIOUS
<1> QED
  BY <1>1 DEF Byte, Newline

LEMMA ByteOf ==
    ASSUME NEW k \in Nat, k > 0
    PROVE  \E i \in Nat, r \in 1..3 : k = 3 * i + r /\ Byte(k) = [line |-> i + 1, part |-> r]
<1> DEFINE i == (k - 1) \div 3
<1>1. i \in Nat /\ 3 * i <= k - 1 /\ k - 1 < 3 * i + 3
  OBVIOUS
<1> HIDE DEF i
<1>2. k - 3 * i \in 1..3 /\ k = 3 * i + (k - 3 * i)
  BY <1>1
<1>3. Byte(3 * i + (k - 3 * i)) = [line |-> i + 1, part |-> k - 3 * i]
  BY <1>1, <1>2, ByteAt
<1> QED
  BY <1>1, <1>2, <1>3

LEMMA InBytes ==
    ASSUME NEW a \in Nat, NEW m \in Nat, NEW b
    PROVE  b \in Bytes(a, m) <=>
             \E i \in Nat, r \in 1..3 :
                /\ a <= i /\ 3 * i + r <= m
                /\ b = [line |-> i + 1, part |-> r]
<1>1. ASSUME b \in Bytes(a, m)
      PROVE  \E i \in Nat, r \in 1..3 : a <= i /\ 3 * i + r <= m /\ b = [line |-> i + 1, part |-> r]
  <2>1. PICK k \in (3 * a + 1)..m : b = Byte(k)
    BY <1>1 DEF Bytes, Newline
  <2>2. k \in Nat /\ k > 0
    BY <2>1
  <2>3. PICK i \in Nat, r \in 1..3 : k = 3 * i + r /\ Byte(k) = [line |-> i + 1, part |-> r]
    BY <2>2, ByteOf
  <2>4. a <= i /\ 3 * i + r <= m
    BY <2>1, <2>3
  <2> QED
    BY <2>1, <2>3, <2>4
<1>2. ASSUME NEW i \in Nat, NEW r \in 1..3, a <= i, 3 * i + r <= m,
             b = [line |-> i + 1, part |-> r]
      PROVE  b \in Bytes(a, m)
  <2>1. 3 * i + r \in (3 * a + 1)..m
    BY <1>2
  <2>2. b = Byte(3 * i + r)
    BY <1>2, ByteAt
  <2> QED
    BY <2>1, <2>2 DEF Bytes, Newline
<1> QED
  BY <1>1, <1>2

(* A line that arrived with its newline is split off whole, and what       *)
(* follows the last one stays.                                             *)
LEMMA WholeLinesSplit ==
    ASSUME body \in Seq(Lines), NEW a \in Nat, NEW d \in Nat, NEW m \in Nat,
           a <= d, IsDone(d, m), m <= Newline * Len(body)
    PROVE  /\ LinesIn(Bytes(a, m), FALSE) = (a + 1)..d
           /\ \A i \in (a + 1)..d : Halves(Bytes(a, m), i) = {1, 2}
           /\ {b \in Bytes(a, m) : b.line \notin (a + 1)..d} = Bytes(d, m)
<1>0. DOMAIN body = 1..Len(body) /\ Len(body) \in Nat /\ d <= Len(body)
  BY DEF IsDone, Newline
<1>1. ASSUME NEW b \in Bytes(a, m)
      PROVE  /\ b.line \in Nat /\ b.part \in 1..3 /\ a + 1 <= b.line
             /\ b.part = 3 => b.line <= d
  <2>1. PICK i \in Nat, r \in 1..3 : a <= i /\ 3 * i + r <= m /\ b = [line |-> i + 1, part |-> r]
    BY InBytes
  <2>2. r = 3 => i + 1 <= d
    BY <2>1 DEF IsDone
  <2> QED
    BY <2>1, <2>2
<1>2. ASSUME NEW i \in (a + 1)..d, NEW r \in 1..3
      PROVE  [line |-> i, part |-> r] \in Bytes(a, m)
  <2>1. i - 1 \in Nat /\ a <= i - 1 /\ 3 * (i - 1) + r <= m /\ (i - 1) + 1 = i
    BY DEF IsDone
  <2> QED
    BY <2>1, InBytes
<1>3. LinesIn(Bytes(a, m), FALSE) = (a + 1)..d
  <2>1. ASSUME NEW i \in LinesIn(Bytes(a, m), FALSE) PROVE i \in (a + 1)..d
    <3>1. PICK b \in Bytes(a, m) : b.line = i /\ b.part = 3
      BY DEF LinesIn, Newline
    <3> QED
      BY <3>1, <1>1
  <2>2. ASSUME NEW i \in (a + 1)..d PROVE i \in LinesIn(Bytes(a, m), FALSE)
    <3>1. 3 \in 1..3 /\ i \in 1..Len(body)
      BY <1>0
    <3>2. [line |-> i, part |-> 3] \in Bytes(a, m)
      BY <3>1, <1>2
    <3> QED
      BY <3>1, <3>2, <1>0 DEF LinesIn, Newline
  <2> QED
    BY <2>1, <2>2
<1>4. ASSUME NEW i \in (a + 1)..d PROVE Halves(Bytes(a, m), i) = {1, 2}
  <2>1. Halves(Bytes(a, m), i) \subseteq {1, 2}
    BY <1>1 DEF Halves, Newline
  <2>2. [line |-> i, part |-> 1] \in Bytes(a, m) /\ [line |-> i, part |-> 2] \in Bytes(a, m)
    <3>1. 1 \in 1..3 /\ 2 \in 1..3
      OBVIOUS
    <3> QED
      BY <3>1, <1>2
  <2>3. 1 \in Halves(Bytes(a, m), i) /\ 2 \in Halves(Bytes(a, m), i)
    BY <2>2 DEF Halves, Newline
  <2> QED
    BY <2>1, <2>3
<1>5. {b \in Bytes(a, m) : b.line \notin (a + 1)..d} = Bytes(d, m)
  <2>1. ASSUME NEW b \in Bytes(a, m), b.line \notin (a + 1)..d
        PROVE  b \in Bytes(d, m)
    <3>1. PICK i \in Nat, r \in 1..3 : a <= i /\ 3 * i + r <= m /\ b = [line |-> i + 1, part |-> r]
      BY InBytes
    <3>2. d <= i
      BY <3>1, <2>1
    <3> QED
      BY <3>1, <3>2, InBytes
  <2>2. ASSUME NEW b \in Bytes(d, m)
        PROVE  b \in Bytes(a, m) /\ b.line \notin (a + 1)..d
    <3>1. PICK i \in Nat, r \in 1..3 : d <= i /\ 3 * i + r <= m /\ b = [line |-> i + 1, part |-> r]
      BY InBytes
    <3>2. a <= i /\ b.line = i + 1
      BY <3>1
    <3> QED
      BY <3>1, <3>2, InBytes
  <2> QED
    BY <2>1, <2>2
<1> QED
  BY <1>3, <1>4, <1>5

(* What follows the last newline is at most one line, which is whole if    *)
(* nothing but its newline is missing.                                     *)
LEMMA TailSplit ==
    ASSUME body \in Seq(Lines), NEW m \in Nat, m <= Newline * Len(body),
           NEW d \in Nat, IsDone(d, m)
    PROVE  /\ m = Newline * d =>
                 Bytes(d, m) = {} /\ LinesIn(Bytes(d, m), TRUE) = {}
           /\ m # Newline * d =>
                 /\ Bytes(d, m) # {} /\ d + 1 \in DOMAIN body
                 /\ LinesIn(Bytes(d, m), TRUE) = {d + 1}
           /\ Whole(Halves(Bytes(d, m), d + 1)) <=> Newline * (d + 1) - 1 <= m
<1>0. DOMAIN body = 1..Len(body) /\ Len(body) \in Nat
  OBVIOUS
<1>1. ASSUME NEW b \in Bytes(d, m)
      PROVE  b.line = d + 1 /\ b.part \in {1, 2} /\ 3 * d + b.part <= m
  <2>1. PICK i \in Nat, r \in 1..3 : d <= i /\ 3 * i + r <= m /\ b = [line |-> i + 1, part |-> r]
    BY InBytes
  <2>2. i = d /\ r \in {1, 2}
    BY <2>1 DEF IsDone
  <2> QED
    BY <2>1, <2>2
<1>2. ASSUME NEW r \in {1, 2}, 3 * d + r <= m
      PROVE  [line |-> d + 1, part |-> r] \in Bytes(d, m)
  BY <1>2, InBytes
<1>3. CASE m = 3 * d
  <2>1. Bytes(d, m) = {}
    BY <1>3, <1>1
  <2>2. LinesIn(Bytes(d, m), TRUE) = {} /\ Halves(Bytes(d, m), d + 1) = {}
    BY <2>1 DEF LinesIn, Halves
  <2>3. ~Whole({}) /\ ~(3 * (d + 1) - 1 <= m)
    BY <1>3 DEF Whole
  <2> QED
    BY <1>3, <2>1, <2>2, <2>3 DEF Newline
<1>4. CASE m # 3 * d
  <2>1. d + 1 \in DOMAIN body /\ 3 * d + 1 <= m
    BY <1>4, <1>0 DEF IsDone, Newline
  <2>2. [line |-> d + 1, part |-> 1] \in Bytes(d, m)
    BY <2>1, <1>2
  <2>3. LinesIn(Bytes(d, m), TRUE) = {d + 1}
    <3>1. \A x \in Bytes(d, m) : x.line <= d + 1
      BY <1>1
    <3>2. d + 1 \in LinesIn(Bytes(d, m), TRUE)
      BY <2>1, <2>2, <3>1 DEF LinesIn
    <3>3. \A i \in LinesIn(Bytes(d, m), TRUE) : i = d + 1
      BY <1>1 DEF LinesIn
    <3> QED
      BY <3>2, <3>3
  <2>4. Whole(Halves(Bytes(d, m), d + 1)) <=> 3 * d + 2 <= m
    <3>1. 1 \in Halves(Bytes(d, m), d + 1) /\ Halves(Bytes(d, m), d + 1) \subseteq {1, 2}
      BY <2>2, <1>1 DEF Halves, Newline
    <3>2. ASSUME 3 * d + 2 <= m PROVE 2 \in Halves(Bytes(d, m), d + 1)
      <4>1. [line |-> d + 1, part |-> 2] \in Bytes(d, m)
        BY <1>2, <3>2
      <4> QED
        BY <4>1 DEF Halves, Newline
    <3>3. ASSUME 2 \in Halves(Bytes(d, m), d + 1) PROVE 3 * d + 2 <= m
      <4>1. PICK b \in Bytes(d, m) : b.part = 2
        BY <3>3 DEF Halves
      <4> QED
        BY <4>1, <1>1
    <3> QED
      BY <3>1, <3>2, <3>3 DEF Whole
  <2>5. 3 * d + 2 <= m <=> 3 * (d + 1) - 1 <= m
    BY DEF IsDone
  <2> QED
    BY <1>4, <2>1, <2>2, <2>3, <2>4, <2>5 DEF Newline
<1> QED
  BY <1>3, <1>4

-----------------------------------------------------------------------------
(* The judgement of lines.                                                 *)

JudgementOf(lines) ==
    [visible |-> \E i \in lines : body[i].text # "none",
     truncated |-> \E i \in lines : body[i].length,
     tokens |-> LastReport(lines, NoReport)]

(* The lines up to one that parse.                                         *)
LinesTo(n) == {i \in 1..n : body[i].json}

LEMMA MaxOfLater ==
    ASSUME NEW n \in Nat, NEW early \in SUBSET (1..n), NEW late \in SUBSET (1..n), late # {},
           \A i \in early, j \in late : i < j
    PROVE  Max(early \cup late) = Max(late)
<1> DEFINE all == early \cup late
<1>1. /\ late \in SUBSET Nat /\ all \in SUBSET Nat /\ all # {}
      /\ \A x \in all : x <= n
      /\ \A x \in late : x <= n
  OBVIOUS
<1>2. Max(late) \in late /\ \A y \in late : y <= Max(late)
  BY <1>1, GreatestOf
<1>3. Max(all) \in all /\ \A y \in all : y <= Max(all)
  <2> HIDE DEF all
  <2> QED
    BY <1>1, GreatestOf
<1>4. Max(late) <= Max(all)
  BY <1>2, <1>3
<1>5. Max(all) \in late
  <2>1. ASSUME Max(all) \in early PROVE FALSE
    <3>1. Max(all) < Max(late)
      BY <2>1, <1>2
    <3>2. Max(all) \in Nat /\ Max(late) \in Nat
      BY <1>1, <1>2, <1>3
    <3> HIDE DEF all
    <3> QED
      BY <1>4, <3>1, <3>2
  <2> QED
    BY <1>3, <2>1
<1>6. Max(all) <= Max(late)
  BY <1>2, <1>5
<1>7. Max(all) \in Nat /\ Max(late) \in Nat
  BY <1>1, <1>2, <1>3
<1> HIDE DEF all
<1>8. Max(all) = Max(late)
  BY <1>4, <1>6, <1>7
<1> QED
  BY <1>8 DEF all

(* The last report of two parts of an answer is that of the later one, if  *)
(* it has any.                                                             *)
LEMMA LastReportGrows ==
    ASSUME NEW n \in Nat, NEW early \in SUBSET (1..n), NEW late \in SUBSET (1..n),
           \A i \in early, j \in late : i < j
    PROVE  LastReport(late, LastReport(early, NoReport)) = LastReport(early \cup late, NoReport)
<1> DEFINE first == {i \in early : body[i].tokens # NoReport}
           second == {i \in late : body[i].tokens # NoReport}
           all == {i \in early \cup late : body[i].tokens # NoReport}
<1>1. all = first \cup second
  OBVIOUS
<1>2. CASE second = {}
  BY <1>1, <1>2 DEF LastReport
<1>3. CASE second # {}
  <2>1. /\ first \in SUBSET (1..n) /\ second \in SUBSET (1..n)
        /\ \A i \in first, j \in second : i < j
    OBVIOUS
  <2>2. Max(first \cup second) = Max(second)
    <3> HIDE DEF first, second
    <3> QED
      BY <2>1, <1>3, MaxOfLater
  <2> QED
    BY <1>1, <1>3, <2>2 DEF LastReport
<1> QED
  BY <1>2, <1>3

(* Whatever was judged before, judging later lines judges them all.        *)
LEMMA JudgementGrows ==
    ASSUME NEW n \in Nat, NEW early \in SUBSET (1..n), NEW late \in SUBSET (1..n),
           \A i \in early, j \in late : i < j,
           seen = JudgementOf(early),
           NEW buffer, NEW lines,
           \A i : i \in late <=> i \in lines /\ Parses(body[i], Halves(buffer, i))
    PROVE  Judgement(buffer, lines) = JudgementOf(early \cup late)
<1>1. LastReport(late, LastReport(early, NoReport)) = LastReport(early \cup late, NoReport)
  BY LastReportGrows
<1>2. /\ (seen.visible \/ \E i \in late : body[i].text # "none")
           = \E i \in early \cup late : body[i].text # "none"
      /\ (seen.truncated \/ \E i \in late : body[i].length)
           = \E i \in early \cup late : body[i].length
      /\ seen.tokens = LastReport(early, NoReport)
  BY DEF JudgementOf
<1>3. late = {i \in lines : Parses(body[i], Halves(buffer, i))}
  OBVIOUS
<1> HIDE DEF LastReport
<1> QED
  BY <1>1, <1>2, <1>3 DEF Judgement, JudgementOf

-----------------------------------------------------------------------------
(* The invariant of a stream.                                              *)

StreamTypeOK ==
    /\ body \in Seq(Lines)
    /\ size \in Nat /\ size <= Newline * Len(body)
    /\ arrived \in Nat /\ arrived <= size

(* While the stream is read, its buffer is what follows the last newline,  *)
(* and the lines before it were judged and left whole.                     *)
SplitRight ==
    reader \in {"idle", "reading"} =>
        /\ verdict = Open
        /\ pending = Bytes(arrived \div Newline, arrived)
        /\ seen = JudgementOf(LinesTo(arrived \div Newline))
        /\ \A f \in forwarded : f.line <= arrived \div Newline /\ Whole(f.halves)

EndJudged ==
    verdict.by = "end" =>
        /\ verdict.success = Succeeds(JudgementOf(WholeLines))
        /\ verdict.tokens = LastReport(WholeLines, NoReport)

(* Only the last line of an answer that ended leaves without being whole.  *)
ForwardedRight ==
    \A f \in forwarded :
        /\ f.line \in DOMAIN body
        /\ f.stripped = Stripped(body[f.line], f.halves)
        /\ \/ Whole(f.halves)
           \/ verdict.by = "end" /\ \A g \in forwarded : g.line <= f.line

StreamInv == StreamTypeOK /\ SplitRight /\ EndJudged /\ ForwardedRight /\ CancelledIsNoSuccess

LEMMA StreamBegins ==
    ASSUME Begin
    PROVE  StreamInv'
<1>1. body' \in Seq(Lines) /\ Len(body') \in Nat
  BY DEF Begin, SeqOf
<1>2. StreamTypeOK'
  BY <1>1 DEF Begin, StreamTypeOK, Newline
<1>3. arrived' = 0 /\ arrived' \div Newline = 0
  BY DEF Begin, Newline
<1>4. Bytes(0, 0) = {} /\ LinesTo(0)' = {}
  BY DEF Bytes, LinesTo, Newline
<1>5. JudgementOf({})' = Unseen
  BY DEF JudgementOf, LastReport, Unseen
<1>6. SplitRight'
  BY <1>3, <1>4, <1>5 DEF Begin, SplitRight
<1>7. EndJudged' /\ ForwardedRight' /\ CancelledIsNoSuccess'
  BY DEF Begin, Open, EndJudged, ForwardedRight, CancelledIsNoSuccess
<1> QED
  BY <1>2, <1>6, <1>7 DEF StreamInv

LEMMA ChunkKeeps ==
    ASSUME StreamInv, NEW n \in Nat, n > 0, chunk(n)
    PROVE  StreamInv'
<1> DEFINE c == arrived \div Newline
           d == (arrived + n) \div Newline
           buffer == pending \cup {Byte(k) : k \in (arrived + 1)..(arrived + n)}
           lines == LinesIn(buffer, FALSE)
           late == {i \in lines : Parses(body[i], Halves(buffer, i))}
<1>0. /\ body \in Seq(Lines) /\ Len(body) \in Nat /\ DOMAIN body = 1..Len(body)
      /\ size \in Nat /\ size <= 3 * Len(body)
      /\ arrived \in Nat /\ arrived + n \in Nat /\ arrived + n <= size
      /\ reader = "reading" /\ verdict = Open
      /\ pending = Bytes(c, arrived) /\ seen = JudgementOf(LinesTo(c))
      /\ \A f \in forwarded : f.line <= c /\ Whole(f.halves)
  BY DEF StreamInv, StreamTypeOK, SplitRight, chunk, Newline
<1>1. /\ IsDone(c, arrived) /\ IsDone(d, arrived + n)
      /\ c \in Nat /\ d \in Nat
  BY <1>0, DoneIsQuotient DEF IsDone
<1> HIDE DEF c, d
<1>2. c <= d /\ d <= Len(body) /\ 3 * c <= arrived
  BY <1>0, <1>1 DEF IsDone
<1>3. buffer = Bytes(c, arrived + n)
  <2>1. (3 * c + 1)..(arrived + n) = ((3 * c + 1)..arrived) \cup ((arrived + 1)..(arrived + n))
    BY <1>0, <1>1, <1>2
  <2> QED
    BY <1>0, <2>1 DEF Bytes, Newline
<1>4. /\ lines = (c + 1)..d
      /\ \A i \in lines : Halves(buffer, i) = {1, 2}
      /\ Kept(buffer, lines) = Bytes(d, arrived + n)
  <2>1. arrived + n <= Newline * Len(body)
    BY <1>0 DEF Newline
  <2>2. /\ LinesIn(Bytes(c, arrived + n), FALSE) = (c + 1)..d
        /\ \A i \in (c + 1)..d : Halves(Bytes(c, arrived + n), i) = {1, 2}
        /\ {b \in Bytes(c, arrived + n) : b.line \notin (c + 1)..d} = Bytes(d, arrived + n)
    BY <1>0, <1>1, <1>2, <2>1, WholeLinesSplit
  <2> QED
    BY <1>3, <2>2, Zenon DEF Kept
<1>5. /\ seen' = Judgement(buffer, lines)
      /\ forwarded' = forwarded \cup Leaving(buffer, lines)
      /\ pending' = Kept(buffer, lines)
      /\ arrived' = arrived + n /\ reader' = "idle"
      /\ runtime' = runtime /\ body' = body /\ size' = size /\ verdict' = verdict
  BY DEF chunk, Filtered
<1> HIDE DEF buffer
<1>6. late = {i \in (c + 1)..d : body[i].json}
  BY <1>4 DEF Parses, Whole
<1>7. LinesTo(d) = LinesTo(c) \cup late
  <2>1. 1..d = (1..c) \cup ((c + 1)..d)
    BY <1>1, <1>2
  <2> QED
    BY <1>6, <2>1 DEF LinesTo
<1>8. seen' = JudgementOf(LinesTo(d))
  <2>1. /\ LinesTo(c) \in SUBSET (1..d) /\ late \in SUBSET (1..d)
        /\ \A i \in LinesTo(c), j \in late : i < j
    <3>1. /\ \A i \in 1..c : i \in 1..d
          /\ \A j \in (c + 1)..d : j \in 1..d
          /\ \A i \in 1..c, j \in (c + 1)..d : i < j
      BY <1>1, <1>2
    <3>2. LinesTo(c) \subseteq 1..c /\ late \subseteq (c + 1)..d
      BY <1>6 DEF LinesTo
    <3> HIDE DEF late
    <3> QED
      BY <3>1, <3>2
  <2>2. \A i : i \in late <=> i \in lines /\ Parses(body[i], Halves(buffer, i))
    OBVIOUS
  <2> HIDE DEF late, lines
  <2>3. Judgement(buffer, lines) = JudgementOf(LinesTo(c) \cup late)
    BY <1>0, <1>1, <2>1, <2>2, JudgementGrows
  <2> QED
    BY <1>5, <1>7, <2>3
<1> HIDE DEF lines, late
<1>9. \A f \in forwarded' :
         /\ f.line <= d /\ Whole(f.halves)
         /\ f.line \in DOMAIN body /\ f.stripped = Stripped(body[f.line], f.halves)
  <2>1. \A f \in forwarded : f.line \in DOMAIN body /\ f.stripped = Stripped(body[f.line], f.halves)
    BY DEF StreamInv, ForwardedRight
  <2>2. \A f \in forwarded : f.line <= d
    BY <1>0, <1>1, <1>2, <2>1
  <2>3. \A f \in Leaving(buffer, lines) :
           /\ f.line \in lines /\ f.halves = Halves(buffer, f.line)
           /\ f.stripped = Stripped(body[f.line], f.halves)
    BY DEF Leaving
  <2>4. \A i \in lines : i <= d /\ i \in DOMAIN body /\ Whole(Halves(buffer, i))
    BY <1>0, <1>1, <1>2, <1>4 DEF Whole
  <2> QED
    BY <1>0, <1>5, <2>1, <2>2, <2>3, <2>4
<1>10. StreamTypeOK'
  BY <1>0, <1>5 DEF StreamTypeOK, Newline
<1>11. SplitRight'
  <2>1. arrived' \div Newline = d
    BY <1>5 DEF d
  <2>2. JudgementOf(LinesTo(arrived \div Newline))' = JudgementOf(LinesTo(arrived' \div Newline))
    BY <1>5 DEF JudgementOf, LinesTo, LastReport
  <2> QED
    BY <1>0, <1>4, <1>5, <1>8, <1>9, <2>1, <2>2 DEF SplitRight
<1>12. EndJudged' /\ CancelledIsNoSuccess'
  BY <1>0, <1>5 DEF EndJudged, CancelledIsNoSuccess, Open
<1>13. ForwardedRight'
  BY <1>5, <1>9 DEF ForwardedRight, Stripped, Parses
<1> QED
  BY <1>10, <1>11, <1>12, <1>13 DEF StreamInv

LEMMA EndsKeeps ==
    ASSUME StreamInv, ends
    PROVE  StreamInv'
<1> DEFINE d == size \div Newline
           lines == LinesIn(pending, TRUE)
           late == {i \in lines : Parses(body[i], Halves(pending, i))}
<1>0. /\ body \in Seq(Lines) /\ Len(body) \in Nat /\ DOMAIN body = 1..Len(body)
      /\ size \in Nat /\ size <= 3 * Len(body) /\ arrived = size
      /\ reader = "reading" /\ verdict = Open
      /\ pending = Bytes(d, size) /\ seen = JudgementOf(LinesTo(d))
      /\ \A f \in forwarded : f.line <= d /\ Whole(f.halves)
  BY DEF StreamInv, StreamTypeOK, SplitRight, ends, Newline
<1>1. /\ seen' = Judgement(pending, lines)
      /\ forwarded' = forwarded \cup Leaving(pending, lines)
      /\ verdict' = [by |-> "end", success |-> Succeeds(seen'), tokens |-> seen'.tokens]
      /\ reader' = "closed"
      /\ runtime' = runtime /\ body' = body /\ size' = size /\ arrived' = arrived
  BY DEF ends, Filtered, Settle
<1>2. IsDone(d, size) /\ d \in Nat
  BY <1>0, DoneIsQuotient DEF IsDone
<1> HIDE DEF d
<1>3. /\ lines \subseteq {d + 1} /\ lines \subseteq DOMAIN body
      /\ d + 1 \in DOMAIN body /\ 3 * (d + 1) - 1 <= size => d + 1 \in lines
      /\ Whole(Halves(pending, d + 1)) <=> 3 * (d + 1) - 1 <= size
  <2>1. size <= Newline * Len(body)
    BY <1>0 DEF Newline
  <2>2. /\ size = Newline * d => LinesIn(Bytes(d, size), TRUE) = {}
        /\ size # Newline * d =>
              d + 1 \in DOMAIN body /\ LinesIn(Bytes(d, size), TRUE) = {d + 1}
        /\ Whole(Halves(Bytes(d, size), d + 1)) <=> Newline * (d + 1) - 1 <= size
    BY <1>0, <1>2, <2>1, TailSplit
  <2>3. 3 * (d + 1) - 1 <= size => size # 3 * d
    BY <1>0, <1>2
  <2> HIDE DEF lines
  <2>4. lines = LinesIn(Bytes(d, size), TRUE)
    BY <1>0 DEF lines
  <2> QED
    BY <1>0, <2>2, <2>3, <2>4 DEF Newline
<1> HIDE DEF lines
<1>4. late = {i \in {d + 1} \cap DOMAIN body : body[i].json /\ 3 * i - 1 <= size}
  BY <1>3 DEF Parses
<1>5. WholeLines = LinesTo(d) \cup late
  <2>1. \A i \in 1..Len(body) : 3 * i - 1 <= size <=> (i \in 1..d \/ (i = d + 1 /\ 3 * i - 1 <= size))
    BY <1>0, <1>2 DEF IsDone
  <2>2. 1..d \subseteq 1..Len(body)
    BY <1>0, <1>2 DEF IsDone
  <2> HIDE DEF late
  <2> QED
    BY <1>0, <1>4, <2>1, <2>2 DEF WholeLines, LinesTo, Newline
<1>6. Judgement(pending, lines) = JudgementOf(WholeLines)
  <2> DEFINE n == d + 1
  <2>1. /\ n \in Nat /\ LinesTo(d) \in SUBSET (1..n) /\ late \in SUBSET (1..n)
        /\ \A i \in LinesTo(d), j \in late : i < j
    BY <1>2, <1>4 DEF LinesTo
  <2>2. \A i : i \in late <=> i \in lines /\ Parses(body[i], Halves(pending, i))
    OBVIOUS
  <2> DEFINE early == LinesTo(d)
  <2>3. seen = JudgementOf(early)
    BY <1>0
  <2>4. Judgement(pending, lines) = JudgementOf(early \cup late)
    <3>1. /\ n \in Nat /\ early \in SUBSET (1..n) /\ late \in SUBSET (1..n)
          /\ \A i \in early, j \in late : i < j
      BY <2>1
    <3> HIDE DEF late, n, early
    <3> QED
      BY <2>2, <2>3, <3>1, JudgementGrows
  <2> QED
    BY <1>5, <2>4
<1>7. StreamTypeOK' /\ SplitRight' /\ CancelledIsNoSuccess'
  BY <1>0, <1>1 DEF StreamInv, StreamTypeOK, SplitRight, CancelledIsNoSuccess, Newline
<1>8. EndJudged'
  <2>1. JudgementOf(WholeLines)' = JudgementOf(WholeLines)
    BY <1>1 DEF JudgementOf, WholeLines, LastReport
  <2>2. LastReport(WholeLines, NoReport)' = LastReport(WholeLines, NoReport)
    BY <1>1 DEF WholeLines, LastReport
  <2>3. JudgementOf(WholeLines).tokens = LastReport(WholeLines, NoReport)
    BY DEF JudgementOf
  <2>4. seen' = JudgementOf(WholeLines)
    BY <1>1, <1>6
  <2>5. verdict'.success = Succeeds(JudgementOf(WholeLines)) /\ verdict'.tokens = LastReport(WholeLines, NoReport)
    BY <1>1, <2>3, <2>4
  <2>6. Succeeds(JudgementOf(WholeLines))' = Succeeds(JudgementOf(WholeLines))
    BY <2>1 DEF Succeeds
  <2> QED
    BY <2>2, <2>5, <2>6, Zenon DEF EndJudged
<1>9. ForwardedRight'
  <2>1. \A f \in forwarded : f.line \in DOMAIN body /\ f.stripped = Stripped(body[f.line], f.halves)
    BY DEF StreamInv, ForwardedRight
  <2>2. \A f \in Leaving(pending, lines) :
           f.line = d + 1 /\ f.line \in DOMAIN body /\ f.stripped = Stripped(body[f.line], f.halves)
    BY <1>3 DEF Leaving
  <2>3. \A f \in forwarded' : f.line <= d + 1
    BY <1>0, <1>1, <1>2, <2>1, <2>2
  <2>4. \A f \in forwarded' : f.line \in DOMAIN body /\ f.stripped = Stripped(body[f.line], f.halves)
    BY <1>1, <2>1, <2>2
  <2>5. \A f \in forwarded' : Whole(f.halves) \/ \A g \in forwarded' : g.line <= f.line
    BY <1>0, <1>1, <2>2, <2>3
  <2>6. verdict'.by = "end"
    BY <1>1
  <2> QED
    BY <1>1, <2>4, <2>5, <2>6 DEF ForwardedRight, Stripped, Parses
<1> QED
  BY <1>7, <1>8, <1>9 DEF StreamInv

LEMMA StopsKeeps ==
    ASSUME StreamInv, NEW by \in {"error", "cancel", "deadline"}, reader \in {"idle", "reading"},
           Stops(by, FALSE)
    PROVE  StreamInv'
<1>1. /\ verdict'.by = by /\ verdict'.success = FALSE /\ reader' = "closed"
      /\ UNCHANGED <<runtime, body, size, arrived, pending, seen, forwarded>>
  BY DEF Stops, Settle
<1>2. StreamTypeOK' /\ SplitRight' /\ EndJudged' /\ CancelledIsNoSuccess'
  BY <1>1 DEF StreamInv, StreamTypeOK, SplitRight, EndJudged, CancelledIsNoSuccess
<1>3. ForwardedRight'
  BY <1>1 DEF StreamInv, SplitRight, ForwardedRight, Stripped, Parses, Whole
<1> QED
  BY <1>2, <1>3 DEF StreamInv

LEMMA CancelReadingKeeps ==
    ASSUME StreamInv, cancelReading
    PROVE  StreamInv'
<1>1. /\ reader = "reading" /\ reader' = "closed" /\ verdict'.by = "cancel"
      /\ UNCHANGED <<runtime, body, size, arrived, pending, forwarded>>
      /\ verdict'.success => /\ runtime = "worker" /\ pending = {} /\ Succeeds(seen')
  <2>1. CASE runtime = "worker"
    <3>1. PullSettles
      BY <2>1 DEF cancelReading, CancelSettles
    <3> QED
      BY <2>1, <3>1 DEF cancelReading, PullSettles, Settle
  <2>2. CASE runtime # "worker"
    BY <2>2 DEF cancelReading, CancelSettles, Settle
  <2> QED
    BY <2>1, <2>2
<1>2. pending = {} => arrived % Newline = 0
  <2> SUFFICES ASSUME pending = {} PROVE arrived % Newline = 0
    OBVIOUS
  <2> DEFINE d == arrived \div Newline
  <2>1. /\ arrived \in Nat /\ body \in Seq(Lines) /\ arrived <= Newline * Len(body)
        /\ Bytes(d, arrived) = {}
    BY <1>1 DEF StreamInv, StreamTypeOK, SplitRight, Newline
  <2>2. IsDone(d, arrived) /\ d \in Nat
    BY <2>1, DoneIsQuotient DEF IsDone
  <2> HIDE DEF d
  <2>3. arrived = Newline * d
    BY <2>1, <2>2, TailSplit
  <2> QED
    BY <2>2, <2>3 DEF Newline
<1>3. CancelledIsNoSuccess'
  BY <1>1, <1>2 DEF CancelledIsNoSuccess, Succeeds
<1>4. StreamTypeOK' /\ SplitRight' /\ EndJudged'
  BY <1>1 DEF StreamInv, StreamTypeOK, SplitRight, EndJudged
<1>5. ForwardedRight'
  BY <1>1 DEF StreamInv, SplitRight, ForwardedRight, Stripped, Parses, Whole
<1> QED
  BY <1>3, <1>4, <1>5 DEF StreamInv

LEMMA StreamUnchanged ==
    ASSUME StreamInv,
           UNCHANGED <<runtime, body, size, arrived, pending, seen, forwarded, verdict>>,
           reader' = reader \/ (reader = "idle" /\ reader' = "reading")
    PROVE  StreamInv'
<1>1. StreamTypeOK' /\ CancelledIsNoSuccess'
  BY DEF StreamInv, StreamTypeOK, CancelledIsNoSuccess
<1>2. SplitRight'
  BY DEF StreamInv, SplitRight, JudgementOf, LinesTo, LastReport
<1>3. EndJudged'
  BY DEF StreamInv, EndJudged, Succeeds, JudgementOf, WholeLines, LastReport
<1>4. ForwardedRight'
  BY DEF StreamInv, ForwardedRight, Stripped, Parses, Whole
<1> QED
  BY <1>1, <1>2, <1>3, <1>4 DEF StreamInv

LEMMA StreamStep ==
    ASSUME StreamInv, [PathNext]_path
    PROVE  StreamInv'
<1>1. CASE UNCHANGED stream
  BY <1>1, StreamUnchanged DEF stream
<1>2. CASE Begin
  BY <1>2, StreamBegins
<1>3. CASE Answer
  <2>1. CASE pull
    BY <2>1, StreamUnchanged DEF pull
  <2>2. CASE \E n \in 1..(Newline * MaxLines) : chunk(n)
    <3>1. PICK n \in 1..(Newline * MaxLines) : chunk(n)
      BY <2>2
    <3>2. n \in Nat /\ n > 0
      BY <3>1, LinesAssumption DEF Newline
    <3> QED
      BY <3>1, <3>2, ChunkKeeps
  <2>3. CASE ends
    BY <2>3, EndsKeeps
  <2>4. CASE breaks \/ cancelIdle \/ streamDeadline
    BY <2>4, StopsKeeps DEF breaks, cancelIdle, streamDeadline
  <2>5. CASE cancelReading
    BY <2>5, CancelReadingKeeps
  <2> QED
    BY <1>3, <2>1, <2>2, <2>3, <2>4, <2>5 DEF Answer
<1> QED
  BY <1>1, <1>2, <1>3
  DEF PathNext, path, createWorkflow, callInWorkflow, callOutside, gate, inspect, decide, answer

LEMMA StreamInvariant == PathSpec => []StreamInv
<1>1. PathInit => StreamInv
  <2> SUFFICES ASSUME NoStream PROVE StreamInv
    BY DEF PathInit
  <2>1. StreamTypeOK /\ SplitRight /\ EndJudged /\ ForwardedRight /\ CancelledIsNoSuccess
    BY DEF NoStream, Open, StreamTypeOK, SplitRight, EndJudged, ForwardedRight,
           CancelledIsNoSuccess, Newline
  <2> QED
    BY <2>1 DEF StreamInv
<1>2. StreamInv /\ [PathNext]_path => StreamInv'
  BY StreamStep
<1> QED
  BY <1>1, <1>2, PTL DEF PathSpec

(* The verdict on a streamed answer and what is charged for it are those   *)
(* of the same answer in one piece, but for blank text, wherever its       *)
(* chunks end.                                                             *)
THEOREM StreamsAreJudgedAsWhole == PathSpec => []StreamJudgedAsWhole
<1>1. StreamInv => StreamJudgedAsWhole
  <2> SUFFICES ASSUME StreamTypeOK, EndJudged, verdict.by = "end"
               PROVE  StreamJudgedAsWhole
    BY DEF StreamInv, StreamJudgedAsWhole
  <2>1. /\ verdict.success = Succeeds(JudgementOf(WholeLines))
        /\ verdict.tokens = LastReport(WholeLines, NoReport)
    BY DEF EndJudged
  <2>2. \A i \in WholeLines : body[i].text \in {"text", "blank", "none"}
    BY LinesAssumption DEF StreamTypeOK, WholeLines
  <2>3. verdict.tokens = IF Reports = {} THEN NoReport ELSE body[Max(Reports)].tokens
    BY <2>1 DEF LastReport, Reports
  <2> DEFINE texts == {body[i].text : i \in WholeLines}
             short == \E i \in WholeLines : body[i].length
             whole == validateChatCompletion(1, texts, short)
  <2>4. verdict.success <=> (\E i \in WholeLines : body[i].text # "none") /\ ~short
    BY <2>1 DEF Succeeds, JudgementOf
  <2>5. (\E i \in WholeLines : body[i].text # "none") <=> ("text" \in texts \/ "blank" \in texts)
    BY <2>2
  <2>6. /\ whole = "valid" <=> "text" \in texts /\ ~short
        /\ whole = "empty_output" <=> "text" \notin texts
    BY DEF validateChatCompletion, hasVisibleOutput
  <2>7. verdict.success <=> (whole = "valid"
                               \/ (whole = "empty_output" /\ "blank" \in texts /\ ~short))
    <3> HIDE DEF texts, short, whole
    <3> QED
      BY <2>4, <2>5, <2>6
  <2> QED
    BY <2>3, <2>7 DEF StreamJudgedAsWhole
<1> QED
  BY <1>1, StreamInvariant, PTL

(* No reasoning leaves but in the half line of an answer that ended in its *)
(* middle, or in Node in a line with a choice that is no object.           *)
THEOREM ReasoningStays == PathSpec => []NoReasoningForwarded
<1>1. StreamInv => NoReasoningForwarded
  <2> SUFFICES ASSUME ForwardedRight, NEW f \in forwarded,
                      body[f.line].reasoning, body[f.line].json, ~f.stripped
               PROVE  \/ /\ ~Whole(f.halves)
                         /\ verdict.by = "end" /\ \A g \in forwarded : g.line <= f.line
                      \/ runtime = "node" /\ body[f.line].odd
    BY DEF StreamInv, NoReasoningForwarded
  <2>1. CASE Whole(f.halves)
    BY <2>1 DEF ForwardedRight, Stripped, Parses
  <2>2. CASE ~Whole(f.halves)
    BY <2>2 DEF ForwardedRight
  <2> QED
    BY <2>1, <2>2
<1> QED
  BY <1>1, StreamInvariant, PTL

(* An answer the client gave up on counts as a success only in the Worker, *)
(* and only if nothing was missing of the lines that had come.             *)
THEOREM CancellationsFail == PathSpec => []CancelledIsNoSuccess
<1>1. StreamInv => CancelledIsNoSuccess
  BY DEF StreamInv
<1> QED
  BY <1>1, StreamInvariant, PTL

-----------------------------------------------------------------------------
(* The specification of a workflow.                                        *)

IsFraction(f) == f[1] \in Nat /\ f[2] \in Nat /\ f[2] > 0

LEMMA ProductOfNaturals ==
    ASSUME NEW a \in Nat, NEW b \in Nat
    PROVE  a * b \in Nat /\ (a > 0 /\ b > 0 => a * b > 0)
OBVIOUS

LEMMA CallsMeanIsFraction ==
    ASSUME NEW caller \in Rows, NEW global \in Rows
    PROVE  IsFraction(callsMean(caller, global))
<1>1. \A row \in Rows : IsFraction(RowMean(row))
  BY DEF Rows, RowMean, IsFraction
<1> DEFINE prior == RowMean(global)
<1>2. prior[1] \in Nat /\ prior[2] \in Nat /\ prior[2] > 0
  BY <1>1 DEF IsFraction
<1>3. CASE caller.observations = 0
  BY <1>1, <1>3 DEF callsMean
<1>4. CASE caller.observations # 0
  <2> HIDE DEF prior
  <2>1. caller.calls \in Nat /\ caller.observations \in Nat
    BY DEF Rows
  <2>2. caller.calls * prior[2] \in Nat /\ Shrinkage * prior[1] \in Nat
    BY <1>2, <2>1, ProductOfNaturals DEF Shrinkage
  <2>3. caller.observations + Shrinkage \in Nat /\ caller.observations + Shrinkage > 0
    BY <2>1 DEF Shrinkage
  <2>4. /\ prior[2] * (caller.observations + Shrinkage) \in Nat
        /\ prior[2] * (caller.observations + Shrinkage) > 0
    BY <1>2, <2>3, ProductOfNaturals
  <2>5. callsMean(caller, global)
          = <<caller.calls * prior[2] + Shrinkage * prior[1],
              prior[2] * (caller.observations + Shrinkage)>>
    BY <1>4 DEF callsMean, prior
  <2> QED
    BY <2>2, <2>4, <2>5 DEF IsFraction
<1> QED
  BY <1>3, <1>4

(* The variance is no less than the mean, so it is not negative.           *)
LEMMA VarianceIsFraction ==
    ASSUME NEW caller \in Rows, NEW global \in Rows
    PROVE  IsFraction(callsVariance(caller, global))
<1> DEFINE f == callsMean(caller, global)
           row == IF caller.observations > 0 THEN caller ELSE global
           g == variance(row)
<1>1. f[1] \in Nat /\ f[2] \in Nat /\ f[2] > 0
  BY CallsMeanIsFraction DEF IsFraction
<1>2. g[1] \in Int /\ g[2] \in Nat /\ g[2] > 0
  <2>1. row \in Rows
    OBVIOUS
  <2> HIDE DEF row
  <2>2. row.observations \in Nat /\ row.calls \in Nat /\ row.squares \in Nat
    BY <2>1 DEF Rows
  <2>3. CASE row.observations < 2
    BY <2>2, <2>3 DEF variance, RowMean
  <2>4. CASE ~(row.observations < 2)
    <3>1. row.observations - 1 \in Nat /\ row.observations - 1 > 0 /\ row.observations > 0
      BY <2>2, <2>4
    <3>2. /\ row.observations * (row.observations - 1) \in Nat
          /\ row.observations * (row.observations - 1) > 0
      BY <2>2, <3>1, ProductOfNaturals
    <3>3. row.observations * row.squares \in Nat /\ row.calls * row.calls \in Nat
      BY <2>2, ProductOfNaturals
    <3>4. g = <<row.observations * row.squares - row.calls * row.calls,
                row.observations * (row.observations - 1)>>
      BY <2>4 DEF variance
    <3> QED
      BY <3>2, <3>3, <3>4
  <2> QED
    BY <2>3, <2>4
<1>3. callsVariance(caller, global) = IF f[1] * g[2] < g[1] * f[2] THEN g ELSE f
  BY DEF callsVariance, Larger
<1> HIDE DEF f, g
<1>4. CASE f[1] * g[2] < g[1] * f[2]
  <2>1. f[1] * g[2] \in Nat
    BY <1>1, <1>2, ProductOfNaturals
  <2>2. ASSUME g[1] \notin Nat PROVE FALSE
    <3>1. -g[1] \in Nat
      BY <1>2, <2>2
    <3>2. (-g[1]) * f[2] \in Nat
      BY <1>1, <3>1, ProductOfNaturals
    <3>3. (-g[1]) * f[2] = -(g[1] * f[2]) /\ g[1] * f[2] \in Int
      BY <1>1, <1>2
    <3> QED
      BY <1>4, <2>1, <3>2, <3>3
  <2> QED
    BY <1>2, <1>3, <1>4, <2>2 DEF IsFraction
<1>5. CASE ~(f[1] * g[2] < g[1] * f[2])
  BY <1>1, <1>3, <1>5 DEF IsFraction
<1> QED
  BY <1>4, <1>5

LEMMA ProductGrows ==
    ASSUME NEW a \in Nat, NEW b \in Nat, NEW c \in Nat, a <= b
    PROVE  a * c <= b * c /\ c * a <= c * b
OBVIOUS

(* The bound is one that every quantile keeps.                             *)
LEMMA BeyondCovers ==
    ASSUME NEW mean, NEW var, IsFraction(mean), IsFraction(var)
    PROVE  Beyond(mean, var) \in Nat /\ 1 <= Beyond(mean, var)
           /\ Covers(mean, var, 20, Beyond(mean, var))
<1> DEFINE m1 == mean[1]  m2 == mean[2]  v1 == var[1]  v2 == var[2]
           r == v1 + 1
           n == m1 + 2 * r
           above == n * m2 - m1
           q == r * m2
<1>1. m1 \in Nat /\ m2 \in Nat /\ m2 > 0 /\ v1 \in Nat /\ v2 \in Nat /\ v2 > 0
  BY DEF IsFraction
<1>2. Beyond(mean, var) = n
  BY <1>1 DEF Beyond
<1>3. Covers(mean, var, 20, n)
        <=> above >= 0 /\ above * above * (100 * v2) >= 20 * 20 * (v1 * m2 * m2)
  BY DEF Covers
<1> HIDE DEF m1, m2, v1, v2
<1>4. r \in Nat /\ n \in Nat /\ 1 <= n /\ v1 <= r /\ 1 <= r
  BY <1>1
<1>5. q \in Nat
  BY <1>1, <1>4, ProductOfNaturals
<1>6. above \in Nat /\ 2 * q <= above
  <2> HIDE DEF r
  <2>1. m1 * m2 \in Nat /\ m1 <= m1 * m2
    <3>1. 1 <= m2 /\ 1 \in Nat
      BY <1>1
    <3>2. m1 * 1 <= m1 * m2 /\ m1 * m2 \in Nat
      BY <1>1, <3>1, ProductGrows, ProductOfNaturals
    <3> QED
      BY <1>1, <3>2
  <2>2. (m1 + 2 * r) * m2 = m1 * m2 + 2 * (r * m2)
    BY <1>1, <1>4
  <2> DEFINE p == m1 * m2
  <2> HIDE DEF p, q
  <2>3. p \in Nat /\ m1 <= p
    BY <2>1 DEF p
  <2>4. n * m2 = p + 2 * q
    BY <2>2 DEF p, q
  <2> DEFINE y == n * m2
  <2> HIDE DEF n
  <2>5. above = y - m1
    OBVIOUS
  <2> HIDE DEF above
  <2>6. y = p + 2 * q
    BY <2>4
  <2> HIDE DEF y
  <2> QED
    BY <1>1, <1>5, <2>3, <2>5, <2>6
<1> HIDE DEF above, n
<1>7. 4 * (q * q) <= above * above /\ above * above \in Nat /\ q * q \in Nat
  <2>1. 2 * q \in Nat
    BY <1>5
  <2>2. (2 * q) * (2 * q) <= (2 * q) * above
    BY <1>6, <2>1, ProductGrows
  <2>3. (2 * q) * above <= above * above
    BY <1>6, <2>1, ProductGrows
  <2>4. (2 * q) * (2 * q) = 4 * (q * q)
    BY <1>5
  <2>5. above * above \in Nat /\ q * q \in Nat /\ (2 * q) * above \in Nat
    BY <1>5, <1>6, <2>1, ProductOfNaturals
  <2> DEFINE x == q * q  y == above * above  z == (2 * q) * above
  <2> HIDE DEF x, y, z
  <2>6. 4 * x <= z /\ z <= y /\ x \in Nat /\ y \in Nat /\ z \in Nat
    BY <2>2, <2>3, <2>4, <2>5 DEF x, y, z
  <2>7. 4 * x <= y
    BY <2>6
  <2> QED
    BY <2>5, <2>7 DEF x, y
<1>8. v1 * m2 * m2 <= q * q /\ v1 * m2 * m2 \in Nat
  <2> HIDE DEF r
  <2>1. v1 * m2 \in Nat /\ v1 * m2 <= q
    BY <1>1, <1>4, ProductGrows, ProductOfNaturals
  <2>2. m2 <= q
    <3>1. 1 * m2 <= r * m2
      <4>1. 1 \in Nat
        OBVIOUS
      <4> QED
        BY <1>1, <1>4, <4>1, ProductGrows
    <3> QED
      BY <1>1, <3>1
  <2> DEFINE w == v1 * m2
  <2> HIDE DEF q, w
  <2>3. w \in Nat /\ w <= q
    BY <2>1 DEF w
  <2>4. w * m2 <= q * m2 /\ w * m2 \in Nat
    BY <1>1, <1>5, <2>3, ProductGrows, ProductOfNaturals
  <2>5. q * m2 <= q * q /\ q * m2 \in Nat
    BY <1>1, <1>5, <2>2, ProductGrows, ProductOfNaturals
  <2> DEFINE x == w * m2  y == q * m2  z == q * q
  <2> HIDE DEF x, y, z
  <2>6. x <= y /\ y <= z /\ x \in Nat /\ y \in Nat /\ z \in Nat
    BY <1>7, <2>4, <2>5 DEF x, y, z
  <2>7. x <= z /\ x \in Nat
    BY <2>6
  <2> QED
    BY <2>7 DEF w, x, z
<1> DEFINE s == above * above  x == q * q  e == v1 * m2 * m2
<1> HIDE DEF s, x, e, q
<1>9. s \in Nat /\ x \in Nat /\ e \in Nat /\ 4 * x <= s /\ e <= x
  BY <1>7, <1>8 DEF s, x, e
<1>10. s <= s * v2 /\ s * v2 \in Nat
  <2>1. 1 <= v2 /\ 1 \in Nat
    BY <1>1
  <2>2. s * 1 <= s * v2 /\ s * v2 \in Nat
    BY <1>1, <1>9, <2>1, ProductGrows, ProductOfNaturals
  <2> QED
    BY <1>9, <2>2
<1>11. s * (100 * v2) = 100 * (s * v2)
  BY <1>1, <1>9
<1>12. s * (100 * v2) >= 20 * 20 * e
  <2> DEFINE t == s * v2
  <2> HIDE DEF t
  <2>1. t \in Nat /\ s <= t /\ s * (100 * v2) = 100 * t
    BY <1>10, <1>11 DEF t
  <2>2. 100 * t >= 20 * 20 * e
    BY <1>9, <2>1
  <2> QED
    BY <2>1, <2>2
<1> QED
  BY <1>2, <1>3, <1>4, <1>6, <1>12 DEF s, e

LEMMA QuantileIsLeast ==
    ASSUME NEW mean, NEW var, NEW tenths, NEW bound \in Nat, bound = Beyond(mean, var),
           NEW n \in 1..bound, Covers(mean, var, tenths, n)
    PROVE  /\ Quantile(mean, var, tenths) \in 1..bound
           /\ Quantile(mean, var, tenths) <= n
           /\ Covers(mean, var, tenths, Quantile(mean, var, tenths))
<1> DEFINE S == {m \in 1..bound : Covers(mean, var, tenths, m)}
<1>1. S \in SUBSET Nat /\ S # {}
  OBVIOUS
<1>2. PICK least \in S : \A m \in S : least <= m
  BY <1>1, LeastOf
<1>3. Covers(mean, var, tenths, least) /\ \A m \in 1..(least - 1) : ~Covers(mean, var, tenths, m)
  <2>1. ASSUME NEW m \in 1..(least - 1) PROVE m \notin S
    BY <1>2
  <2>2. \A m \in 1..(least - 1) : m \in 1..bound
    BY <1>2
  <2> QED
    BY <1>2, <2>1, <2>2
<1> DEFINE q == Quantile(mean, var, tenths)
<1>4. /\ q \in 1..bound
      /\ Covers(mean, var, tenths, q) /\ \A m \in 1..(q - 1) : ~Covers(mean, var, tenths, m)
  BY <1>2, <1>3 DEF Quantile
<1> HIDE DEF q
<1>5. q <= n
  BY <1>4
<1> QED
  BY <1>4, <1>5 DEF q

(* A higher quantile is no smaller.                                        *)
LEMMA CoversLess ==
    ASSUME NEW mean, NEW var, NEW n \in Nat, IsFraction(mean), IsFraction(var),
           Covers(mean, var, 20, n)
    PROVE  Covers(mean, var, 13, n)
<1> DEFINE x == var[1] * mean[2] * mean[2]
           y == (n * mean[2] - mean[1]) * (n * mean[2] - mean[1]) * (100 * var[2])
<1>1. x \in Nat
  BY ProductOfNaturals DEF IsFraction
<1>2. y \in Int
  <2>1. n * mean[2] - mean[1] \in Int
    BY DEF IsFraction
  <2>2. 100 * var[2] \in Int
    BY DEF IsFraction
  <2> DEFINE z == n * mean[2] - mean[1]  w == 100 * var[2]
  <2> HIDE DEF z, w
  <2>3. z \in Int /\ w \in Int
    BY <2>1, <2>2 DEF z, w
  <2>4. z * z * w \in Int
    BY <2>3
  <2> QED
    BY <2>4 DEF z, w
<1>3. n * mean[2] - mean[1] >= 0 /\ y >= 20 * 20 * x
  BY DEF Covers
<1> HIDE DEF x, y
<1>4. y >= 13 * 13 * x
  BY <1>1, <1>2, <1>3
<1> QED
  BY <1>3, <1>4 DEF Covers, x, y

LEMMA ForecastIsOrdered ==
    ASSUME NEW h \in Histories
    PROVE  LET forecast == workflowForecast(h.caller, h.global)
           IN  /\ forecast.expectedCalls \in Nat /\ forecast.maxCalls \in Nat
               /\ 1 <= forecast.expectedCalls /\ forecast.expectedCalls <= forecast.maxCalls
               /\ forecast.observations \in Nat
<1> DEFINE mean == callsMean(h.caller, h.global)  var == callsVariance(h.caller, h.global)
           bound == Beyond(mean, var)
<1>1. h.caller \in Rows /\ h.global \in Rows
  BY WorkflowsAssumption
<1>2. IsFraction(mean) /\ IsFraction(var)
  BY <1>1, CallsMeanIsFraction, VarianceIsFraction
<1>3. bound \in Nat /\ bound \in 1..bound /\ Covers(mean, var, 20, bound)
  <2> HIDE DEF mean, var
  <2>1. bound \in Nat /\ 1 <= bound /\ Covers(mean, var, 20, bound)
    BY <1>2, BeyondCovers
  <2> HIDE DEF bound
  <2> QED
    BY <2>1
<1> HIDE DEF mean, var
<1>4. Quantile(mean, var, 20) \in 1..bound /\ Covers(mean, var, 20, Quantile(mean, var, 20))
  BY <1>3, QuantileIsLeast
<1>5. Covers(mean, var, 13, Quantile(mean, var, 20))
  <2>1. Quantile(mean, var, 20) \in Nat
    BY <1>3, <1>4
  <2> QED
    BY <1>2, <1>4, <2>1, CoversLess
<1>6. /\ Quantile(mean, var, 13) \in 1..bound
      /\ Quantile(mean, var, 13) <= Quantile(mean, var, 20)
  BY <1>3, <1>4, <1>5, QuantileIsLeast
<1>7. workflowForecast(h.caller, h.global)
        = [observations |-> IF h.caller.observations < h.global.observations
                            THEN h.global.observations ELSE h.caller.observations,
           expectedCalls |-> Quantile(mean, var, 13), maxCalls |-> Quantile(mean, var, 20)]
  BY DEF workflowForecast, mean, var
<1>8. h.caller.observations \in Nat /\ h.global.observations \in Nat
  BY <1>1 DEF Rows
<1> HIDE DEF bound
<1>9. Quantile(mean, var, 13) \in Nat /\ Quantile(mean, var, 20) \in Nat /\ 1 <= Quantile(mean, var, 13)
  BY <1>3, <1>4, <1>6
<1> HIDE DEF Quantile
<1> QED
  BY <1>6, <1>7, <1>8, <1>9

(* What createWorkflow leaves.                                             *)
Specified ==
    phase = "specified" =>
        \E posted \in Bodies, history \in Histories :
            LET forecast == workflowForecast(history.caller, history.global)
            IN  work = [posted |-> posted, forecast |-> forecast,
                        spec |-> parseWorkflowSpec(posted, Defaults(forecast))]

LEMMA SpecifiedStep ==
    ASSUME Specified, [PathNext]_path
    PROVE  Specified'
<1>1. CASE createWorkflow
  BY <1>1 DEF createWorkflow, Specified
<1>2. CASE UNCHANGED <<phase, work>>
  BY <1>2 DEF Specified
<1>3. CASE callInWorkflow \/ callOutside \/ inspect \/ decide \/ answer
  BY <1>3 DEF callInWorkflow, callOutside, inspect, decide, answer, Specified
<1>4. CASE gate
  <2>1. phase' \in {"misconfigured", "gated"}
    BY <1>4 DEF gate
  <2> QED
    BY <2>1 DEF Specified
<1> QED
  BY <1>1, <1>2, <1>3, <1>4 DEF PathNext, path

(* What a history changes of a specification.                              *)
LEMMA HistoryFillsIn ==
    ASSUME NEW posted \in Bodies, NEW forecast,
           forecast.observations \in Nat,
           forecast.expectedCalls \in Nat, forecast.maxCalls \in Nat,
           1 <= forecast.expectedCalls, forecast.expectedCalls <= forecast.maxCalls,
           NEW spec, spec = parseWorkflowSpec(posted, Defaults(forecast)),
           NEW plain, plain = parseWorkflowSpec(posted, NoForecast)
    PROVE  /\ ~spec.refused =>
                 /\ 1 <= spec.expectedCalls /\ spec.expectedCalls <= spec.maxCalls
                 /\ Given(posted.expectedCalls) => spec.expectedCalls = posted.expectedCalls
                 /\ Given(posted.maxCalls) => spec.maxCalls = posted.maxCalls
           /\ spec.refused /\ ~plain.refused =>
                 \/ /\ Given(posted.expectedCalls) /\ ~Given(posted.maxCalls)
                    /\ forecast.maxCalls < posted.expectedCalls
                 \/ /\ Given(posted.maxCalls) /\ ~Given(posted.expectedCalls)
                    /\ posted.maxCalls < forecast.expectedCalls
<1>0. /\ posted.expectedCalls \in Counts /\ posted.maxCalls \in Counts
      /\ posted.maxConcurrency \in Counts /\ posted.known \in BOOLEAN
  BY WorkflowsAssumption
<1> DEFINE defaults == Defaults(forecast)
           expected == expectedCallsOf(posted, defaults)
           most == maxCallsOf(posted, defaults, expected)
           expected0 == expectedCallsOf(posted, NoForecast)
           most0 == maxCallsOf(posted, NoForecast, expected0)
           accepted(e, m) ==
               /\ posted.known
               /\ InRange(posted.expectedCalls, 1, 1000)
               /\ InRange(posted.maxCalls, e, 10000)
               /\ CallsConsistent(e, m)
               /\ InRange(posted.maxConcurrency, 1, 1000)
<1>1. /\ spec.refused <=> ~accepted(expected, most)
      /\ ~spec.refused => spec.expectedCalls = expected /\ spec.maxCalls = most
  BY DEF parseWorkflowSpec, Refused
<1>2. plain.refused <=> ~accepted(expected0, most0)
  BY DEF parseWorkflowSpec, Refused
<1>3. /\ Given(posted.expectedCalls) => expected = posted.expectedCalls
      /\ Given(posted.maxCalls) => most = posted.maxCalls
  BY DEF Given, expectedCallsOf, maxCallsOf, Or
<1>4. /\ ~Given(posted.expectedCalls) =>
            expected = IF forecast.observations > 0 THEN forecast.expectedCalls ELSE 1
      /\ ~Given(posted.maxCalls) =>
            most = IF forecast.observations > 0 THEN forecast.maxCalls ELSE expected
  BY DEF Given, expectedCallsOf, maxCallsOf, Or, Defaults, NoForecast, Absent
<1>5. /\ expected0 = IF Given(posted.expectedCalls) THEN posted.expectedCalls ELSE 1
      /\ most0 = IF Given(posted.maxCalls) THEN posted.maxCalls ELSE expected0
  BY DEF Given, expectedCallsOf, maxCallsOf, Or, NoForecast, Absent
<1> HIDE DEF expected, most, expected0, most0, defaults
<1>6. ASSUME accepted(expected, most) PROVE 1 <= expected /\ expected <= most
  BY <1>0, <1>3, <1>4, <1>6 DEF InRange, CallsConsistent, Given, Counts, Absent, NotAnInteger
<1>7. ASSUME ~accepted(expected, most), accepted(expected0, most0)
      PROVE  \/ /\ Given(posted.expectedCalls) /\ ~Given(posted.maxCalls)
                /\ forecast.maxCalls < posted.expectedCalls
             \/ /\ Given(posted.maxCalls) /\ ~Given(posted.expectedCalls)
                /\ posted.maxCalls < forecast.expectedCalls
  BY <1>0, <1>3, <1>4, <1>5, <1>7
  DEF InRange, CallsConsistent, Given, Counts, Absent, NotAnInteger
<1> HIDE DEF accepted
<1> QED
  BY <1>1, <1>2, <1>3, <1>6, <1>7

(* History fills in what a client leaves out, and refuses only a count     *)
(* that contradicts the forecast of the other.                             *)
THEOREM HistoryFillsInOnly == PathSpec => []HistoryOnlyFillsIn
<1>1. PathInit => Specified
  BY DEF PathInit, Specified
<1>2. Specified /\ [PathNext]_path => Specified'
  BY SpecifiedStep
<1>3. Specified => HistoryOnlyFillsIn
  <2> SUFFICES ASSUME Specified, phase = "specified" PROVE HistoryOnlyFillsIn
    BY DEF HistoryOnlyFillsIn
  <2>1. PICK posted \in Bodies, history \in Histories :
           work = [posted |-> posted,
                   forecast |-> workflowForecast(history.caller, history.global),
                   spec |-> parseWorkflowSpec(posted,
                              Defaults(workflowForecast(history.caller, history.global)))]
    BY DEF Specified
  <2> DEFINE forecast == workflowForecast(history.caller, history.global)
             spec == parseWorkflowSpec(posted, Defaults(forecast))
             plain == parseWorkflowSpec(posted, NoForecast)
  <2>2. /\ forecast.observations \in Nat
        /\ forecast.expectedCalls \in Nat /\ forecast.maxCalls \in Nat
        /\ 1 <= forecast.expectedCalls /\ forecast.expectedCalls <= forecast.maxCalls
    BY ForecastIsOrdered
  <2>3. work.posted = posted /\ work.forecast = forecast /\ work.spec = spec
    BY <2>1
  <2>4. spec = parseWorkflowSpec(posted, Defaults(forecast))
    OBVIOUS
  <2> HIDE DEF forecast, spec, plain
  <2>5. plain = parseWorkflowSpec(posted, NoForecast)
    BY DEF plain
  <2> QED
    BY <2>2, <2>3, <2>4, <2>5, HistoryFillsIn DEF HistoryOnlyFillsIn
<1> QED
  BY <1>1, <1>2, <1>3, PTL DEF PathSpec

-----------------------------------------------------------------------------
(* Sorting and filtering.                                                  *)

IsStrictOrder(before, S) ==
    /\ \A x \in S : <<x, x>> \notin before
    /\ \A x, y, z \in S : <<x, y>> \in before /\ <<y, z>> \in before => <<x, z>> \in before
    /\ \A x, y \in S : x = y \/ <<x, y>> \in before \/ <<y, x>> \in before

Rank(S, before) == [x \in S |-> Cardinality({y \in S : <<y, x>> \in before})]

(* Each place is taken by one element.                                     *)
LEMMA RanksAreTaken ==
    ASSUME NEW S, IsFiniteSet(S), NEW before, IsStrictOrder(before, S)
    PROVE  /\ Cardinality(S) \in Nat
           /\ \A x, y \in S : <<x, y>> \in before => Rank(S, before)[x] < Rank(S, before)[y]
           /\ \A k \in 0..(Cardinality(S) - 1) : \E x \in S : Rank(S, before)[x] = k
<1> DEFINE below(x) == {y \in S : <<y, x>> \in before}
           rank == Rank(S, before)
           n == Cardinality(S)
<1>1. n \in Nat
  BY FS_CardinalityType
<1>2. ASSUME NEW x \in S
      PROVE  rank[x] = Cardinality(below(x)) /\ rank[x] \in 0..(n - 1)
  <2>1. below(x) \in SUBSET S /\ below(x) # S
    BY DEF IsStrictOrder
  <2> HIDE DEF below
  <2>2. IsFiniteSet(below(x)) /\ Cardinality(below(x)) <= n /\ n # Cardinality(below(x))
    BY <2>1, FS_Subset
  <2>3. Cardinality(below(x)) \in Nat
    BY <2>2, FS_CardinalityType
  <2>4. rank[x] = Cardinality(below(x))
    BY DEF Rank, below
  <2> QED
    BY <1>1, <2>2, <2>3, <2>4
<1>3. ASSUME NEW x \in S, NEW y \in S, <<x, y>> \in before
      PROVE  rank[x] < rank[y]
  <2>1. below(x) \in SUBSET below(y) /\ x \in below(y) /\ x \notin below(x)
    BY <1>3 DEF IsStrictOrder
  <2>2. below(y) \in SUBSET S
    OBVIOUS
  <2> HIDE DEF below
  <2>3. IsFiniteSet(below(y))
    BY <2>2, FS_Subset
  <2>4. Cardinality(below(x)) <= Cardinality(below(y)) /\ Cardinality(below(y)) # Cardinality(below(x))
    BY <2>1, <2>3, FS_Subset
  <2> HIDE DEF rank
  <2>5. rank[x] \in Int /\ rank[y] \in Int
    BY <1>2
  <2> QED
    BY <1>2, <2>4, <2>5
<1>4. rank \in Injection(S, 0..(n - 1))
  <2>1. rank \in [S -> 0..(n - 1)]
    BY <1>2 DEF Rank
  <2>2. ASSUME NEW x \in S, NEW y \in S, x # y PROVE rank[x] # rank[y]
    <3>1. <<x, y>> \in before \/ <<y, x>> \in before
      BY <2>2 DEF IsStrictOrder
    <3> HIDE DEF rank
    <3>2. rank[x] \in Int /\ rank[y] \in Int
      <4>1. \A k \in 0..(n - 1) : k \in Int
        OBVIOUS
      <4> QED
        BY <1>2, <4>1
    <3>3. rank[x] < rank[y] \/ rank[y] < rank[x]
      BY <1>3, <3>1
    <3> QED
      BY <3>2, <3>3
  <2> HIDE DEF rank
  <2> QED
    BY <2>1, <2>2 DEF Injection, IsInjective
<1>5. IsFiniteSet(0..(n - 1)) /\ Cardinality(0..(n - 1)) = n
  <2> HIDE DEF n
  <2>1. n - 1 \in Int /\ 0 \in Int
    BY <1>1
  <2>2. IsFiniteSet(0..(n - 1)) /\ Cardinality(0..(n - 1)) = IF 0 > n - 1 THEN 0 ELSE n - 1 - 0 + 1
    BY <2>1, FS_Interval
  <2> QED
    BY <1>1, <2>2
<1>6. rank \in Surjection(S, 0..(n - 1))
  <2> DEFINE T == 0..(n - 1)
  <2>1. IsFiniteSet(T) /\ Cardinality(S) = Cardinality(T) /\ rank \in Injection(S, T)
    BY <1>4, <1>5
  <2> HIDE DEF T, rank, n
  <2>2. rank \in Surjection(S, T)
    BY <2>1, FS_Injection
  <2> QED
    BY <2>2 DEF T
<1>7. \A k \in 0..(n - 1) : \E x \in S : rank[x] = k
  <2> HIDE DEF rank, n
  <2> QED
    BY <1>6 DEF Surjection
<1> QED
  BY <1>1, <1>3, <1>7

LEMMA SortedIsOrdered ==
    ASSUME NEW S, IsFiniteSet(S), NEW before, IsStrictOrder(before, S)
    PROVE  /\ Cardinality(S) \in Nat
           /\ Sorted(S, before) \in [1..Cardinality(S) -> S]
           /\ \A i, j \in 1..Cardinality(S) :
                 i < j => <<Sorted(S, before)[i], Sorted(S, before)[j]>> \in before
           /\ \A k \in 1..Cardinality(S) :
                 Cardinality({y \in S : <<y, Sorted(S, before)[k]>> \in before}) = k - 1
<1> DEFINE n == Cardinality(S)
           rank == Rank(S, before)
           at(k) == CHOOSE x \in S : Cardinality({y \in S : <<y, x>> \in before}) = k - 1
           s == [k \in 1..n |-> at(k)]
<1>1. /\ n \in Nat
      /\ \A x, y \in S : <<x, y>> \in before => rank[x] < rank[y]
      /\ \A k \in 0..(n - 1) : \E x \in S : rank[x] = k
  BY RanksAreTaken
<1>2. \A x \in S : rank[x] = Cardinality({y \in S : <<y, x>> \in before})
  BY DEF Rank
<1>3. ASSUME NEW k \in 1..n
      PROVE  at(k) \in S /\ Cardinality({y \in S : <<y, at(k)>> \in before}) = k - 1
  <2>1. k - 1 \in 0..(n - 1)
    BY <1>1
  <2>2. \E x \in S : Cardinality({y \in S : <<y, x>> \in before}) = k - 1
    BY <1>1, <1>2, <2>1
  <2> QED
    BY <2>2
<1> HIDE DEF at
<1>4. s \in [1..n -> S]
  BY <1>3
<1>5. Sorted(S, before) = s
  <2>1. s \in Seq(S)
    BY <1>1, <1>4
  <2>2. << >> \o s = s
    <3> HIDE DEF s
    <3> QED
      BY <2>1, ConcatEmptySeq
  <2>3. Sorted(S, before) = << >> \o s
    BY DEF Sorted, at
  <2> QED
    BY <2>2, <2>3
<1>6. \A k \in 1..n : s[k] = at(k)
  OBVIOUS
<1> HIDE DEF s, n
<1>7. ASSUME NEW i \in 1..n, NEW j \in 1..n, i < j
      PROVE  <<s[i], s[j]>> \in before
  <2>1. rank[s[i]] = i - 1 /\ rank[s[j]] = j - 1 /\ s[i] \in S /\ s[j] \in S
    BY <1>2, <1>3, <1>6
  <2>2. s[i] # s[j] /\ ~(rank[s[j]] < rank[s[i]])
    BY <1>1, <1>7, <2>1
  <2> HIDE DEF rank
  <2> QED
    BY <1>1, <2>1, <2>2 DEF IsStrictOrder
<1>8. \A k \in 1..n : Cardinality({y \in S : <<y, s[k]>> \in before}) = k - 1
  BY <1>3, <1>6
<1> QED
  BY <1>1, <1>4, <1>5, <1>7, <1>8 DEF n

(* What a filter keeps are elements of the sequence, in order.              *)
LEMMA AscendingIs ==
    ASSUME NEW n \in Nat, NEW numbers \in SUBSET (1..n)
    PROVE  /\ Cardinality(numbers) \in Nat
           /\ Ascending(numbers) \in [1..Cardinality(numbers) -> numbers]
           /\ \A k \in 1..Cardinality(numbers) :
                 Cardinality({y \in numbers : y < Ascending(numbers)[k]}) = k - 1
<1> DEFINE before == {p \in numbers \X numbers : p[1] < p[2]}
<1>1. IsFiniteSet(numbers)
  <2>1. IsFiniteSet(1..n)
    BY FS_Interval
  <2> QED
    BY <2>1, FS_Subset
<1>2. \A x, y \in numbers : <<x, y>> \in before <=> x < y
  OBVIOUS
<1>3. \A x \in numbers : x \in Int
  OBVIOUS
<1>4. Ascending(numbers) = Sorted(numbers, before)
  BY DEF Ascending
<1> HIDE DEF before
<1>5. IsStrictOrder(before, numbers)
  BY <1>2, <1>3 DEF IsStrictOrder
<1> DEFINE s == Sorted(numbers, before)
<1>6. /\ Cardinality(numbers) \in Nat
      /\ s \in [1..Cardinality(numbers) -> numbers]
      /\ \A k \in 1..Cardinality(numbers) :
            Cardinality({y \in numbers : <<y, s[k]>> \in before}) = k - 1
  BY <1>1, <1>5, SortedIsOrdered
<1> HIDE DEF s
<1>7. ASSUME NEW k \in 1..Cardinality(numbers)
      PROVE  Cardinality({y \in numbers : y < s[k]}) = k - 1
  <2>1. s[k] \in numbers
    BY <1>6
  <2>2. {y \in numbers : y < s[k]} = {y \in numbers : <<y, s[k]>> \in before}
    BY <1>2, <2>1
  <2> QED
    BY <1>6, <2>2
<1> QED
  BY <1>4, <1>6, <1>7 DEF s

(* A filter that keeps everything changes nothing.                         *)
LEMMA AscendingAll ==
    ASSUME NEW n \in Nat
    PROVE  Ascending(1..n) = [k \in 1..n |-> k]
<1> DEFINE s == Ascending(1..n)
<1>1. Cardinality(1..n) = n
  <2>1. 1 \in Int /\ n \in Int
    OBVIOUS
  <2>2. Cardinality(1..n) = IF 1 > n THEN 0 ELSE n - 1 + 1
    BY <2>1, FS_Interval
  <2> QED
    BY <2>2
<1>2. /\ s \in [1..n -> 1..n]
      /\ \A k \in 1..n : Cardinality({y \in 1..n : y < s[k]}) = k - 1
  <2>1. (1..n) \in SUBSET (1..n)
    OBVIOUS
  <2> QED
    BY <1>1, <2>1, AscendingIs
<1> HIDE DEF s
<1>3. ASSUME NEW k \in 1..n PROVE s[k] = k
  <2>1. s[k] \in 1..n
    BY <1>2
  <2>2. {y \in 1..n : y < s[k]} = 1..(s[k] - 1)
    BY <2>1
  <2>3. Cardinality(1..(s[k] - 1)) = s[k] - 1
    <3>1. 1 \in Int /\ s[k] - 1 \in Int
      BY <2>1
    <3>2. Cardinality(1..(s[k] - 1)) = IF 1 > s[k] - 1 THEN 0 ELSE (s[k] - 1) - 1 + 1
      BY <3>1, FS_Interval
    <3> QED
      BY <2>1, <3>2
  <2>4. s[k] - 1 = k - 1
    BY <1>2, <2>2, <2>3
  <2> QED
    BY <2>1, <2>4
<1> QED
  BY <1>2, <1>3 DEF s

LEMMA SubsequenceIs ==
    ASSUME NEW D, NEW s \in Seq(D), NEW places \in SUBSET (DOMAIN s)
    PROVE  /\ Subsequence(s, places) \in Seq(D)
           /\ \A k \in DOMAIN Subsequence(s, places) :
                 \E i \in places : Subsequence(s, places)[k] = s[i]
<1> DEFINE order == Ascending(places)
           n == Cardinality(places)
           result == [k \in 1..n |-> s[order[k]]]
<1>1. Len(s) \in Nat /\ DOMAIN s = 1..Len(s) /\ \A i \in 1..Len(s) : s[i] \in D
  OBVIOUS
<1>2. n \in Nat /\ order \in [1..n -> places]
  BY <1>1, AscendingIs
<1>3. Subsequence(s, places) = result
  BY DEF Subsequence
<1> HIDE DEF order, n
<1>4. \A k \in 1..n : order[k] \in places /\ s[order[k]] \in D
  BY <1>1, <1>2
<1>5. result \in Seq(D)
  BY <1>2, <1>4
<1>6. \A k \in 1..n : result[k] = s[order[k]]
  OBVIOUS
<1>7. DOMAIN result = 1..n
  OBVIOUS
<1> HIDE DEF result
<1> QED
  BY <1>3, <1>4, <1>5, <1>6, <1>7

(* The function that puts sequences one behind the other exists.           *)
Flattens(f, seqs, n) ==
    f = [i \in 1..n |-> IF i = 1 THEN seqs[i] ELSE f[i - 1] \o seqs[i]]

LEMMA FlattensExists ==
    ASSUME NEW seqs, NEW n \in Nat
    PROVE  \E f : Flattens(f, seqs, n)
<1> DEFINE bad == {m \in Nat : ~\E f : Flattens(f, seqs, m)}
<1>1. CASE bad = {}
  BY <1>1
<1>2. CASE bad # {}
  <2>1. PICK m \in bad : \A k \in bad : m <= k
    <3>1. bad \in SUBSET Nat
      OBVIOUS
    <3> HIDE DEF bad
    <3> QED
      BY <1>2, <3>1, LeastOf
  <2>2. m \in Nat /\ ~\E f : Flattens(f, seqs, m)
    BY <2>1
  <2>3. m # 0
    <3> DEFINE f == [i \in 1..0 |-> 0]
    <3>1. Flattens(f, seqs, 0)
      BY DEF Flattens
    <3> HIDE DEF f
    <3> QED
      BY <2>2, <3>1
  <2>4. m - 1 \in Nat /\ m - 1 \notin bad
    <3>1. m - 1 \in Nat /\ ~(m <= m - 1)
      BY <2>2, <2>3
    <3> HIDE DEF bad
    <3> QED
      BY <2>1, <3>1
  <2>5. PICK f : Flattens(f, seqs, m - 1)
    BY <2>4
  <2> DEFINE g == [i \in 1..m |-> IF i = 1 THEN seqs[i] ELSE f[i - 1] \o seqs[i]]
  <2>6. ASSUME NEW i \in 1..m, i # 1 PROVE g[i - 1] = f[i - 1]
    <3>1. i - 1 \in 1..m /\ i - 1 \in 1..(m - 1)
      BY <2>2, <2>6
    <3>2. g[i - 1] = IF i - 1 = 1 THEN seqs[i - 1] ELSE f[i - 1 - 1] \o seqs[i - 1]
      BY <3>1
    <3>3. f[i - 1] = IF i - 1 = 1 THEN seqs[i - 1] ELSE f[i - 1 - 1] \o seqs[i - 1]
      BY <2>5, <3>1 DEF Flattens
    <3> QED
      BY <3>2, <3>3
  <2>7. g = [i \in 1..m |-> IF i = 1 THEN seqs[i] ELSE g[i - 1] \o seqs[i]]
    <3> DEFINE h == [i \in 1..m |-> IF i = 1 THEN seqs[i] ELSE g[i - 1] \o seqs[i]]
    <3>1. \A i \in 1..m : g[i] = h[i]
      BY <2>6
    <3>2. g = [i \in 1..m |-> g[i]] /\ h = [i \in 1..m |-> h[i]]
      OBVIOUS
    <3> HIDE DEF g, h
    <3>3. g = h
      BY <3>1, <3>2
    <3> QED
      BY <3>3 DEF h
  <2>8. Flattens(g, seqs, m)
    BY <2>7, Zenon DEF Flattens
  <2> QED
    BY <2>2, <2>8
<1> QED
  BY <1>1, <1>2

(* Sequences of elements of D, one behind the other, are one.               *)
LEMMA FlattenType ==
    ASSUME NEW D, NEW seqs \in Seq(Seq(D))
    PROVE  FlattenSeq(seqs) \in Seq(D)
<1> DEFINE n == Len(seqs)
           f == CHOOSE f : f = [i \in 1..n |-> IF i = 1 THEN seqs[i] ELSE f[i - 1] \o seqs[i]]
<1>1. n \in Nat /\ \A i \in 1..n : seqs[i] \in Seq(D)
  OBVIOUS
<1>2. FlattenSeq(seqs) = IF n = 0 THEN seqs ELSE f[n]
  BY Zenon DEF FlattenSeq
<1>3. Flattens(f, seqs, n)
  <2>1. \E g : Flattens(g, seqs, n)
    BY <1>1, FlattensExists
  <2> QED
    BY <2>1, Zenon DEF Flattens
<1> HIDE DEF f
<1>4. ASSUME n = 0 PROVE seqs \in Seq(D)
  <2>1. seqs = << >>
    BY <1>4
  <2> QED
    BY <2>1
<1> DEFINE bad == {i \in 1..n : f[i] \notin Seq(D)}
<1>5. bad = {}
  <2> SUFFICES ASSUME bad # {} PROVE FALSE
    OBVIOUS
  <2>1. PICK i \in bad : \A j \in bad : i <= j
    <3>1. bad \in SUBSET Nat
      BY <1>1
    <3> HIDE DEF bad
    <3> QED
      BY <3>1, LeastOf
  <2>2. i \in 1..n /\ f[i] \notin Seq(D)
    BY <2>1
  <2>3. f[i] = IF i = 1 THEN seqs[i] ELSE f[i - 1] \o seqs[i]
    BY <1>3, <2>2 DEF Flattens
  <2>4. i # 1
    BY <1>1, <2>2, <2>3
  <2>5. i - 1 \in 1..n /\ ~(i <= i - 1)
    BY <1>1, <2>2, <2>4
  <2>6. f[i - 1] \in Seq(D)
    BY <2>1, <2>5
  <2> QED
    BY <1>1, <2>2, <2>3, <2>4, <2>6
<1> HIDE DEF n
<1>6. ASSUME n # 0 PROVE f[n] \in Seq(D)
  <2>1. n \in 1..n
    BY <1>1, <1>6
  <2> QED
    BY <1>5, <2>1
<1> QED
  BY <1>2, <1>4, <1>6

-----------------------------------------------------------------------------
(* The accounts and their models.                                          *)

(* Strings: the provers do not know that a literal is one.                 *)
Names ==
    STRING \cup {"nvidia", "NVIDIA_API_KEY", "benchmark", "personal-diagnostic", "diagnostic",
                 "default", "free/default"}

Profiles ==
    [id : Seq(Names), provider : Names, scope : Names, origin : Names, context : Nat,
     output : Nat, supports : SUBSET Names, tier : Names, free : BOOLEAN, automatic : BOOLEAN]

(* An account whose models are its own.                                    *)
OwnModels ==
    {p \in [id : Names, scope : Names, origin : Names, models : Seq(Profiles)] :
        \A j \in DOMAIN p.models :
            /\ p.models[j].provider = p.id /\ p.models[j].scope = p.scope
            /\ p.models[j].origin = p.origin}

LEMMA ProviderIs ==
    ASSUME NEW id \in Names, NEW scope \in Names, NEW origin \in Names,
           NEW models \in Seq(Models), NEW ids, \A i \in DOMAIN models : ids[i] \in Seq(Names)
    PROVE  Provider(id, scope, origin, models, ids) \in OwnModels
<1> DEFINE profile(i) == Profile(models[i], ids[i], id, scope, origin)
           profiles == [i \in DOMAIN models |-> profile(i)]
<1>1. ASSUME NEW i \in DOMAIN models
      PROVE  /\ profile(i) \in Profiles
             /\ profile(i).provider = id /\ profile(i).scope = scope /\ profile(i).origin = origin
  <2>1. models[i] \in Models
    OBVIOUS
  <2>2. /\ models[i].context \in Nat /\ models[i].output \in Nat
        /\ models[i].supports \in SUBSET Names /\ models[i].tier \in Names
        /\ models[i].free \in BOOLEAN /\ models[i].automatic \in BOOLEAN
    BY <2>1 DEF Models, Names
  <2> QED
    BY <2>2 DEF Profile, Profiles
<1> HIDE DEF profile
<1>2. Len(models) \in Nat /\ DOMAIN models = 1..Len(models)
  OBVIOUS
<1>3. profiles \in Seq(Profiles)
  BY <1>1, <1>2
<1>4. Provider(id, scope, origin, models, ids)
        = [id |-> id, scope |-> scope, origin |-> origin, models |-> profiles]
  BY DEF Provider, profile
<1>5. \A j \in DOMAIN profiles : profiles[j] = profile(j) /\ j \in DOMAIN models
  OBVIOUS
<1> HIDE DEF profiles
<1> QED
  BY <1>1, <1>3, <1>4, <1>5 DEF OwnModels

LEMMA NamesAre ==
    ASSUME NEW models \in Seq(Models), NEW i \in DOMAIN models
    PROVE  models[i].name \in Names
<1>1. models[i] \in Models
  OBVIOUS
<1> QED
  BY <1>1 DEF Models, Names

LEMMA BuiltInIs == Nvidia \in OwnModels /\ Diagnostic \in OwnModels
<1>1. ASSUME NEW models \in Seq(Models)
      PROVE  \A i \in DOMAIN models :
                [k \in DOMAIN models |-> <<models[k].name>>][i] \in Seq(Names)
  <2>1. ASSUME NEW i \in DOMAIN models PROVE models[i].name \in Names
    BY NamesAre
  <2> QED
    BY <2>1
<1>2. NvidiaModels \in Seq(Models) /\ DiagnosticModels \in Seq(Models)
  BY CatalogueAssumption
<1>3. ASSUME NEW id \in Names, NEW scope \in Names, NEW origin \in Names, NEW models \in Seq(Models)
      PROVE  BuiltIn(id, scope, origin, models) \in OwnModels
  <2> DEFINE ids == [k \in DOMAIN models |-> <<models[k].name>>]
  <2>1. \A i \in DOMAIN models : ids[i] \in Seq(Names)
    BY <1>1
  <2> HIDE DEF ids
  <2>2. Provider(id, scope, origin, models, ids) \in OwnModels
    BY <2>1, ProviderIs
  <2> QED
    BY <2>2 DEF BuiltIn, ids
<1>4. BuiltIn("nvidia", DefaultScope, "NVIDIA_API_KEY", NvidiaModels) \in OwnModels
  <2>1. "nvidia" \in Names /\ DefaultScope \in Names /\ "NVIDIA_API_KEY" \in Names
    BY DEF DefaultScope, Names
  <2> QED
    BY <1>2, <1>3, <2>1
<1>5. BuiltIn("benchmark", "personal-diagnostic", "diagnostic", DiagnosticModels) \in OwnModels
  <2>1. "benchmark" \in Names /\ "personal-diagnostic" \in Names /\ "diagnostic" \in Names
    BY DEF Names
  <2> QED
    BY <1>2, <1>3, <2>1
<1> QED
  BY <1>4, <1>5 DEF Nvidia, Diagnostic

LEMMA ExtrasAre ==
    ASSUME NEW extras \in Seq(Extras)
    PROVE  configuredOpenAiCompatibleProviders(extras) \in Seq(OwnModels)
<1> DEFINE places == {i \in DOMAIN extras : extras[i].usable}
           usable == Subsequence(extras, places)
           scope(e) == IF e.scope = NoScope THEN DefaultScope ELSE e.scope
           ids(e) == [i \in DOMAIN e.models |->
                         IF e.models[i].name = "free/default" THEN <<e.provider, "free/default">>
                         ELSE <<e.models[i].name>>]
           configured(e) == Provider(e.provider, scope(e), e.origin, e.models, ids(e))
<1>1. usable \in Seq(Extras)
  <2>1. places \in SUBSET (DOMAIN extras)
    OBVIOUS
  <2> HIDE DEF places
  <2> QED
    BY <2>1, SubsequenceIs
<1>2. ASSUME NEW e \in Extras PROVE configured(e) \in OwnModels
  <2>0. /\ e.provider \in Names /\ e.scope \in Names /\ e.origin \in Names
        /\ e.models \in Seq(Models)
    BY DEF Extras, Names
  <2>1. /\ e.provider \in Names /\ scope(e) \in Names /\ e.origin \in Names
        /\ e.models \in Seq(Models)
    <3>1. "default" \in Names
      BY DEF Names
    <3>2. scope(e) \in Names
      BY <2>0, <3>1, Zenon DEF DefaultScope
    <3> QED
      BY <2>0, <3>2, Zenon
  <2>2. \A i \in DOMAIN e.models : ids(e)[i] \in Seq(Names)
    <3>1. ASSUME NEW i \in DOMAIN e.models PROVE e.models[i].name \in Names
      <4> DEFINE models == e.models
      <4>1. models \in Seq(Models) /\ i \in DOMAIN models
        BY <2>1
      <4> HIDE DEF models
      <4>2. models[i].name \in Names
        BY <4>1, NamesAre
      <4> QED
        BY <4>2 DEF models
    <3>2. ASSUME NEW i \in DOMAIN e.models PROVE ids(e)[i] \in Seq(Names)
      <4> DEFINE name == e.models[i].name
      <4>1. name \in Names
        BY <3>1
      <4>2. ids(e)[i] = IF name = "free/default" THEN <<e.provider, "free/default">> ELSE <<name>>
        OBVIOUS
      <4> HIDE DEF name, ids
      <4> QED
        <5>1. e.provider \in Names /\ "free/default" \in Names
          BY <2>1 DEF Names
        <5>2. <<e.provider, "free/default">> \in Seq(Names)
          BY <5>1
        <5>3. <<name>> \in Seq(Names)
          BY <4>1
        <5> QED
          BY <4>2, <5>2, <5>3, Zenon
    <3> HIDE DEF ids
    <3> QED
      BY <3>2
  <2> HIDE DEF scope, ids
  <2> QED
    BY <2>1, <2>2, ProviderIs
<1>3. configuredOpenAiCompatibleProviders(extras) = [i \in DOMAIN usable |-> configured(usable[i])]
  BY DEF configuredOpenAiCompatibleProviders
<1> HIDE DEF usable, configured
<1>4. DOMAIN usable = 1..Len(usable) /\ Len(usable) \in Nat /\ \A i \in DOMAIN usable : usable[i] \in Extras
  BY <1>1
<1> QED
  BY <1>2, <1>3, <1>4

LEMMA AccountsAre ==
    ASSUME NEW accounts \in Seq(Accounts)
    PROVE  configuredProviderAccounts(accounts) \in Seq(OwnModels)
<1> DEFINE places == {i \in DOMAIN accounts : accounts[i].enabled}
           enabled == Subsequence(accounts, places)
           ids(a) == [i \in DOMAIN a.models |-> <<a.provider, ScopeOf(a), a.models[i].name>>]
           configured(a) == Provider(a.provider, ScopeOf(a), a.origin, a.models, ids(a))
<1>1. enabled \in Seq(Accounts)
  <2>1. places \in SUBSET (DOMAIN accounts)
    OBVIOUS
  <2> HIDE DEF places
  <2> QED
    BY <2>1, SubsequenceIs
<1>2. ASSUME NEW a \in Accounts PROVE configured(a) \in OwnModels
  <2>1. /\ a.provider \in Names /\ ScopeOf(a) \in Names /\ a.origin \in Names
        /\ a.models \in Seq(Models)
    BY DEF Accounts, ScopeOf, Names
  <2>2. \A i \in DOMAIN a.models : ids(a)[i] \in Seq(Names)
    <3>1. ASSUME NEW i \in DOMAIN a.models PROVE a.models[i].name \in Names
      <4> DEFINE models == a.models
      <4>1. models \in Seq(Models) /\ i \in DOMAIN models
        BY <2>1
      <4> HIDE DEF models
      <4>2. models[i].name \in Names
        BY <4>1, NamesAre
      <4> QED
        BY <4>2 DEF models
    <3>2. ASSUME NEW i \in DOMAIN a.models PROVE ids(a)[i] \in Seq(Names)
      <4> DEFINE name == a.models[i].name
      <4>1. name \in Names
        BY <3>1
      <4>2. ids(a)[i] = <<a.provider, ScopeOf(a), name>>
        OBVIOUS
      <4> HIDE DEF name, ids
      <4> QED
        BY <2>1, <4>1, <4>2
    <3> HIDE DEF ids
    <3> QED
      BY <3>2
  <2> HIDE DEF ids
  <2> QED
    BY <2>1, <2>2, ProviderIs
<1>3. configuredProviderAccounts(accounts) = [i \in DOMAIN enabled |-> configured(enabled[i])]
  BY DEF configuredProviderAccounts
<1> HIDE DEF enabled, configured
<1>4. DOMAIN enabled = 1..Len(enabled) /\ Len(enabled) \in Nat /\ \A i \in DOMAIN enabled : enabled[i] \in Accounts
  BY <1>1
<1> QED
  BY <1>2, <1>3, <1>4

(* What is registered are accounts with models of their own, all           *)
(* different.                                                              *)
LEMMA RegisteredAre ==
    ASSUME NEW config \in Configurations
    PROVE  /\ registeredProviders(config).providers \in Seq(OwnModels)
           /\ UniqueAccounts(registeredProviders(config).providers)
<1>1. config.extras \in Seq(Extras) /\ config.accounts \in Seq(Accounts)
  <2>1. config \in ConfigurationType
    BY GatesAssumption
  <2> QED
    BY <2>1 DEF ConfigurationType
<1> DEFINE first == IF config.nvidia THEN <<Nvidia>> ELSE << >>
           extras == configuredOpenAiCompatibleProviders(config.extras)
           accounts == configuredProviderAccounts(config.accounts)
           last == IF config.diagnostic THEN <<Diagnostic>> ELSE << >>
           all == first \o extras \o accounts \o last
<1>2. first \in Seq(OwnModels) /\ last \in Seq(OwnModels)
  BY BuiltInIs
<1>3. extras \in Seq(OwnModels) /\ accounts \in Seq(OwnModels)
  BY <1>1, ExtrasAre, AccountsAre
<1>4. all \in Seq(OwnModels)
  <2> HIDE DEF first, extras, accounts, last
  <2> QED
    BY <1>2, <1>3
<1>5. \/ registeredProviders(config) = [failed |-> TRUE, providers |-> << >>]
      \/ UniqueAccounts(all) /\ registeredProviders(config) = [failed |-> FALSE, providers |-> all]
  BY DEF registeredProviders
<1>6. << >> \in Seq(OwnModels) /\ UniqueAccounts(<< >>)
  BY DEF UniqueAccounts
<1> HIDE DEF all
<1>7. CASE registeredProviders(config) = [failed |-> TRUE, providers |-> << >>]
  <2>1. registeredProviders(config).providers = << >>
    BY <1>7
  <2> QED
    BY <1>6, <2>1, Zenon
<1>8. CASE UniqueAccounts(all) /\ registeredProviders(config) = [failed |-> FALSE, providers |-> all]
  <2>1. registeredProviders(config).providers = all
    BY <1>8
  <2> QED
    BY <1>4, <1>8, <2>1, Zenon
<1> QED
  BY <1>5, <1>7, <1>8

(* The models that are offered by one of those accounts.                   *)
Offers(providers) ==
    {m \in Profiles : \E i \in DOMAIN providers :
        /\ m.provider = providers[i].id /\ m.scope = providers[i].scope
        /\ m.origin = providers[i].origin}

LEMMA CatalogIs ==
    ASSUME NEW providers \in Seq(OwnModels)
    PROVE  Catalog(providers) \in Seq(Offers(providers))
<1> DEFINE seqs == [i \in DOMAIN providers |-> providers[i].models]
           D == Offers(providers)
<1>1. Len(providers) \in Nat /\ DOMAIN providers = 1..Len(providers)
  OBVIOUS
<1>2. ASSUME NEW i \in DOMAIN providers PROVE providers[i].models \in Seq(D)
  <2>1. providers[i] \in OwnModels
    OBVIOUS
  <2> DEFINE models == providers[i].models
  <2>2. /\ models \in Seq(Profiles)
        /\ \A j \in DOMAIN models :
              /\ models[j].provider = providers[i].id /\ models[j].scope = providers[i].scope
              /\ models[j].origin = providers[i].origin
    BY <2>1 DEF OwnModels
  <2> HIDE DEF models
  <2>3. \A j \in DOMAIN models : models[j] \in Profiles
    BY <2>2
  <2>4. \A j \in DOMAIN models : models[j] \in D
    BY <2>2, <2>3 DEF Offers
  <2>5. Len(models) \in Nat /\ DOMAIN models = 1..Len(models) /\ models = [j \in 1..Len(models) |-> models[j]]
    BY <2>2
  <2> HIDE DEF D
  <2>6. models \in Seq(D)
    BY <2>4, <2>5
  <2> QED
    BY <2>6 DEF models
<1> HIDE DEF D
<1>3. seqs \in Seq(Seq(D))
  BY <1>1, <1>2
<1>4. Catalog(providers) = FlattenSeq(seqs)
  BY DEF Catalog
<1> HIDE DEF seqs
<1> QED
  BY <1>3, <1>4, FlattenType DEF D

(* Every selected model finds its way back to the account it came from.    *)
LEMMA RuntimesAre ==
    ASSUME NEW providers \in Seq(OwnModels), UniqueAccounts(providers),
           NEW selections \in Seq(Offers(providers)),
           NEW runtimes, runtimes = candidateRuntimes(selections, providers)
    PROVE  /\ DOMAIN runtimes = 1..Len(selections) /\ Len(runtimes) = Len(selections)
           /\ \A k \in 1..Len(selections) :
                 \E i \in DOMAIN providers :
                    /\ runtimes[k] = [model |-> selections[k], provider |-> providers[i],
                                      order |-> k - 1]
                    /\ providers[i].origin = selections[k].origin
<1> DEFINE n == Len(selections)
           serving(i) == {j \in 1..Len(providers) : ServesModel(providers[j], selections[i])}
           account(i) == SelectInSeq(providers, LAMBDA p : ServesModel(p, selections[i]))
           served == Ascending({i \in DOMAIN selections : account(i) # 0})
<1>1. /\ n \in Nat /\ DOMAIN selections = 1..n
      /\ Len(providers) \in Nat /\ DOMAIN providers = 1..Len(providers)
  OBVIOUS
<1>2. ASSUME NEW i \in 1..n
      PROVE  /\ account(i) \in DOMAIN providers /\ account(i) # 0
             /\ providers[account(i)].origin = selections[i].origin
  <2>1. selections[i] \in Offers(providers)
    BY <1>1
  <2>2. PICK j \in DOMAIN providers :
           /\ selections[i].provider = providers[j].id /\ selections[i].scope = providers[j].scope
           /\ selections[i].origin = providers[j].origin
    BY <2>1 DEF Offers
  <2>3. j \in serving(i)
    BY <1>1, <2>2 DEF ServesModel
  <2>4. account(i) = IF serving(i) # {} THEN Min(serving(i)) ELSE 0
    BY Zenon DEF SelectInSeq
  <2>5. serving(i) \in SUBSET Nat /\ serving(i) \in SUBSET (1..Len(providers))
    BY <1>1
  <2>6. \A k \in serving(i) : k \in DOMAIN providers /\ ServesModel(providers[k], selections[i])
    BY <1>1
  <2> HIDE DEF serving, account
  <2>7. PICK k \in serving(i) : \A m \in serving(i) : k <= m
    BY <2>3, <2>5, LeastOf
  <2>8. Min(serving(i)) \in serving(i)
    BY <2>7 DEF Min
  <2>9. account(i) \in serving(i)
    BY <2>3, <2>4, <2>8
  <2>10. account(i) = j
    BY <2>2, <2>6, <2>9 DEF UniqueAccounts, ServesModel
  <2> QED
    BY <1>1, <2>2, <2>10
<1> HIDE DEF account
<1>3. {i \in DOMAIN selections : account(i) # 0} = 1..n
  BY <1>1, <1>2
<1>4. served = [k \in 1..n |-> k]
  BY <1>1, <1>3, AscendingAll
<1>5. runtimes = [k \in DOMAIN served |-> [model |-> selections[served[k]],
                                          provider |-> providers[account(served[k])],
                                          order |-> served[k] - 1]]
  BY DEF candidateRuntimes, account
<1> HIDE DEF served
<1>6. runtimes = [k \in 1..n |-> [model |-> selections[k], provider |-> providers[account(k)],
                                  order |-> k - 1]]
  <2>1. DOMAIN served = 1..n /\ \A k \in 1..n : served[k] = k
    BY <1>4
  <2> QED
    BY <1>5, <2>1
<1>7. DOMAIN runtimes = 1..n
  BY <1>6
<1>8. Len(runtimes) = n
  BY <1>1, <1>6
<1>9. \A k \in 1..n : runtimes[k] = [model |-> selections[k], provider |-> providers[account(k)],
                                     order |-> k - 1]
  BY <1>6
<1> QED
  BY <1>2, <1>7, <1>8, <1>9

(* What gate leaves.                                                       *)
Gated ==
    phase = "gated" =>
        \E config \in Configurations, request \in Requests :
            LET registered == registeredProviders(config)
                catalog == Catalog(registered.providers)
                selections == selectRoutes(request, catalog)
            IN  /\ work.request = request /\ work.catalog = catalog /\ work.selections = selections
                /\ work.runtimes = candidateRuntimes(selections, registered.providers)

LEMMA GatedStep ==
    ASSUME Gated, [PathNext]_path
    PROVE  Gated'
<1>1. CASE gate
  <2>1. PICK config \in Configurations, request \in Requests :
           LET registered == registeredProviders(config)
               selections == selectRoutes(request, Catalog(registered.providers))
           IN  work' = [hints |-> work.hints, request |-> request,
                        catalog |-> Catalog(registered.providers), selections |-> selections,
                        runtimes |-> candidateRuntimes(selections, registered.providers)]
    BY <1>1 DEF gate
  <2> DEFINE catalog == Catalog(registeredProviders(config).providers)
             selections == selectRoutes(request, catalog)
             runtimes == candidateRuntimes(selections, registeredProviders(config).providers)
  <2>2. work' = [hints |-> work.hints, request |-> request, catalog |-> catalog,
                 selections |-> selections, runtimes |-> runtimes]
    BY <2>1
  <2>3. /\ work'.request = request /\ work'.catalog = catalog
        /\ work'.selections = selections /\ work'.runtimes = runtimes
    <3> HIDE DEF catalog, selections, runtimes
    <3> QED
      BY <2>2
  <2> QED
    BY <2>3, Zenon DEF Gated
<1>2. CASE UNCHANGED <<phase, work>>
  BY <1>2 DEF Gated
<1>3. CASE createWorkflow \/ callInWorkflow \/ callOutside \/ inspect \/ decide \/ answer
  BY <1>3 DEF createWorkflow, callInWorkflow, callOutside, inspect, decide, answer, Gated
<1> QED
  BY <1>1, <1>2, <1>3 DEF PathNext, path

LEMMA GatedAlways == PathSpec => []Gated
<1>1. PathInit => Gated
  BY DEF PathInit, Gated
<1>2. Gated /\ [PathNext]_path => Gated'
  BY GatedStep
<1> QED
  BY <1>1, <1>2, PTL DEF PathSpec

LEMMA GatedRuntimes ==
    ASSUME Gated, phase = "gated"
    PROVE  /\ Len(work.selections) \in Nat
           /\ DOMAIN work.runtimes = 1..Len(work.selections)
           /\ Len(work.runtimes) = Len(work.selections)
           /\ work.request \in Requests
           /\ \A k \in DOMAIN work.runtimes :
                 /\ work.runtimes[k].model = work.selections[k]
                 /\ work.runtimes[k].provider.origin = work.runtimes[k].model.origin
                 /\ work.runtimes[k].order = k - 1
<1>1. PICK config \in Configurations, request \in Requests :
         LET registered == registeredProviders(config)
             catalog == Catalog(registered.providers)
             selections == selectRoutes(request, catalog)
         IN  /\ work.request = request /\ work.catalog = catalog /\ work.selections = selections
             /\ work.runtimes = candidateRuntimes(selections, registered.providers)
  BY Zenon DEF Gated
<1> DEFINE providers == registeredProviders(config).providers
           places == {i \in DOMAIN work.catalog : Eligible(work.catalog[i], request)}
<1>2. providers \in Seq(OwnModels) /\ UniqueAccounts(providers)
  BY RegisteredAre
<1>3. /\ work.catalog = Catalog(providers)
      /\ work.runtimes = candidateRuntimes(work.selections, providers)
      /\ work.selections = Subsequence(work.catalog, places)
  BY <1>1 DEF selectRoutes
<1>4. places \in SUBSET (DOMAIN work.catalog)
  OBVIOUS
<1> HIDE DEF providers, places
<1>5. work.catalog \in Seq(Offers(providers))
  BY <1>2, <1>3, CatalogIs
<1>6. work.selections \in Seq(Offers(providers))
  BY <1>3, <1>4, <1>5, SubsequenceIs
<1> DEFINE selections == work.selections
           runtimes == work.runtimes
<1>7. selections \in Seq(Offers(providers)) /\ runtimes = candidateRuntimes(selections, providers)
  BY <1>3, <1>6
<1> HIDE DEF selections, runtimes
<1>8. /\ DOMAIN runtimes = 1..Len(selections) /\ Len(runtimes) = Len(selections)
      /\ \A k \in 1..Len(selections) :
            \E i \in DOMAIN providers :
               /\ runtimes[k] = [model |-> selections[k], provider |-> providers[i],
                                 order |-> k - 1]
               /\ providers[i].origin = selections[k].origin
  BY <1>2, <1>7, RuntimesAre
<1>9. ASSUME NEW k \in DOMAIN runtimes
      PROVE  /\ runtimes[k].model = selections[k]
             /\ runtimes[k].provider.origin = runtimes[k].model.origin
             /\ runtimes[k].order = k - 1
  <2>1. PICK i \in DOMAIN providers :
           /\ runtimes[k] = [model |-> selections[k], provider |-> providers[i], order |-> k - 1]
           /\ providers[i].origin = selections[k].origin
    BY <1>8
  <2>2. /\ runtimes[k].model = selections[k] /\ runtimes[k].provider = providers[i]
        /\ runtimes[k].order = k - 1
    BY <2>1
  <2> QED
    BY <2>1, <2>2
<1>10. Len(selections) \in Nat /\ work.request \in Requests
  BY <1>1, <1>7
<1> QED
  BY <1>8, <1>9, <1>10 DEF selections, runtimes

(* What passed the gates is called through the account that offered it,    *)
(* and nothing is lost.                                                    *)
THEOREM AccountsAreRight == PathSpec => []RightAccount
<1>1. Gated => RightAccount
  BY GatedRuntimes DEF RightAccount
<1> QED
  BY <1>1, GatedAlways, PTL

(* What a request within a contract may be served by fulfils the contract  *)
(* and nothing more.                                                       *)
LEMMA EligibleWithin ==
    ASSUME NEW request \in Requests, NEW c \in Profiles, IsVirtual(request.model)
    PROVE  LET contract == virtualModel(request.model)
           IN  /\ Eligible(c, request) => Fulfils(c, contract)
               /\ WithinContract(request, contract) /\ Fulfils(c, contract) => Eligible(c, request)
<1> DEFINE v == virtualModel(request.model)
<1>1. v \in VirtualModels
  BY DEF IsVirtual, virtualModel
<1>2. v.context \in Nat /\ v.output \in Nat
  BY <1>1 DEF VirtualModels
<1>3. c.context \in Nat /\ c.output \in Nat /\ c.tier = c.tier
  BY DEF Profiles
<1>4. request.input \in Nat /\ request.output \in Nat
  <2>1. request \in RequestType
    BY GatesAssumption
  <2> QED
    BY <2>1 DEF RequestType
<1> HIDE DEF v
<1>5. ASSUME Eligible(c, request) PROVE Fulfils(c, v)
  <2>1. AllowedVirtual(c, request)
    BY <1>5 DEF Eligible
  <2> QED
    BY <2>1 DEF AllowedVirtual, satisfiesVirtualModel, Fulfils, v
<1>6. ASSUME WithinContract(request, v), Fulfils(c, v) PROVE Eligible(c, request)
  <2>1. request.uses \subseteq v.supports /\ v.supports \subseteq c.supports /\ request.tier = NoTier
    BY <1>6 DEF WithinContract, Fulfils
  <2>2. HasRoom(c, request)
    <3>1. /\ request.output <= v.output /\ v.output <= c.output
          /\ request.input + request.output + Margin <= v.context /\ v.context <= c.context
      BY <1>2, <1>3, <1>6 DEF WithinContract, Fulfils
    <3> QED
      BY <1>2, <1>3, <1>4, <3>1 DEF HasRoom, Margin
  <2>3. Capable(c, request)
    BY <2>1, <2>2 DEF Capable
  <2>4. AllowedVirtual(c, request)
    <3>1. satisfiesVirtualModel(c, v)
      BY <1>6 DEF satisfiesVirtualModel, Fulfils
    <3> QED
      BY <2>1, <3>1 DEF AllowedVirtual, v
  <2> QED
    BY <2>3, <2>4 DEF Eligible
<1> QED
  BY <1>5, <1>6 DEF v

(* A virtual model keeps its promise: nothing but what fulfils it serves   *)
(* it, and all of that within it.                                          *)
THEOREM ContractsAreServed == PathSpec => []ContractServed
<1>1. Gated => ContractServed
  <2> SUFFICES ASSUME Gated, phase = "gated", IsVirtual(work.request.model) PROVE ContractServed
    BY DEF ContractServed
  <2>1. PICK config \in Configurations, request \in Requests :
           LET registered == registeredProviders(config)
               catalog == Catalog(registered.providers)
               selections == selectRoutes(request, catalog)
           IN  /\ work.request = request /\ work.catalog = catalog /\ work.selections = selections
               /\ work.runtimes = candidateRuntimes(selections, registered.providers)
    BY Zenon DEF Gated
  <2> DEFINE providers == registeredProviders(config).providers
             catalog == work.catalog
             selections == work.selections
             contract == virtualModel(request.model)
             places == {i \in DOMAIN catalog : Eligible(catalog[i], request)}
             fulfilling == {i \in DOMAIN catalog : Fulfils(catalog[i], contract)}
  <2>2. providers \in Seq(OwnModels)
    BY RegisteredAre
  <2>3. /\ catalog = Catalog(providers) /\ work.request = request
        /\ selections = Subsequence(catalog, places)
    BY <2>1 DEF selectRoutes
  <2> HIDE DEF providers, catalog
  <2>4. catalog \in Seq(Offers(providers))
    BY <2>2, <2>3, CatalogIs
  <2>5. \A i \in DOMAIN catalog : catalog[i] \in Profiles
    BY <2>4 DEF Offers
  <2>6. IsVirtual(request.model)
    BY <2>3
  <2>7. \A i \in DOMAIN catalog :
           /\ Eligible(catalog[i], request) => Fulfils(catalog[i], contract)
           /\ WithinContract(request, contract) /\ Fulfils(catalog[i], contract)
                => Eligible(catalog[i], request)
    BY <2>5, <2>6, EligibleWithin
  <2> HIDE DEF contract
  <2>8. WithinContract(request, contract) => places = fulfilling
    BY <2>7
  <2>9. places \in SUBSET (DOMAIN catalog) /\ \A i \in places : Fulfils(catalog[i], contract)
    BY <2>7
  <2> HIDE DEF places, fulfilling, selections
  <2>10. \A k \in DOMAIN selections : \E i \in places : selections[k] = catalog[i]
    BY <2>3, <2>4, <2>9, SubsequenceIs
  <2>11. \A c \in Range(selections) : Fulfils(c, contract)
    BY <2>9, <2>10 DEF Range
  <2>12. WithinContract(request, contract) => selections = Subsequence(catalog, fulfilling)
    BY <2>3, <2>8
  <2> QED
    BY <2>3, <2>11, <2>12 DEF ContractServed, contract, selections, catalog, fulfilling
<1> QED
  BY <1>1, GatedAlways, PTL

-----------------------------------------------------------------------------
(* The bounds of the scores.                                               *)

LEMMA QuotientBounds ==
    ASSUME NEW a \in Nat, NEW b \in Nat, 0 < b, NEW c \in Nat, a <= c * b
    PROVE  a \div b \in Nat /\ a \div b <= c
<1> DEFINE q == a \div b
<1>1. q \in Int /\ q * b <= a /\ a < (q + 1) * b
  OBVIOUS
<1> HIDE DEF q
<1>2. 0 <= q
  <2> SUFFICES ASSUME ~(0 <= q) PROVE FALSE
    OBVIOUS
  <2>1. -(q + 1) \in Nat
    BY <1>1
  <2>2. (-(q + 1)) * b \in Nat
    BY <2>1, ProductOfNaturals
  <2>3. (-(q + 1)) * b = -((q + 1) * b) /\ (q + 1) * b \in Int
    BY <1>1
  <2> QED
    BY <1>1, <2>2, <2>3
<1>3. q <= c
  <2> SUFFICES ASSUME ~(q <= c) PROVE FALSE
    OBVIOUS
  <2>1. c + 1 <= q /\ c + 1 \in Nat /\ q \in Nat
    BY <1>1, <1>2
  <2>2. (c + 1) * b <= q * b
    BY <2>1, ProductGrows
  <2>3. (c + 1) * b = c * b + b /\ c * b \in Nat
    BY ProductOfNaturals
  <2>4. q * b \in Nat
    BY <2>1, ProductOfNaturals
  <2> QED
    BY <1>1, <2>2, <2>3, <2>4
<1> QED
  BY <1>1, <1>2, <1>3 DEF q

Headroom == Nat \cup {Unlimited}

LEMMA BestFitBounds ==
    ASSUME NEW available \in Headroom, NEW required \in Nat, 1 <= required
    PROVE  /\ bestFitScore(available, required) \in Nat
           /\ bestFitScore(available, required) <= 50000
<1>1. CASE available = Unlimited
  BY <1>1 DEF bestFitScore, Thousand
<1>2. CASE available # Unlimited /\ available >= required
  <2>1. available \in Nat /\ 0 < available
    BY <1>2 DEF Headroom
  <2>2. 50000 \in Nat /\ 50000 * required \in Nat
    <3>1. 50000 \in Nat
      OBVIOUS
    <3> QED
      BY <3>1, ProductOfNaturals
  <2>3. 50000 * required <= 50000 * available
    BY <1>2, <2>1, <2>2, ProductGrows
  <2>4. (50000 * required) \div available \in Nat /\ (50000 * required) \div available <= 50000
    BY <2>1, <2>2, <2>3, QuotientBounds
  <2>5. bestFitScore(available, required) = (50000 * required) \div available
    BY <1>2 DEF bestFitScore, Thousand
  <2> QED
    BY <2>4, <2>5
<1>3. CASE available # Unlimited /\ ~(available >= required)
  <2>1. available \in Nat /\ available <= required
    BY <1>3 DEF Headroom
  <2>2. 25000 \in Nat /\ 25000 * available \in Nat
    <3>1. 25000 \in Nat
      OBVIOUS
    <3> QED
      BY <2>1, <3>1, ProductOfNaturals
  <2>3. 25000 * available <= 25000 * required
    BY <2>1, <2>2, ProductGrows
  <2>4. (25000 * available) \div required \in Nat /\ (25000 * available) \div required <= 25000
    BY <2>2, <2>3, QuotientBounds
  <2>5. bestFitScore(available, required) = (25000 * available) \div required
    BY <1>3 DEF bestFitScore, Thousand
  <2> QED
    BY <2>4, <2>5
<1> QED
  BY <1>1, <1>2, <1>3

(* A candidate as planAndReserve hands it to the ranking.                  *)
Rankable(c) ==
    /\ c.order \in Nat /\ c.order <= 1000000 /\ c.reserved \in Nat
    /\ c.requests \in Headroom /\ c.tokens \in Headroom
    /\ c.concurrent \in Headroom /\ c.daily \in Headroom

PositiveDemand(d) ==
    /\ d.calls \in Nat /\ 1 <= d.calls /\ d.tokens \in Nat /\ 1 <= d.tokens
    /\ d.concurrency \in Nat /\ 1 <= d.concurrency

HintedRoute(route) ==
    /\ route.expectedCalls \in Int /\ route.estimatedTotalTokens \in Int
    /\ route.maxConcurrency \in Int

LEMMA DemandIs ==
    ASSUME NEW route, HintedRoute(route), NEW candidates,
           candidates # << >> => candidates[1].reserved \in Nat
    PROVE  PositiveDemand(Demand(route, candidates))
<1> DEFINE calls == boundedPositive(route.expectedCalls, 1, 1000)
           concurrency == boundedPositive(route.maxConcurrency, 1, 1000)
           reserved == IF candidates = << >> THEN 0 ELSE candidates[1].reserved
           product == reserved * calls
           fallback == IF product > 0 THEN product ELSE 1
           tokens == boundedPositive(route.estimatedTotalTokens, fallback, 2000000000)
<1>1. calls \in Nat /\ 1 <= calls /\ concurrency \in Nat /\ 1 <= concurrency
  BY DEF boundedPositive, HintedRoute
<1>2. reserved \in Nat
  OBVIOUS
<1> HIDE DEF calls, concurrency, reserved
<1>3. product \in Nat
  BY <1>1, <1>2, ProductOfNaturals
<1> HIDE DEF product
<1>4. fallback \in Nat /\ 1 <= fallback
  BY <1>3
<1> HIDE DEF fallback
<1>5. tokens \in Nat /\ 1 <= tokens
  BY <1>4 DEF boundedPositive, HintedRoute
<1> HIDE DEF tokens
<1>6. Demand(route, candidates) = [calls |-> calls, tokens |-> tokens, concurrency |-> concurrency]
  BY DEF Demand, calls, concurrency, reserved, product, fallback, tokens
<1> QED
  BY <1>1, <1>5, <1>6 DEF PositiveDemand

LEMMA ScoreBounds ==
    ASSUME NEW c, Rankable(c), NEW demand, PositiveDemand(demand), NEW route
    PROVE  /\ score(c, route, demand) \in Int
           /\ workflowFits(c, demand) => score(c, route, demand) >= 8880000
           /\ ~workflowFits(c, demand) => score(c, route, demand) <= 300000
<1> DEFINE a == bestFitScore(c.requests, demand.calls)
           b == bestFitScore(c.tokens, demand.tokens)
           d == bestFitScore(c.daily, demand.tokens)
           e == bestFitScore(c.concurrent, demand.concurrency)
           f == fitScore(c, demand)
           t == tierScore(c, route)
           s == switchingPenalty(c, route)
           o == c.order
<1>1. /\ a \in Nat /\ a <= 50000 /\ b \in Nat /\ b <= 50000
      /\ d \in Nat /\ d <= 50000 /\ e \in Nat /\ e <= 50000
  BY BestFitBounds DEF Rankable, PositiveDemand
<1>2. f = IF workflowFits(c, demand) THEN 10000000 ELSE 0
  BY DEF fitScore, Thousand
<1>3. t \in Nat /\ t <= 100000
  BY DEF tierScore, Thousand
<1>4. s \in Nat /\ s <= 120000
  BY DEF switchingPenalty, Thousand
<1>5. o \in Nat /\ o <= 1000000
  BY DEF Rankable
<1>6. score(c, route, demand) = f + (a + b + d + e) + t - s - o
  BY DEF score, capacityScore
<1> HIDE DEF a, b, d, e, f, t, s, o
<1> QED
  BY <1>1, <1>2, <1>3, <1>4, <1>5, <1>6

Learned(s) ==
    /\ s.success \in 0..100 /\ s.completion \in 0..100
    /\ s.quality \in 0..100 /\ s.rateRisk \in 0..100
    /\ s.latencyPenalty \in Nat /\ s.latencyPenalty <= 5679000
    /\ s.observations \in Nat
    /\ \E k \in 1..(s.observations + 1) : k * k = s.observations + 1

(* What is learned moves a score by less than fit does.                    *)
LEMMA LearnedBounds ==
    ASSUME NEW r, r.score \in Int, NEW s, Learned(s)
    PROVE  /\ learnedScore(r, s) \in Int
           /\ learnedScore(r, s) >= r.score - 6654000
           /\ learnedScore(r, s) <= r.score + 705000
<1> DEFINE n == s.observations + 1
           root == Root(n)
           bonus == 80000 \div root
<1>1. root \in Nat /\ 1 <= root
  <2>1. \E k \in 1..n : k * k = n
    BY DEF Learned
  <2>2. n \in Nat
    BY DEF Learned
  <2> HIDE DEF n
  <2>3. root \in 1..n
    BY <2>1 DEF Root
  <2> HIDE DEF root
  <2> QED
    BY <2>2, <2>3
<1> HIDE DEF root
<1>2. bonus \in Nat /\ bonus <= 80000
  <2>1. 80000 \in Nat /\ 1 \in Nat /\ 0 < root
    BY <1>1
  <2>2. 80000 * 1 <= 80000 * root
    BY <1>1, <2>1, ProductGrows
  <2>3. 80000 <= 80000 * root
    BY <2>2
  <2> QED
    BY <1>1, <2>1, <2>3, QuotientBounds
<1> HIDE DEF bonus
<1>3. learnedScore(r, s)
        = r.score + (s.success - 50) * 3500 + (s.completion - 50) * 6500
            + (s.quality - 50) * 2500 - s.rateRisk * 3500 - s.latencyPenalty + bonus
  BY DEF learnedScore, Thousand, bonus, root
<1> DEFINE score0 == r.score
           p1 == s.success  p2 == s.completion  p3 == s.quality  p4 == s.rateRisk
           p5 == s.latencyPenalty
<1>4. /\ p1 \in 0..100 /\ p2 \in 0..100 /\ p3 \in 0..100 /\ p4 \in 0..100
      /\ p5 \in Nat /\ p5 <= 5679000 /\ score0 \in Int
  BY DEF Learned
<1>5. learnedScore(r, s)
        = score0 + (p1 - 50) * 3500 + (p2 - 50) * 6500
            + (p3 - 50) * 2500 - p4 * 3500 - p5 + bonus
  BY <1>3
<1> HIDE DEF score0, p1, p2, p3, p4, p5
<1>6. /\ learnedScore(r, s) \in Int
      /\ learnedScore(r, s) >= score0 - 6654000
      /\ learnedScore(r, s) <= score0 + 705000
  BY <1>2, <1>4, <1>5
<1> QED
  BY <1>6 DEF score0

(* A set that is listed is finite.                                         *)
LEMMA ListedIsFinite ==
    ASSUME NEW S, NEW n \in Nat, NEW f, f \in [1..n -> S], \A x \in S : \E i \in 1..n : f[i] = x
    PROVE  IsFiniteSet(S)
<1>1. f \in Surjection(1..n, S)
  BY DEF Surjection
<1>2. IsFiniteSet(1..n)
  BY FS_Interval
<1> HIDE DEF Surjection
<1> QED
  BY <1>1, <1>2, FS_Surjection

(* What is known of the two rankings.                                      *)
ByScore(order, m, candidates, n, route, demand) ==
    /\ m \in Nat /\ DOMAIN order = 1..m
    /\ \A k \in 1..m :
          /\ \E i \in 1..n : order[k].candidate = candidates[i]
          /\ order[k].score = score(order[k].candidate, route, demand)
    /\ \A i, j \in 1..m : i < j => order[i].score >= order[j].score

ByLearned(order, m, baseline, n, statistics) ==
    /\ m \in Nat /\ DOMAIN order = 1..m
    /\ \A k \in 1..m :
          \E i \in 1..n :
             /\ order[k].candidate = baseline[i].candidate
             /\ order[k].learned
                  = learnedScore(baseline[i], statistics[baseline[i].candidate.model])
    /\ \A i, j \in 1..m : i < j => order[i].learned >= order[j].learned

(* The deterministic ranking.                                              *)
LEMMA BaselineIs ==
    ASSUME NEW route, NEW candidates, NEW n \in Nat, DOMAIN candidates = 1..n,
           \A i \in 1..n : Rankable(candidates[i]),
           NEW demand, demand = Demand(route, candidates), PositiveDemand(demand),
           NEW order, order = rankCandidates(route, candidates)
    PROVE  \E m : ByScore(order, m, candidates, n, route, demand)
<1> DEFINE place(i) == [candidate |-> candidates[i], score |-> score(candidates[i], route, demand),
                        place |-> i]
           scored == {place(i) : i \in 1..n}
           precedes(a, b) ==
               \/ a.score > b.score
               \/ a.score = b.score /\ a.candidate.order < b.candidate.order
               \/ a.score = b.score /\ a.candidate.order = b.candidate.order /\ a.place < b.place
           before == {p \in scored \X scored : precedes(p[1], p[2])}
<1>1. order = Sorted(scored, before)
  BY DEF rankCandidates
<1>2. ASSUME NEW i \in 1..n
      PROVE  /\ place(i).candidate = candidates[i] /\ place(i).place = i
             /\ place(i).score = score(candidates[i], route, demand)
             /\ place(i).score \in Int /\ place(i).candidate.order \in Int
  <2>1. score(candidates[i], route, demand) \in Int /\ candidates[i].order \in Int
    BY ScoreBounds DEF Rankable
  <2> QED
    BY <2>1
<1>3. \A a, b \in scored : <<a, b>> \in before <=> precedes(a, b)
  OBVIOUS
<1>4. IsFiniteSet(scored)
  <2> DEFINE f == [i \in 1..n |-> place(i)]
  <2>1. f \in [1..n -> scored] /\ \A x \in scored : \E i \in 1..n : f[i] = x
    OBVIOUS
  <2> HIDE DEF f, scored
  <2> QED
    BY <2>1, ListedIsFinite
<1>5. ASSUME NEW x \in scored
      PROVE  \E i \in 1..n : x = place(i)
  OBVIOUS
<1>6. ASSUME NEW x \in scored
      PROVE  /\ x.score \in Int /\ x.candidate.order \in Int /\ x.place \in Int
             /\ x = place(x.place)
             /\ \E i \in 1..n : x.candidate = candidates[i]
             /\ x.score = score(x.candidate, route, demand)
  <2>1. PICK i \in 1..n : x = place(i)
    BY <1>5
  <2>2. i \in Int
    OBVIOUS
  <2> HIDE DEF place
  <2> QED
    BY <1>2, <2>1, <2>2
<1> HIDE DEF scored, before, place
<1>7. IsStrictOrder(before, scored)
  <2>1. \A x \in scored : ~precedes(x, x)
    BY <1>6
  <2>2. ASSUME NEW x \in scored, NEW y \in scored, NEW z \in scored,
               precedes(x, y), precedes(y, z)
        PROVE  precedes(x, z)
    <3>1. /\ x.score \in Int /\ y.score \in Int /\ z.score \in Int
          /\ x.candidate.order \in Int /\ y.candidate.order \in Int /\ z.candidate.order \in Int
          /\ x.place \in Int /\ y.place \in Int /\ z.place \in Int
      BY <1>6
    <3> QED
      BY <2>2, <3>1
  <2>3. ASSUME NEW x \in scored, NEW y \in scored, ~precedes(x, y), ~precedes(y, x) PROVE x = y
    <3>1. x.place = y.place
      BY <1>6, <2>3
    <3> QED
      BY <1>6, <3>1, Zenon
  <2> HIDE DEF precedes
  <2> QED
    BY <1>3, <2>1, <2>2, <2>3 DEF IsStrictOrder
<1> DEFINE m == Cardinality(scored)
<1>8. /\ m \in Nat /\ order \in [1..m -> scored]
      /\ \A i, j \in 1..m : i < j => <<order[i], order[j]>> \in before
  BY <1>1, <1>4, <1>7, SortedIsOrdered
<1> HIDE DEF m
<1>9. DOMAIN order = 1..m /\ \A k \in 1..m : order[k] \in scored
  BY <1>8
<1>10. ASSUME NEW i \in 1..m, NEW j \in 1..m, i < j PROVE order[i].score >= order[j].score
  <2>1. precedes(order[i], order[j])
    BY <1>3, <1>8, <1>9, <1>10
  <2> QED
    BY <1>6, <1>9, <2>1
<1> QED
  BY <1>6, <1>8, <1>9, <1>10 DEF ByScore

(* The learned ranking of such a ranking.                                  *)
LEMMA AdaptiveIs ==
    ASSUME NEW baseline, NEW n \in Nat, DOMAIN baseline = 1..n,
           NEW statistics,
           \A i \in 1..n : /\ baseline[i].score \in Int
                           /\ Learned(statistics[baseline[i].candidate.model]),
           NEW order, order = rankWithStatistics(baseline, statistics)
    PROVE  \E m : ByLearned(order, m, baseline, n, statistics)
<1> DEFINE gain(i) == learnedScore(baseline[i], statistics[baseline[i].candidate.model])
           place(i) == [candidate |-> baseline[i].candidate, score |-> baseline[i].score,
                        learned |-> gain(i), place |-> i]
           learned == {place(i) : i \in 1..n}
           precedes(a, b) ==
               \/ a.learned > b.learned
               \/ a.learned = b.learned /\ a.score > b.score
               \/ a.learned = b.learned /\ a.score = b.score /\ a.place < b.place
           before == {p \in learned \X learned : precedes(p[1], p[2])}
<1>1. order = Sorted(learned, before)
  BY DEF rankWithStatistics
<1>2. ASSUME NEW i \in 1..n
      PROVE  /\ place(i).candidate = baseline[i].candidate /\ place(i).place = i
             /\ place(i).learned = gain(i)
             /\ place(i).learned \in Int /\ place(i).score \in Int
  <2>1. gain(i) \in Int /\ baseline[i].score \in Int
    BY LearnedBounds
  <2> HIDE DEF gain
  <2> QED
    BY <2>1
<1>3. \A a, b \in learned : <<a, b>> \in before <=> precedes(a, b)
  OBVIOUS
<1>4. IsFiniteSet(learned)
  <2> DEFINE f == [i \in 1..n |-> place(i)]
  <2> HIDE DEF gain
  <2>1. f \in [1..n -> learned] /\ \A x \in learned : \E i \in 1..n : f[i] = x
    OBVIOUS
  <2> HIDE DEF f, learned
  <2> QED
    BY <2>1, ListedIsFinite
<1> HIDE DEF gain
<1>5. ASSUME NEW x \in learned
      PROVE  \E i \in 1..n : x = place(i)
  OBVIOUS
<1>6. ASSUME NEW x \in learned
      PROVE  /\ x.learned \in Int /\ x.score \in Int /\ x.place \in Int
             /\ x = place(x.place)
             /\ \E i \in 1..n : x.candidate = baseline[i].candidate /\ x.learned = gain(i)
  <2>1. PICK i \in 1..n : x = place(i)
    BY <1>5
  <2>2. i \in Int
    OBVIOUS
  <2> HIDE DEF place
  <2> QED
    BY <1>2, <2>1, <2>2
<1> HIDE DEF learned, before, place
<1>7. IsStrictOrder(before, learned)
  <2>1. \A x \in learned : ~precedes(x, x)
    BY <1>6
  <2>2. ASSUME NEW x \in learned, NEW y \in learned, NEW z \in learned,
               precedes(x, y), precedes(y, z)
        PROVE  precedes(x, z)
    <3>1. /\ x.learned \in Int /\ y.learned \in Int /\ z.learned \in Int
          /\ x.score \in Int /\ y.score \in Int /\ z.score \in Int
          /\ x.place \in Int /\ y.place \in Int /\ z.place \in Int
      BY <1>6
    <3> QED
      BY <2>2, <3>1
  <2>3. ASSUME NEW x \in learned, NEW y \in learned, ~precedes(x, y), ~precedes(y, x) PROVE x = y
    <3>1. x.place = y.place
      BY <1>6, <2>3
    <3> QED
      BY <1>6, <3>1, Zenon
  <2> HIDE DEF precedes
  <2> QED
    BY <1>3, <2>1, <2>2, <2>3 DEF IsStrictOrder
<1> DEFINE m == Cardinality(learned)
<1>8. /\ m \in Nat /\ order \in [1..m -> learned]
      /\ \A i, j \in 1..m : i < j => <<order[i], order[j]>> \in before
  BY <1>1, <1>4, <1>7, SortedIsOrdered
<1> HIDE DEF m
<1>9. DOMAIN order = 1..m /\ \A k \in 1..m : order[k] \in learned
  BY <1>8
<1>10. ASSUME NEW i \in 1..m, NEW j \in 1..m, i < j PROVE order[i].learned >= order[j].learned
  <2>1. precedes(order[i], order[j])
    BY <1>3, <1>8, <1>9, <1>10
  <2> QED
    BY <1>6, <1>9, <2>1
<1> QED
  BY <1>6, <1>8, <1>9, <1>10 DEF ByLearned, gain

(* The hints of a call are numbers from the moment it has them.            *)
HintedInv ==
    /\ phase \in {"hinted", "gated"} => HintedRoute(work.hints)
    /\ phase = "inspected" =>
          /\ HintedRoute(work.route)
          /\ \E n \in Nat :
                /\ DOMAIN work.candidates = 1..n
                /\ work.candidates # << >> => 1 \in 1..n
                /\ \A i \in 1..n : Rankable(work.candidates[i])
                                   /\ Learned(work.statistics[work.candidates[i].model])

LEMMA ContextIsHinted ==
    ASSUME Specified, phase = "specified", ~work.spec.refused, NEW progress \in Progress
    PROVE  HintedRoute(applyWorkflowContext(work.spec, progress))
<1>1. PICK posted \in Bodies, history \in Histories :
         work = [posted |-> posted,
                 forecast |-> workflowForecast(history.caller, history.global),
                 spec |-> parseWorkflowSpec(posted,
                            Defaults(workflowForecast(history.caller, history.global)))]
  BY DEF Specified
<1> DEFINE forecast == workflowForecast(history.caller, history.global)
           defaults == Defaults(forecast)
           expected == expectedCallsOf(posted, defaults)
           most == maxCallsOf(posted, defaults, expected)
           spec == parseWorkflowSpec(posted, defaults)
<1>2. forecast.expectedCalls \in Nat /\ forecast.maxCalls \in Nat
  BY ForecastIsOrdered
<1>3. /\ posted.expectedCalls \in Counts /\ posted.maxCalls \in Counts
      /\ posted.maxConcurrency \in Counts
  BY WorkflowsAssumption
<1>4. work.spec = spec
  BY <1>1
<1> HIDE DEF forecast
<1>5. defaults.expectedCalls \in Int
  BY <1>2 DEF Defaults, NoForecast, Absent
<1> HIDE DEF defaults
<1>6. expected \in Int
  BY <1>3, <1>5 DEF expectedCallsOf, Or, Counts, Absent, NotAnInteger
<1> HIDE DEF expected, most
<1>7. /\ spec.expectedCalls = expected
      /\ spec.maxConcurrency = Or(posted.maxConcurrency, 1)
      /\ spec.estimatedTotalTokens = TokensPerCall * expected
  BY <1>4 DEF parseWorkflowSpec, Refused, expected
<1> HIDE DEF spec
<1>8. /\ spec.expectedCalls \in Int /\ spec.maxConcurrency \in Int
      /\ spec.estimatedTotalTokens \in Int
  <2>1. TokensPerCall * expected \in Int
    BY <1>6, TokensPerCallAssumption
  <2> QED
    BY <1>3, <1>6, <1>7, <2>1 DEF Or, Counts, Absent, NotAnInteger
<1>9. progress.callsStarted \in Nat /\ progress.actualTokens \in Nat
  BY RankingAssumption
<1> QED
  BY <1>4, <1>8, <1>9 DEF applyWorkflowContext, HintedRoute, AtLeastOne

LEMMA InspectIsRankable ==
    ASSUME Gated, HintedInv, inspect
    PROVE  HintedInv'
<1>0. phase = "gated" /\ phase' = "inspected" /\ HintedRoute(work.hints)
  BY DEF inspect, HintedInv
<1>1. PICK headrooms \in [DOMAIN work.runtimes -> Headrooms],
           learned \in [{work.runtimes[i].model.id : i \in DOMAIN work.runtimes} -> Statistics],
           control \in Controls :
         work' = [route |-> Route(work.hints, work.request),
                  candidates |-> [i \in DOMAIN work.runtimes |->
                      Inspected(work.runtimes[i], work.request, headrooms[i])],
                  statistics |-> learned,
                  control |-> normalizeControl(control)]
  BY DEF inspect
<1> DEFINE n == Len(work.selections)
           runtimes == work.runtimes
           candidate(i) == Inspected(runtimes[i], work.request, headrooms[i])
           candidates == [i \in DOMAIN runtimes |-> candidate(i)]
           route == Route(work.hints, work.request)
           normal == normalizeControl(control)
<1>2. /\ n \in Nat /\ DOMAIN runtimes = 1..n /\ Len(runtimes) = n
      /\ work.request \in Requests
      /\ \A k \in DOMAIN runtimes : runtimes[k].order = k - 1
  BY <1>0, GatedRuntimes
<1>3. n <= 1000000
  <2>1. Len(runtimes) \in 1..MaxRanked
    BY DEF inspect
  <2> HIDE DEF runtimes, n
  <2>2. MaxRanked \in Nat /\ MaxRanked <= 1000000
    BY RankingAssumption DEF Thousand
  <2> QED
    BY <1>2, <2>1, <2>2
<1>4. work.request.input + work.request.output \in Nat
  <2>1. work.request \in RequestType
    BY <1>2, GatesAssumption
  <2> QED
    BY <2>1 DEF RequestType
<1>5. work' = [route |-> route, candidates |-> candidates, statistics |-> learned,
               control |-> normal]
  BY <1>1
<1> HIDE DEF route, candidates, normal
<1>6. work'.route = route /\ work'.candidates = candidates /\ work'.statistics = learned
  BY <1>5
<1>7. HintedRoute(route)
  BY <1>0 DEF HintedRoute, Route, route
<1> HIDE DEF n, runtimes
<1>8. DOMAIN candidates = 1..n /\ \A i \in 1..n : candidates[i] = candidate(i)
  BY <1>2 DEF candidates
<1>9. ASSUME NEW i \in 1..n
      PROVE  /\ Rankable(candidate(i))
             /\ Learned(learned[candidate(i).model])
  <2>1. headrooms[i] \in Headrooms
    BY <1>2 DEF runtimes
  <2>2. /\ headrooms[i].requests \in Headroom /\ headrooms[i].tokens \in Headroom
        /\ headrooms[i].concurrent \in Headroom /\ headrooms[i].daily \in Headroom
    <3>1. headrooms[i] \in [requests : Headroom, tokens : Headroom, concurrent : Headroom,
                            daily : Headroom]
      BY <2>1, RankingAssumption DEF Headroom
    <3> QED
      BY <3>1
  <2>3. /\ candidate(i).model = runtimes[i].model.id
        /\ candidate(i).order = runtimes[i].order
        /\ candidate(i).reserved = work.request.input + work.request.output
        /\ candidate(i).requests = headrooms[i].requests
        /\ candidate(i).tokens = headrooms[i].tokens
        /\ candidate(i).concurrent = headrooms[i].concurrent
        /\ candidate(i).daily = headrooms[i].daily
    BY DEF Inspected
  <2>4. runtimes[i].order = i - 1
    BY <1>2
  <2>5. learned[candidate(i).model] \in Statistics
    BY <1>2, <2>3 DEF runtimes
  <2> HIDE DEF candidate
  <2>6. candidate(i).order \in Nat /\ candidate(i).order <= 1000000
    BY <1>2, <1>3, <2>3, <2>4
  <2>7. Rankable(candidate(i))
    BY <1>4, <2>2, <2>3, <2>6 DEF Rankable
  <2>8. \A s \in Statistics : Learned(s)
    BY RankingAssumption DEF Learned, Thousand
  <2> QED
    BY <2>5, <2>7, <2>8
<1> HIDE DEF candidate
<1>10. \A i \in 1..n : Rankable(candidates[i]) /\ Learned(learned[candidates[i].model])
  BY <1>8, <1>9
<1>11. candidates # << >> => 1 \in 1..n
  <2> SUFFICES ASSUME 1 \notin 1..n PROVE candidates = << >>
    OBVIOUS
  <2>1. 1..n = {}
    BY <1>2
  <2>2. candidates = [i \in {} |-> candidate(i)]
    BY <1>2, <2>1 DEF candidates, candidate, runtimes
  <2> QED
    BY <2>2
<1> QED
  BY <1>0, <1>2, <1>6, <1>7, <1>8, <1>10, <1>11 DEF HintedInv

LEMMA HintedStep ==
    ASSUME Specified, Gated, HintedInv, [PathNext]_path
    PROVE  HintedInv'
<1>1. CASE callInWorkflow
  <2>1. PICK progress \in Progress : work' = [hints |-> applyWorkflowContext(work.spec, progress)]
    BY <1>1 DEF callInWorkflow
  <2>2. HintedRoute(applyWorkflowContext(work.spec, progress))
    BY <1>1, ContextIsHinted DEF callInWorkflow
  <2>3. work'.hints = applyWorkflowContext(work.spec, progress) /\ phase' = "hinted"
    BY <1>1, <2>1 DEF callInWorkflow
  <2>4. HintedRoute(work'.hints)
    BY <2>2, <2>3
  <2> QED
    BY <2>3, <2>4 DEF HintedInv
<1>2. CASE callOutside
  <2>1. work'.hints = NoHints /\ phase' = "hinted"
    BY <1>2 DEF callOutside
  <2>2. HintedRoute(NoHints)
    BY DEF HintedRoute, NoHints, NoHint
  <2>3. HintedRoute(work'.hints)
    BY <2>1, <2>2
  <2> QED
    BY <2>1, <2>3 DEF HintedInv
<1>3. CASE gate
  <2>1. phase = "hinted" /\ phase' \in {"misconfigured", "gated"} /\ work'.hints = work.hints
    BY <1>3 DEF gate
  <2>2. HintedRoute(work'.hints)
    BY <2>1 DEF HintedInv
  <2> QED
    BY <2>1, <2>2 DEF HintedInv
<1>4. CASE inspect
  BY <1>4, InspectIsRankable
<1>5. CASE createWorkflow \/ decide \/ answer
  BY <1>5 DEF createWorkflow, decide, answer, HintedInv
<1>6. CASE UNCHANGED <<phase, work>>
  BY <1>6 DEF HintedInv
<1> QED
  BY <1>1, <1>2, <1>3, <1>4, <1>5, <1>6 DEF PathNext, path

(* Whatever was preferred or learned, an account that can take the whole   *)
(* workflow comes before one that cannot.                                  *)
LEMMA RankingsFitFirst ==
    ASSUME HintedInv, phase = "inspected"
    PROVE  FitDominates
<1> DEFINE route == work.route
           candidates == work.candidates
           statistics == work.statistics
           demand == Demand(route, candidates)
           baseline == rankCandidates(route, candidates)
           adaptive == rankWithStatistics(baseline, statistics)
<1>1. PICK n \in Nat :
         /\ HintedRoute(route)
         /\ DOMAIN candidates = 1..n
         /\ candidates # << >> => 1 \in 1..n
         /\ \A i \in 1..n : Rankable(candidates[i]) /\ Learned(statistics[candidates[i].model])
  BY DEF HintedInv
<1> HIDE DEF route, candidates, statistics
<1>2. PositiveDemand(demand)
  <2>1. candidates # << >> => candidates[1].reserved \in Nat
    BY <1>1 DEF Rankable
  <2> QED
    BY <1>1, <2>1, DemandIs
<1>3. demand = Demand(route, candidates) /\ baseline = rankCandidates(route, candidates)
      /\ adaptive = rankWithStatistics(baseline, statistics)
  OBVIOUS
<1> HIDE DEF demand, baseline, adaptive
<1>4. PICK m : ByScore(baseline, m, candidates, n, route, demand)
  BY <1>1, <1>2, <1>3, BaselineIs
<1> DEFINE fit(ranked) == workflowFits(ranked.candidate, demand)
<1>5. ASSUME NEW k \in 1..m
      PROVE  /\ baseline[k].score \in Int
             /\ fit(baseline[k]) => baseline[k].score >= 8880000
             /\ ~fit(baseline[k]) => baseline[k].score <= 300000
             /\ Learned(statistics[baseline[k].candidate.model])
  <2> DEFINE c == baseline[k].candidate
  <2>1. Rankable(c) /\ Learned(statistics[c.model])
    BY <1>1, <1>4 DEF ByScore
  <2>2. baseline[k].score = score(c, route, demand)
    BY <1>4 DEF ByScore
  <2>3. fit(baseline[k]) <=> workflowFits(c, demand)
    OBVIOUS
  <2> HIDE DEF c
  <2> QED
    BY <1>2, <2>1, <2>2, <2>3, ScoreBounds DEF c
<1>6. \A i, j \in DOMAIN baseline : (i < j /\ fit(baseline[j])) => fit(baseline[i])
  <2> HIDE DEF fit
  <2> QED
    BY <1>4, <1>5 DEF ByScore
<1> HIDE DEF fit
<1>7. \A i \in 1..m : baseline[i].score \in Int /\ Learned(statistics[baseline[i].candidate.model])
  BY <1>5
<1>8. PICK l : ByLearned(adaptive, l, baseline, m, statistics)
  <2>1. m \in Nat /\ DOMAIN baseline = 1..m
    BY <1>4 DEF ByScore
  <2> QED
    BY <1>3, <1>7, <2>1, AdaptiveIs
<1>9. ASSUME NEW k \in 1..l
      PROVE  /\ adaptive[k].learned \in Int
             /\ fit(adaptive[k]) => adaptive[k].learned >= 2226000
             /\ ~fit(adaptive[k]) => adaptive[k].learned <= 1005000
  <2>1. PICK i \in 1..m :
           /\ adaptive[k].candidate = baseline[i].candidate
           /\ adaptive[k].learned
                = learnedScore(baseline[i], statistics[baseline[i].candidate.model])
    BY <1>8 DEF ByLearned
  <2>2. fit(adaptive[k]) <=> fit(baseline[i])
    BY <2>1 DEF fit
  <2>3. /\ adaptive[k].learned \in Int
        /\ adaptive[k].learned >= baseline[i].score - 6654000
        /\ adaptive[k].learned <= baseline[i].score + 705000
    BY <1>5, <2>1, LearnedBounds
  <2> QED
    BY <1>5, <2>2, <2>3
<1>10. \A i, j \in DOMAIN adaptive : (i < j /\ fit(adaptive[j])) => fit(adaptive[i])
  BY <1>8, <1>9 DEF ByLearned
<1>11. Baseline = baseline /\ Adaptive = adaptive
  BY DEF Baseline, Adaptive, baseline, adaptive, route, candidates, statistics
<1>12. \A ranked : Fits(ranked) <=> fit(ranked)
  BY DEF Fits, fit, demand, route, candidates
<1>13. \A order \in {Baseline, Adaptive} : \A i, j \in DOMAIN order :
          (i < j /\ Fits(order[j])) => Fits(order[i])
  BY <1>6, <1>10, <1>11, <1>12
<1> QED
  BY <1>13 DEF FitDominates

(* Neither ranking puts an account that cannot take the whole workflow     *)
(* before one that can.                                                    *)
THEOREM FitsFirst == PathSpec => []FitDominates
<1>1. PathInit => Specified /\ Gated /\ HintedInv
  BY DEF PathInit, Specified, Gated, HintedInv
<1>2. Specified /\ Gated /\ HintedInv /\ [PathNext]_path => (Specified /\ Gated /\ HintedInv)'
  BY SpecifiedStep, GatedStep, HintedStep
<1>3. HintedInv => FitDominates
  BY RankingsFitFirst DEF FitDominates
<1> QED
  BY <1>1, <1>2, <1>3, PTL DEF PathSpec
=============================================================================
