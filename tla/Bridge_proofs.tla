---------------------------- MODULE Bridge_proofs ----------------------------
(***************************************************************************)
(* Proofs about span alignment (AlignTokenSpans) and about the bridge of   *)
(* three streams and the bench of two that use it (TokenizerBridge,        *)
(* SpanBench), for raw inputs and streams of any length, cut in every way, *)
(* and for any calls and jobs.                                             *)
(*                                                                         *)
(* The sweep's loop invariant, SweepInv, says where the cursors stand:     *)
(* every right token behind right_start ends at or before the start of the *)
(* current left token, and every one behind right_end starts before its    *)
(* end.  It holds between the iterations too, because the next left token  *)
(* starts where this one ends.                                             *)
(*                                                                         *)
(* The invariant of bridge and bench, BenchInv, says which streams are     *)
(* validated at each point of the program, and that an alignment, once     *)
(* kept, is the one align_token_spans promises for the streams it is of.   *)
(***************************************************************************)
EXTENDS AlignTokenSpans, SpanBench, SpanLemmas, FiniteSetTheorems

\* What two cursors say of the left token t: exactly the right tokens before
\* s end at or before its start, and exactly those before e start before its
\* end.
Brackets(t, s, e) ==
  /\ \A j \in 1..Len(right.tokens) : j < s <=> right.tokens[j].byte_end <= t.byte_start
  /\ \A j \in 1..Len(right.tokens) : j < e <=> right.tokens[j].byte_start < t.byte_end

\* A record that is right about the left token t.
ExactRecord(t, r) ==
  /\ r.right_start_index \in 1..(Len(right.tokens) + 1)
  /\ r.right_end_index_exclusive \in 1..(Len(right.tokens) + 1)
  /\ r.right_start_index <= r.right_end_index_exclusive
  /\ Brackets(t, r.right_start_index, r.right_end_index_exclusive)
  /\ r.right_token_count = r.right_end_index_exclusive - r.right_start_index
  /\ r.starts_on_right_boundary =
       (/\ r.right_start_index <= Len(right.tokens)
        /\ right.tokens[r.right_start_index].byte_start = t.byte_start)
  /\ r.ends_on_right_boundary =
       IF r.right_end_index_exclusive <= Len(right.tokens)
       THEN right.tokens[r.right_end_index_exclusive].byte_start = t.byte_end
       ELSE t.byte_end = right.raw_len

PairChecked == IF phase \in {"validate_pair", "refused"}
               THEN output = <<>> ELSE SameRaw(left, right)

\* Nothing behind a cursor can intersect the current left token at that end.
BehindCursors ==
  Len(output) < Len(left.tokens) =>
    /\ \A j \in 1..(right_start - 1) :
         right.tokens[j].byte_end <= left_token.byte_start
    /\ \A j \in 1..(right_end - 1) :
         right.tokens[j].byte_start < left_token.byte_end

StartIsSettled == phase = "advance_end" => ~BehindStart /\ right_start <= right_end

RecordsRight ==
  \A i \in 1..Len(output) : ExactRecord(left.tokens[i], output[i])

SweepInv == TypeOK /\ PairChecked /\ BehindCursors /\ StartIsSettled /\ RecordsRight
-----------------------------------------------------------------------------
\* A validated stream: the facts StreamsAssumption gives of each of its tokens.
LEMMA StreamFacts ==
  ASSUME NEW s \in Streams
  PROVE  /\ s.raw_len \in Nat
         /\ s.tokens \in Seq(Span)
         /\ Len(s.tokens) \in Nat
         /\ \A i \in 1..Len(s.tokens) :
              /\ s.tokens[i].byte_start \in Nat
              /\ s.tokens[i].byte_end \in Nat
              /\ s.tokens[i].byte_start < s.tokens[i].byte_end
              /\ s.tokens[i].byte_end <= s.raw_len
         /\ \A i, j \in 1..Len(s.tokens) :
              i < j => s.tokens[i].byte_end <= s.tokens[j].byte_start
         /\ \A i \in 1..Len(s.tokens) :
              i > 1 => s.tokens[i].byte_start = s.tokens[i - 1].byte_end
         /\ Len(s.tokens) = 0 => s.raw_len = 0
         /\ Len(s.tokens) > 0 => /\ s.tokens[1].byte_start = 0
                                 /\ s.tokens[Len(s.tokens)].byte_end = s.raw_len
<1>1. /\ s.raw_len \in Nat
      /\ s.tokens \in Seq(Span)
      /\ Partition(s.tokens, s.raw_len)
  BY StreamsAssumption
<1>2. Len(s.tokens) \in Nat
  BY <1>1
<1>3. \A i \in 1..Len(s.tokens) : /\ s.tokens[i].byte_start \in Nat
                                  /\ s.tokens[i].byte_end \in Nat
  <2>1. \A i \in 1..Len(s.tokens) : s.tokens[i] \in Span
    BY <1>1
  <2> QED
    BY <2>1 DEF Span
<1>4. ASSUME NEW i \in 1..Len(s.tokens)
      PROVE  s.tokens[i].byte_end <= s.raw_len
  <2>1. CASE i = Len(s.tokens)
    BY <1>1, <1>2, <2>1 DEF Partition, Reaches
  <2>2. CASE i < Len(s.tokens)
    <3>1. Len(s.tokens) \in 1..Len(s.tokens)
      BY <1>2
    <3>2. s.tokens[i].byte_end <= s.tokens[Len(s.tokens)].byte_start
      BY <1>1, <2>2, <3>1 DEF Partition, Ordered
    <3>3. s.tokens[Len(s.tokens)].byte_start < s.tokens[Len(s.tokens)].byte_end
      BY <1>1, <3>1 DEF Partition, NonEmptySpans
    <3>4. s.tokens[Len(s.tokens)].byte_end = s.raw_len
      BY <1>1, <1>2 DEF Partition, Reaches
    <3> QED
      BY <1>3, <3>1, <3>2, <3>3, <3>4
  <2> QED
    BY <1>2, <2>1, <2>2
<1> QED
  BY <1>1, <1>2, <1>3, <1>4 DEF Partition, NonEmptySpans, Ordered, Contiguous, Reaches

\* An exact record names the right tokens the promise asks for.
LEMMA ExactIsPromised ==
  ASSUME left \in Streams, right \in Streams, SameRaw(left, right),
         NEW i \in 1..Len(left.tokens), NEW r, ExactRecord(left.tokens[i], r)
  PROVE  /\ AsRecord(r) = Promise!Record(left.tokens[i], right)
         /\ r.right_token_count = Cardinality(CoveredBy(left.tokens[i], right))
<1> DEFINE t == left.tokens[i]
           n == Len(right.tokens)
           a == r.right_start_index
           b == r.right_end_index_exclusive
<1>1. /\ t.byte_start \in Nat
      /\ t.byte_end \in Nat
      /\ t.byte_start < t.byte_end
      /\ t.byte_end <= right.raw_len
  BY StreamFacts DEF SameRaw
<1>2. /\ right.raw_len \in Nat
      /\ n \in Nat
      /\ \A j \in 1..n : /\ right.tokens[j].byte_start \in Nat
                        /\ right.tokens[j].byte_end \in Nat
                        /\ right.tokens[j].byte_start < right.tokens[j].byte_end
                        /\ right.tokens[j].byte_end <= right.raw_len
  BY StreamFacts
<1>3. /\ \A j, k \in 1..n : j < k => right.tokens[j].byte_end <= right.tokens[k].byte_start
      /\ \A j \in 1..n : j > 1 => right.tokens[j].byte_start = right.tokens[j - 1].byte_end
      /\ n = 0 => right.raw_len = 0
      /\ n > 0 => right.tokens[1].byte_start = 0 /\ right.tokens[n].byte_end = right.raw_len
  BY StreamFacts
<1>4. /\ a \in 1..(n + 1)
      /\ b \in 1..(n + 1)
      /\ a <= b
      /\ \A j \in 1..n : j < a <=> right.tokens[j].byte_end <= t.byte_start
      /\ \A j \in 1..n : j < b <=> right.tokens[j].byte_start < t.byte_end
  BY DEF ExactRecord, Brackets
<1>7. /\ Boundaries(right) = {right.tokens[j].byte_start : j \in 1..n} \cup {right.raw_len}
      /\ CoveredBy(t, right) = {j \in 1..n : Intersects(t, right.tokens[j])}
      /\ r.right_token_count = b - a
      /\ r.starts_on_right_boundary = (a <= n /\ right.tokens[a].byte_start = t.byte_start)
      /\ r.ends_on_right_boundary =
           IF b <= n THEN right.tokens[b].byte_start = t.byte_end ELSE t.byte_end = right.raw_len
  BY DEF Boundaries, CoveredBy, ExactRecord
<1> HIDE DEF t, n, a, b
<1>5. CoveredBy(t, right) = a..(b - 1)
  <2>1. ASSUME NEW j \in 1..n
        PROVE  Intersects(t, right.tokens[j]) <=> j \in a..(b - 1)
    BY <1>1, <1>2, <1>4 DEF Intersects
  <2>2. \A j \in a..(b - 1) : j \in 1..n
    BY <1>2, <1>4
  <2> QED
    BY <1>7, <2>1, <2>2
<1>6. Cardinality(a..(b - 1)) = r.right_token_count
  <2>0. a \in Int /\ b - 1 \in Int
    BY <1>2, <1>4
  <2>1. Cardinality(a..(b - 1)) = IF a > b - 1 THEN 0 ELSE (b - 1) - a + 1
    BY <2>0, FS_Interval
  <2> QED
    BY <1>2, <1>4, <1>7, <2>1
<1>8. t.byte_start \in Boundaries(right) <=> (a <= n /\ right.tokens[a].byte_start = t.byte_start)
  <2>1. ASSUME a <= n, right.tokens[a].byte_start = t.byte_start
        PROVE  t.byte_start \in Boundaries(right)
    BY <1>2, <1>4, <1>7, <2>1
  <2>2. ASSUME t.byte_start \in Boundaries(right)
        PROVE  a <= n /\ right.tokens[a].byte_start = t.byte_start
    <3>1. PICK j \in 1..n : right.tokens[j].byte_start = t.byte_start
      <4>1. t.byte_start # right.raw_len
        BY <1>1, <1>2
      <4>2. t.byte_start \in {right.tokens[k].byte_start : k \in 1..n}
        BY <1>7, <2>2, <4>1
      <4> QED
        BY <4>2
    <3>2. ~(j < a)
      <4>1. right.tokens[j].byte_start < right.tokens[j].byte_end
        BY <1>2
      <4>2. ~(right.tokens[j].byte_end <= t.byte_start)
        BY <1>1, <1>2, <3>1, <4>1
      <4> QED
        BY <1>4, <4>2
    <3>3. ~(a < j)
      <4>1. SUFFICES ASSUME a < j PROVE FALSE
        OBVIOUS
      <4>2. right.tokens[a].byte_end <= t.byte_start
        BY <1>2, <1>3, <1>4, <3>1, <4>1
      <4> QED
        BY <1>2, <1>4, <4>1, <4>2
    <3> QED
      BY <1>2, <1>4, <3>1, <3>2, <3>3
  <2> QED
    BY <2>1, <2>2
<1>9. t.byte_end \in Boundaries(right)
        <=> IF b <= n THEN right.tokens[b].byte_start = t.byte_end ELSE t.byte_end = right.raw_len
  <2>1. CASE b <= n
    <3>1. right.tokens[b].byte_start >= t.byte_end
      BY <1>1, <1>2, <1>4, <2>1
    <3>2. t.byte_end < right.raw_len
      BY <1>1, <1>2, <1>4, <2>1, <3>1
    <3>3. ASSUME NEW j \in 1..n, right.tokens[j].byte_start = t.byte_end
          PROVE  j = b
      <4>1. ~(j < b)
        BY <1>1, <1>2, <1>4, <3>3
      <4>2. ~(b < j)
        <5>1. SUFFICES ASSUME b < j PROVE FALSE
          OBVIOUS
        <5>2. right.tokens[b].byte_end <= t.byte_end
          BY <1>3, <1>4, <2>1, <3>3, <5>1
        <5> QED
          BY <1>1, <1>2, <1>4, <2>1, <3>1, <5>2
      <4> QED
        BY <1>2, <1>4, <4>1, <4>2
    <3> QED
      BY <1>1, <1>2, <1>4, <1>7, <2>1, <3>2, <3>3, SMTT(30)
  <2>2. CASE b > n
    BY <1>1, <1>2, <1>4, <1>7, <2>2
  <2> QED
    BY <1>2, <1>4, <2>1, <2>2
<1>10. /\ Promise!CoveredBy(t, right) = a..(b - 1)
       /\ Promise!Boundaries(right) = Boundaries(right)
  BY <1>5 DEF Promise!CoveredBy, CoveredBy, Promise!Boundaries, Boundaries,
     Promise!Intersects, Intersects
<1>11. /\ r.starts_on_right_boundary = (t.byte_start \in Boundaries(right))
       /\ r.ends_on_right_boundary = (t.byte_end \in Boundaries(right))
  BY <1>7, <1>8, <1>9
<1> QED
  BY <1>5, <1>6, <1>10, <1>11 DEF AsRecord, Promise!Record, t, a, b
-----------------------------------------------------------------------------
\* The loop invariant holds before the first step.
LEMMA SweepInitInvariant == SweepInit => SweepInv
<1> SUFFICES ASSUME SweepInit PROVE SweepInv
  OBVIOUS
<1>1. Len(right.tokens) \in Nat /\ Len(left.tokens) \in Nat
  BY StreamFacts DEF SweepInit
<1> QED
  BY <1>1 DEF SweepInit, SweepInv, TypeOK, PairChecked, BehindCursors, StartIsSettled, RecordsRight

\* When the two loops have ended, the cursors bracket exactly the right tokens
\* that intersect the current left token.
LEMMA PushedRecordIsExact ==
  ASSUME SweepInv, Push
  PROVE  /\ Len(output) + 1 \in 1..Len(left.tokens)
         /\ ExactRecord(left.tokens[Len(output) + 1], TokenSpanAlignment)
         /\ TokenSpanAlignment \in AlignmentRecord
<1>1. /\ TypeOK /\ PairChecked /\ BehindCursors /\ StartIsSettled /\ RecordsRight
      /\ left \in Streams /\ right \in Streams
      /\ Len(left.tokens) \in Nat /\ Len(right.tokens) \in Nat
      /\ Len(output) \in Nat /\ right_start \in Nat /\ right_end \in Nat
      /\ Len(output) + 1 \in 1..Len(left.tokens) /\ phase = "advance_end"
  BY StreamFacts DEF SweepInv, TypeOK, Push
<1>2. /\ left_token = left.tokens[Len(output) + 1]
      /\ left_token.byte_start \in Nat /\ left_token.byte_end \in Nat
      /\ left_token.byte_start < left_token.byte_end
  BY <1>1, StreamFacts DEF left_token
<1>3. /\ right_start \in 1..(Len(right.tokens) + 1)
      /\ right_end \in 1..(Len(right.tokens) + 1)
      /\ right_start <= right_end
  BY <1>1 DEF TypeOK, StartIsSettled
<1>4. \A j \in 1..Len(right.tokens) : /\ right.tokens[j].byte_start \in Nat
                                      /\ right.tokens[j].byte_end \in Nat
                                      /\ right.tokens[j].byte_start < right.tokens[j].byte_end
  BY <1>1, StreamFacts
<1>5. \A j, k \in 1..Len(right.tokens) :
        j < k => right.tokens[j].byte_end <= right.tokens[k].byte_start
  BY <1>1, StreamFacts
<1>6. Brackets(left_token, right_start, right_end)
  <2>1. ASSUME NEW j \in 1..Len(right.tokens)
        PROVE  j < right_start <=> right.tokens[j].byte_end <= left_token.byte_start
    <3>1. CASE j < right_start
      BY <1>1, <1>3, <3>1 DEF BehindCursors
    <3>2. CASE j >= right_start
      <4>1. /\ right_start \in 1..Len(right.tokens)
            /\ right.tokens[right_start].byte_end > left_token.byte_start
        BY <1>1, <1>2, <1>4, <1>3, <3>2, SMTT(30) DEF StartIsSettled, BehindStart
      <4>2. right.tokens[right_start].byte_end <= right.tokens[j].byte_end
        <5>1. CASE j = right_start
          BY <1>4, <5>1
        <5>2. CASE right_start < j
          BY <1>4, <1>5, <4>1, <5>2
        <5> QED
          BY <3>2, <4>1, <5>1, <5>2
      <4> QED
        BY <1>4, <1>2, <3>2, <4>1, <4>2
    <3> QED
      BY <1>3, <3>1, <3>2
  <2>2. ASSUME NEW j \in 1..Len(right.tokens)
        PROVE  j < right_end <=> right.tokens[j].byte_start < left_token.byte_end
    <3>1. CASE j < right_end
      BY <1>1, <1>3, <3>1 DEF BehindCursors
    <3>2. CASE j >= right_end
      <4>1. /\ right_end \in 1..Len(right.tokens)
            /\ right.tokens[right_end].byte_start >= left_token.byte_end
        BY <1>4, <1>2, <1>3, <3>2 DEF Push, BeforeEnd
      <4>2. right.tokens[right_end].byte_start <= right.tokens[j].byte_start
        <5>1. CASE j = right_end
          BY <1>4, <5>1
        <5>2. CASE right_end < j
          BY <1>4, <1>5, <4>1, <5>2
        <5> QED
          BY <3>2, <4>1, <5>1, <5>2
      <4> QED
        BY <1>4, <1>2, <3>2, <4>1, <4>2
    <3> QED
      BY <1>3, <3>1, <3>2
  <2> QED
    BY <2>1, <2>2 DEF Brackets
<1>7. ExactRecord(left_token, TokenSpanAlignment)
  BY <1>1, <1>3, <1>6 DEF ExactRecord, TokenSpanAlignment, SaturatingSub,
     StartsOnBoundary, EndsOnBoundary
<1>8. TokenSpanAlignment \in AlignmentRecord
  <2>1. StartsOnBoundary \in BOOLEAN /\ EndsOnBoundary \in BOOLEAN
    BY DEF StartsOnBoundary, EndsOnBoundary
  <2>2. SaturatingSub(right_end, right_start) \in Nat
    BY <1>1, <1>3 DEF SaturatingSub
  <2> QED
    BY <1>1, <2>1, <2>2 DEF TokenSpanAlignment, AlignmentRecord
<1> QED
  BY <1>1, <1>2, <1>7, <1>8

\* Every step of the sweep preserves the loop invariant.
LEMMA SweepNextInvariant == SweepInv /\ [SweepNext \/ SweepTerminated]_sweepVars => SweepInv'
<1> SUFFICES ASSUME SweepInv, [SweepNext \/ SweepTerminated]_sweepVars PROVE SweepInv'
  OBVIOUS
<1>1. /\ TypeOK /\ PairChecked /\ BehindCursors /\ StartIsSettled /\ RecordsRight
      /\ left \in Streams /\ right \in Streams
      /\ Len(left.tokens) \in Nat /\ Len(right.tokens) \in Nat
      /\ Len(output) \in Nat /\ right_start \in Nat /\ right_end \in Nat
  BY StreamFacts DEF SweepInv, TypeOK
<1>2. ASSUME UNCHANGED <<left, right, output>>
      PROVE  RecordsRight'
  BY <1>1, <1>2 DEF RecordsRight, ExactRecord, Brackets
<1>3. ASSUME UNCHANGED <<left, right>>, {phase, phase'} \cap {"validate_pair", "refused"} = {}
      PROVE  PairChecked'
  BY <1>1, <1>3 DEF PairChecked, SameRaw
<1>4. \A i \in 1..Len(left.tokens) : /\ left.tokens[i].byte_start \in Nat
                                     /\ left.tokens[i].byte_end \in Nat
                                     /\ left.tokens[i].byte_start < left.tokens[i].byte_end
  BY <1>1, StreamFacts
<1>5. \A j \in 1..Len(right.tokens) : /\ right.tokens[j].byte_start \in Nat
                                      /\ right.tokens[j].byte_end \in Nat
                                      /\ right.tokens[j].byte_start < right.tokens[j].byte_end
  BY <1>1, StreamFacts
<1>5a. \A j, k \in 1..Len(right.tokens) :
         j < k => right.tokens[j].byte_end <= right.tokens[k].byte_start
  BY <1>1, StreamFacts
<1>6. CASE ValidatePair
  <2>1. TypeOK' /\ StartIsSettled'
    BY <1>1, <1>6 DEF ValidatePair, TypeOK, StartIsSettled
  <2>2. PairChecked'
    BY <1>1, <1>6 DEF ValidatePair, PairChecked, SameRaw
  <2>3. BehindCursors'
    BY <1>1, <1>6 DEF ValidatePair, BehindCursors, left_token
  <2> QED
    BY <1>2, <1>6, <2>1, <2>2, <2>3 DEF ValidatePair, SweepInv
<1>7. CASE NextToken
  <2>1. TypeOK' /\ StartIsSettled'
    BY <1>1, <1>7 DEF NextToken, TypeOK, StartIsSettled
  <2>2. BehindCursors'
    BY <1>1, <1>7 DEF NextToken, BehindCursors, left_token
  <2> QED
    BY <1>2, <1>3, <1>7, <2>1, <2>2 DEF NextToken, SweepInv
<1>8. CASE AdvanceStart
  <2>1. TypeOK' /\ StartIsSettled'
    BY <1>1, <1>8 DEF AdvanceStart, BehindStart, TypeOK, StartIsSettled
  <2>2. BehindCursors'
    BY <1>1, <1>8 DEF AdvanceStart, BehindStart, BehindCursors, left_token
  <2> QED
    BY <1>2, <1>3, <1>8, <2>1, <2>2 DEF AdvanceStart, SweepInv
<1>9. CASE StartSettled
  <2>1. TypeOK' /\ StartIsSettled'
    BY <1>1, <1>9 DEF StartSettled, BehindStart, left_token, TypeOK, StartIsSettled
  <2>2. BehindCursors'
    <3>1. /\ left_token' = left_token
          /\ Len(output) + 1 \in 1..Len(left.tokens)
      BY <1>1, <1>9 DEF StartSettled, left_token, TypeOK, Span
    <3>2. ASSUME NEW j \in 1..(right_start - 1)
          PROVE  right.tokens[j].byte_start < left_token.byte_end
      <4>1. left_token.byte_start \in Nat /\ left_token.byte_end \in Nat
            /\ left_token.byte_start < left_token.byte_end
        BY <1>4, <3>1 DEF left_token
      <4>2. j \in 1..Len(right.tokens)
        BY <1>1 DEF TypeOK
      <4>3. right.tokens[j].byte_end <= left_token.byte_start
        BY <1>1, <3>1 DEF BehindCursors
      <4> QED
        BY <1>5, <4>1, <4>2, <4>3
    <3> QED
      BY <1>1, <1>9, <3>1, <3>2 DEF StartSettled, BehindCursors
  <2> QED
    BY <1>2, <1>3, <1>9, <2>1, <2>2 DEF StartSettled, SweepInv
<1>10. CASE AdvanceEnd
  <2>1. TypeOK' /\ StartIsSettled'
    BY <1>1, <1>10 DEF AdvanceEnd, BeforeEnd, BehindStart, left_token, TypeOK, StartIsSettled
  <2>2. BehindCursors'
    BY <1>1, <1>10 DEF AdvanceEnd, BeforeEnd, BehindCursors, left_token
  <2> QED
    BY <1>2, <1>3, <1>10, <2>1, <2>2 DEF AdvanceEnd, SweepInv
<1>11. CASE Push
  <2> DEFINE i == Len(output) + 1
  <2>1. /\ i \in 1..Len(left.tokens)
        /\ output' = Append(output, TokenSpanAlignment)
        /\ UNCHANGED <<left, right, right_start, right_end>>
        /\ phase = "advance_end" /\ phase' = "next_token"
    BY <1>1, <1>11 DEF Push, TypeOK
  <2>2. /\ left_token = left.tokens[i]
        /\ left_token.byte_start \in Nat /\ left_token.byte_end \in Nat
        /\ left_token.byte_start < left_token.byte_end
    BY <1>4, <2>1 DEF left_token
  <2>3. /\ right_start \in 1..(Len(right.tokens) + 1)
        /\ right_end \in 1..(Len(right.tokens) + 1)
        /\ right_start <= right_end
    BY <1>1, <2>1 DEF TypeOK, StartIsSettled
  <2>5. /\ ExactRecord(left_token, TokenSpanAlignment)
        /\ TokenSpanAlignment \in AlignmentRecord
    BY <1>11, <2>2, PushedRecordIsExact
  <2>6. TypeOK' /\ StartIsSettled'
    <3>2. Len(output') = i /\ output' \in Seq(AlignmentRecord)
      BY <1>1, <2>1, <2>5 DEF TypeOK
    <3> QED
      BY <1>1, <2>1, <2>3, <3>2 DEF TypeOK, StartIsSettled
  <2>7. RecordsRight'
    <3>1. ASSUME NEW k \in 1..i, NEW r, ExactRecord(left.tokens[k], r)
          PROVE  ExactRecord(left.tokens[k], r)'
      BY <2>1, <3>1 DEF ExactRecord, Brackets
    <3>2. ASSUME NEW k \in 1..Len(output')
          PROVE  k \in 1..i /\ ExactRecord(left.tokens[k], output'[k])
      <4>1. CASE k = i
        BY <1>1, <2>1, <2>2, <2>5, <4>1 DEF TypeOK
      <4>2. CASE k # i
        BY <1>1, <2>1, <3>2, <4>2 DEF TypeOK, RecordsRight
      <4> QED
        BY <4>1, <4>2
    <3> QED
      BY <3>1, <3>2 DEF RecordsRight
  <2>8. BehindCursors'
    <3>1. SUFFICES ASSUME i < Len(left.tokens)
                   PROVE  /\ \A j \in 1..(right_start - 1) :
                               right.tokens[j].byte_end <= left.tokens[i + 1].byte_start
                          /\ \A j \in 1..(right_end - 1) :
                               right.tokens[j].byte_start < left.tokens[i + 1].byte_end
      BY <1>1, <2>1 DEF BehindCursors, left_token
    <3>2. /\ left.tokens[i + 1].byte_start = left_token.byte_end
          /\ left.tokens[i + 1].byte_end \in Nat
          /\ left.tokens[i + 1].byte_start < left.tokens[i + 1].byte_end
      <4>1. i + 1 \in 1..Len(left.tokens) /\ i + 1 > 1 /\ (i + 1) - 1 = i
        BY <1>1, <2>1, <3>1
      <4>2. left.tokens[i + 1].byte_start = left.tokens[(i + 1) - 1].byte_end
        BY <1>1, <4>1, StreamFacts
      <4> QED
        BY <1>4, <2>2, <4>1, <4>2
    <3>3. /\ \A j \in 1..(right_start - 1) :
               right.tokens[j].byte_end <= left_token.byte_start
          /\ \A j \in 1..(right_end - 1) :
               right.tokens[j].byte_start < left_token.byte_end
          /\ \A j \in 1..(right_start - 1) : j \in 1..Len(right.tokens)
          /\ \A j \in 1..(right_end - 1) : j \in 1..Len(right.tokens)
      BY <1>1, <2>1, <2>3 DEF BehindCursors
    <3>4. ASSUME NEW j \in 1..(right_start - 1)
          PROVE  right.tokens[j].byte_end <= left.tokens[i + 1].byte_start
      <4>1. right.tokens[j].byte_end <= left_token.byte_start
        BY <3>3
      <4>2. right.tokens[j].byte_end \in Nat
        BY <1>5, <3>3
      <4> HIDE DEF i
      <4> QED
        BY <2>2, <3>2, <4>1, <4>2
    <3>5. ASSUME NEW j \in 1..(right_end - 1)
          PROVE  right.tokens[j].byte_start < left.tokens[i + 1].byte_end
      <4>1. right.tokens[j].byte_start < left_token.byte_end
        BY <3>3
      <4>2. right.tokens[j].byte_start \in Nat
        BY <1>5, <3>3
      <4> HIDE DEF i
      <4> QED
        BY <2>2, <3>2, <4>1, <4>2
    <3> QED
      BY <3>4, <3>5
  <2> QED
    BY <1>3, <2>1, <2>6, <2>7, <2>8 DEF SweepInv
<1>12. CASE UNCHANGED sweepVars
  <2>1. TypeOK' /\ StartIsSettled'
    BY <1>1, <1>12 DEF sweepVars, BehindStart, left_token, TypeOK, StartIsSettled
  <2>2. BehindCursors' /\ PairChecked'
    BY <1>1, <1>12 DEF sweepVars, BehindCursors, left_token, PairChecked, SameRaw
  <2> QED
    BY <1>2, <1>12, <2>1, <2>2 DEF sweepVars, SweepInv
<1> QED
  BY <1>6, <1>7, <1>8, <1>9, <1>10, <1>11, <1>12 DEF SweepNext, SweepTerminated

\* Type correctness of the sweep: in particular neither cursor ever passes one
\* beyond the right stream, so every index the function forms is in bounds.
THEOREM TypeCorrect == SweepSpec => []TypeOK
<1>1. SweepInv => TypeOK
  BY DEF SweepInv
<1> QED
  BY <1>1, SweepInitInvariant, SweepNextInvariant, PTL DEF SweepSpec

\* Every record the sweep pushes is exact: for all validated streams, of any
\* length and cut, each left token is related to the right tokens that share a
\* byte with it, to no other, and its two flags are the boundaries' truth.
THEOREM SweepExact == SweepSpec => []RecordsExact
<1>1. SweepInv => RecordsExact
  <2> SUFFICES ASSUME SweepInv, NEW i \in 1..Len(output)
               PROVE  /\ AsRecord(output[i]) = Promise!Record(left.tokens[i], right)
                      /\ output[i].right_token_count =
                           Cardinality(CoveredBy(left.tokens[i], right))
    BY DEF RecordsExact
  <2>1. /\ left \in Streams /\ right \in Streams
        /\ i \in 1..Len(left.tokens)
        /\ ExactRecord(left.tokens[i], output[i])
    BY StreamFacts DEF SweepInv, TypeOK, RecordsRight
  <2>2. SameRaw(left, right)
    BY DEF SweepInv, PairChecked
  <2> QED
    BY <2>1, <2>2, ExactIsPromised
<1> QED
  BY <1>1, SweepInitInvariant, SweepNextInvariant, PTL DEF SweepSpec

\* Neighbouring records share exactly the right token their common boundary
\* cuts, if it cuts one: no right token is skipped and none is shared twice.
THEOREM NeighboursMeet == SweepSpec => []RecordsMeet
<1>1. SweepInv => RecordsMeet
  <2> SUFFICES ASSUME SweepInv, NEW i \in 1..Len(output), i > 1
               PROVE  /\ output[i].starts_on_right_boundary =
                           output[i - 1].ends_on_right_boundary
                      /\ output[i].right_start_index =
                           IF output[i - 1].ends_on_right_boundary
                           THEN output[i - 1].right_end_index_exclusive
                           ELSE output[i - 1].right_end_index_exclusive - 1
    BY DEF RecordsMeet
  <2> DEFINE n == Len(right.tokens)
             x == left.tokens[i].byte_start
             s == output[i].right_start_index
             e == output[i - 1].right_end_index_exclusive
             starts == output[i].starts_on_right_boundary
             ends == output[i - 1].ends_on_right_boundary
  <2>1. /\ left \in Streams /\ right \in Streams /\ n \in Nat
        /\ i \in 1..Len(left.tokens) /\ i - 1 \in 1..Len(left.tokens)
        /\ ExactRecord(left.tokens[i], output[i])
        /\ ExactRecord(left.tokens[i - 1], output[i - 1])
        /\ SameRaw(left, right)
    BY StreamFacts DEF SweepInv, TypeOK, RecordsRight, PairChecked
  <2>2. /\ x \in Nat /\ x < right.raw_len /\ right.raw_len \in Nat
        /\ x = left.tokens[i - 1].byte_end
    <3>1. /\ x \in Nat /\ left.tokens[i].byte_end \in Nat /\ x < left.tokens[i].byte_end
          /\ left.tokens[i].byte_end <= left.raw_len /\ left.raw_len \in Nat
          /\ x = left.tokens[i - 1].byte_end
      BY <2>1, StreamFacts
    <3> QED
      BY <2>1, <3>1 DEF SameRaw
  <2>3. \A j \in 1..n : /\ right.tokens[j].byte_start \in Nat
                        /\ right.tokens[j].byte_end \in Nat
                        /\ right.tokens[j].byte_start < right.tokens[j].byte_end
    BY <2>1, StreamFacts
  <2>4. /\ \A j, k \in 1..n : j < k => right.tokens[j].byte_end <= right.tokens[k].byte_start
        /\ \A j \in 1..n : j > 1 => right.tokens[j].byte_start = right.tokens[j - 1].byte_end
        /\ n = 0 => right.raw_len = 0
        /\ n > 0 => right.tokens[1].byte_start = 0 /\ right.tokens[n].byte_end = right.raw_len
    BY <2>1, StreamFacts
  <2>5. /\ s \in 1..(n + 1) /\ e \in 1..(n + 1)
        /\ \A j \in 1..n : j < s <=> right.tokens[j].byte_end <= x
        /\ \A j \in 1..n : j < e <=> right.tokens[j].byte_start < x
    BY <2>1, <2>2 DEF ExactRecord, Brackets
  <2>5a. /\ starts <=> (s <= n /\ right.tokens[s].byte_start = x)
         /\ ends <=> IF e <= n THEN right.tokens[e].byte_start = x ELSE x = right.raw_len
    BY <2>1, <2>2, Zenon DEF ExactRecord
  <2>5b. starts \in BOOLEAN /\ ends \in BOOLEAN
    <3>1. output[i] \in AlignmentRecord /\ output[i - 1] \in AlignmentRecord
      BY DEF SweepInv, TypeOK
    <3> QED
      BY <3>1 DEF AlignmentRecord
  <2> HIDE DEF n, x, s, e, starts, ends
  <2>6. CASE e <= n /\ right.tokens[e].byte_start = x
    <3>1. ~(e < s)
      BY <2>2, <2>3, <2>5, <2>6
    <3>2. ~(s < e)
      <4>1. SUFFICES ASSUME s < e PROVE FALSE
        OBVIOUS
      <4>2. s \in 1..n /\ e \in 1..n
        BY <2>1, <2>5, <2>6, <4>1
      <4>3. right.tokens[s].byte_end <= x
        BY <2>4, <2>6, <4>1, <4>2
      <4> QED
        BY <2>1, <2>5, <4>2, <4>3
    <3>3. s = e
      BY <2>1, <2>5, <3>1, <3>2
    <3>4. starts = ends /\ ends = TRUE
      BY <2>5, <2>5a, <2>5b, <2>6, <3>3
    <3> QED
      BY <3>3, <3>4 DEF s, e, starts, ends
  <2>7. CASE ~(e <= n /\ right.tokens[e].byte_start = x)
    <3>1. ends = FALSE
      BY <2>1, <2>2, <2>5, <2>5a, <2>5b, <2>7
    <3>2. e - 1 \in 1..n
      <4>1. n > 0
        BY <2>1, <2>2, <2>4
      <4>2. e # 1
        <5>1. SUFFICES ASSUME e = 1 PROVE FALSE
          OBVIOUS
        <5>2. right.tokens[1].byte_start >= x
          BY <2>1, <2>2, <2>3, <2>5, <4>1, <5>1
        <5> QED
          BY <2>1, <2>2, <2>4, <2>7, <4>1, <5>1, <5>2
      <4> QED
        BY <2>1, <2>5, <4>2
    <3>3. right.tokens[e - 1].byte_start < x
      BY <2>1, <2>5, <3>2
    <3>4. right.tokens[e - 1].byte_end > x
      <4>1. CASE e \in 1..n
        <5>1. right.tokens[e].byte_start = right.tokens[e - 1].byte_end
          BY <2>4, <3>2, <4>1
        <5> QED
          BY <2>2, <2>3, <2>5, <2>7, <4>1, <5>1
      <4>2. CASE e = n + 1
        BY <2>1, <2>2, <2>4, <3>2, <4>2
      <4> QED
        BY <2>1, <2>5, <4>1, <4>2
    <3>5. ~(e - 1 < s)
      BY <2>2, <2>3, <2>5, <3>2, <3>4
    <3>6. ~(s < e - 1)
      <4>1. SUFFICES ASSUME s < e - 1 PROVE FALSE
        OBVIOUS
      <4>2. s \in 1..n
        BY <2>1, <2>5, <3>2, <4>1
      <4>3. right.tokens[s].byte_end <= right.tokens[e - 1].byte_start
        BY <2>4, <3>2, <4>1, <4>2
      <4>4. right.tokens[s].byte_end <= x
        BY <2>2, <2>3, <3>2, <3>3, <4>2, <4>3
      <4> QED
        BY <2>1, <2>5, <4>2, <4>4
    <3>7. s = e - 1
      BY <2>1, <2>5, <3>5, <3>6
    <3>8. starts = FALSE
      BY <2>2, <2>3, <2>5a, <2>5b, <3>2, <3>3, <3>7
    <3> QED
      BY <3>1, <3>7, <3>8 DEF s, e, starts, ends
  <2> QED
    BY <2>6, <2>7
<1> QED
  BY <1>1, SweepInitInvariant, SweepNextInvariant, PTL DEF SweepSpec

\* A finished sweep has passed over the whole right stream, first token to last.
THEOREM SweepCovers == SweepSpec => []SweepComplete
<1>1. SweepInv => SweepComplete
  <2> SUFFICES ASSUME SweepInv, phase = "done", Len(output) > 0
               PROVE  /\ output[1].right_start_index = 1
                      /\ output[1].starts_on_right_boundary
                      /\ output[Len(output)].right_end_index_exclusive = Len(right.tokens) + 1
                      /\ output[Len(output)].ends_on_right_boundary
    BY DEF SweepComplete
  <2> DEFINE n == Len(right.tokens)
             m == Len(left.tokens)
             s == output[1].right_start_index
             e == output[m].right_end_index_exclusive
  <2>1. /\ left \in Streams /\ right \in Streams /\ n \in Nat /\ m \in Nat
        /\ Len(output) = m /\ 1 \in 1..m /\ m \in 1..m
        /\ ExactRecord(left.tokens[1], output[1])
        /\ ExactRecord(left.tokens[m], output[m])
        /\ left.raw_len = right.raw_len
    BY StreamFacts DEF SweepInv, TypeOK, RecordsRight, PairChecked, SameRaw
  <2>2. /\ left.tokens[1].byte_start = 0
        /\ left.tokens[m].byte_end = right.raw_len
        /\ right.raw_len \in Nat /\ right.raw_len > 0
    BY <2>1, StreamFacts
  <2>3. \A j \in 1..n : /\ right.tokens[j].byte_start \in Nat
                        /\ right.tokens[j].byte_end \in Nat
                        /\ right.tokens[j].byte_start < right.tokens[j].byte_end
                        /\ right.tokens[j].byte_end <= right.raw_len
    BY <2>1, StreamFacts
  <2>4. n > 0 /\ right.tokens[1].byte_start = 0
    BY <2>1, <2>2, StreamFacts
  <2>5. /\ s \in 1..(n + 1) /\ e \in 1..(n + 1)
        /\ \A j \in 1..n : j < s <=> right.tokens[j].byte_end <= 0
        /\ \A j \in 1..n : j < e <=> right.tokens[j].byte_start < right.raw_len
    BY <2>1, <2>2 DEF ExactRecord, Brackets
  <2>6. /\ output[1].starts_on_right_boundary
             = (s <= n /\ right.tokens[s].byte_start = left.tokens[1].byte_start)
        /\ output[m].ends_on_right_boundary
             = IF e <= n THEN right.tokens[e].byte_start = left.tokens[m].byte_end
                         ELSE left.tokens[m].byte_end = right.raw_len
    BY <2>1 DEF ExactRecord
  <2> HIDE DEF n, m, s, e
  <2>7. s = 1
    BY <2>1, <2>3, <2>4, <2>5
  <2>8. e = n + 1
    <3>1. ASSUME e \in 1..n PROVE FALSE
      <4>1. right.tokens[e].byte_start < right.raw_len
        BY <2>2, <2>3, <3>1
      <4> QED
        BY <2>1, <2>5, <3>1, <4>1
    <3> QED
      BY <2>1, <2>5, <3>1
  <2>9. s <= n /\ ~(e <= n)
    BY <2>1, <2>4, <2>7, <2>8
  <2>10. output[1].starts_on_right_boundary /\ output[m].ends_on_right_boundary
    BY <2>2, <2>4, <2>6, <2>7, <2>9
  <2> QED
    BY <2>1, <2>7, <2>8, <2>10 DEF n, s, e
<1> QED
  BY <1>1, SweepInitInvariant, SweepNextInvariant, PTL DEF SweepSpec

\* "Their cursors therefore only move forward": no step of the sweep moves a
\* cursor back, or skips a right token except by lifting right_end.
THEOREM CursorsNeverRetreat == SweepSpec => CursorsForward
<1>1. SweepInv /\ [SweepNext \/ SweepTerminated]_sweepVars =>
        [/\ right_start' \in {right_start, right_start + 1}
         /\ right_end' >= right_end
         /\ (right_end' > right_end + 1 => right_end' = right_start)]_sweepVars
  BY DEF SweepInv, TypeOK, SweepNext, SweepTerminated, sweepVars, ValidatePair, NextToken, AdvanceStart,
     StartSettled, AdvanceEnd, Push
<1> QED
  BY <1>1, SweepInitInvariant, SweepNextInvariant, PTL DEF SweepSpec, CursorsForward

\* The sweep implements its promise: every execution, seen through AsRecord,
\* relates each left token in turn to the set of right tokens that intersect
\* it, or refuses two streams of different raw inputs.
THEOREM SweepRefines == SweepSpec => Refines
<1> DEFINE bar == [i \in 1..Len(output) |-> AsRecord(output[i])]
<1>1. SweepInit => Promise!Init
  <2> SUFFICES ASSUME SweepInit PROVE bar = <<>> /\ outcomeBar = "running"
    BY DEF Promise!Init
  <2>1. Len(output) = 0
    BY DEF SweepInit
  <2>2. bar \in Seq({AsRecord(output[i]) : i \in 1..Len(output)}) /\ Len(bar) = 0
    BY <2>1
  <2> QED
    BY <2>2, EmptySeq DEF SweepInit, outcomeBar
<1>2. SweepInv /\ SweepInv' /\ [SweepNext \/ SweepTerminated]_sweepVars => [Promise!Next]_(Promise!absVars)
  <2> SUFFICES ASSUME SweepInv, SweepInv', [SweepNext \/ SweepTerminated]_sweepVars
               PROVE  [Promise!Next]_(Promise!absVars)
    OBVIOUS
  <2>0. /\ Len(output) \in Nat /\ Len(bar) = Len(output)
        /\ Promise!SameRaw(left, right) <=> SameRaw(left, right)
    BY DEF SweepInv, TypeOK, Promise!SameRaw, SameRaw
  <2>1. ASSUME UNCHANGED output PROVE UNCHANGED bar
    BY <2>1 DEF AsRecord
  <2>2. CASE ValidatePair
    BY <2>0, <2>1, <2>2 DEF ValidatePair, outcomeBar, Promise!Next, Promise!Refuse,
       Promise!absVars
  <2>3. CASE NextToken
    <3>1. CASE Len(output) < Len(left.tokens)
      BY <2>1, <2>3, <3>1 DEF NextToken, outcomeBar, Promise!absVars
    <3>2. CASE ~(Len(output) < Len(left.tokens))
      <4>1. Len(bar) = Len(left.tokens) /\ SameRaw(left, right)
        BY <2>0, <2>3, <3>2, StreamFacts DEF NextToken, SweepInv, TypeOK, PairChecked
      <4> QED
        BY <2>0, <2>1, <2>3, <3>2, <4>1 DEF NextToken, outcomeBar, Promise!Next,
           Promise!Finish, Promise!absVars
    <3> QED
      BY <3>1, <3>2
  <2>4. CASE Push
    <3> DEFINE i == Len(output) + 1
               rec == AsRecord(TokenSpanAlignment)
    <3>1. /\ output' = Append(output, TokenSpanAlignment)
          /\ UNCHANGED <<left, right>>
          /\ outcomeBar = "running" /\ outcomeBar' = "running"
      BY <2>4 DEF Push, outcomeBar
    <3>2. /\ left \in Streams /\ right \in Streams
          /\ output \in Seq(AlignmentRecord)
          /\ SameRaw(left, right)
      BY <2>4 DEF Push, SweepInv, TypeOK, PairChecked
    <3>3. /\ i \in 1..Len(left.tokens)
          /\ ExactRecord(left.tokens[i], TokenSpanAlignment)
          /\ TokenSpanAlignment \in AlignmentRecord
      BY <2>4, PushedRecordIsExact
    <3>4. rec = Promise!Record(left.tokens[i], right)
      BY <3>2, <3>3, ExactIsPromised
    <3>5. bar' = Append(bar, rec)
      <4>1. Len(output') = i
        BY <2>0, <3>1, <3>2, <3>3
      <4>2. bar' = [k \in 1..i |-> AsRecord(output'[k])]
        BY <4>1 DEF AsRecord
      <4>3. Append(bar, rec) = [k \in 1..i |-> IF k = i THEN rec ELSE bar[k]]
        BY <2>0
      <4>4. ASSUME NEW k \in 1..i
            PROVE  AsRecord(output'[k]) = IF k = i THEN rec ELSE bar[k]
        BY <2>0, <3>1, <3>2, <3>3
      <4> QED
        BY <4>2, <4>3, <4>4
    <3>6. Promise!AlignNext
      <4>1. Len(bar) < Len(left.tokens) /\ Len(bar) + 1 = i
        BY <2>0, <3>2, <3>3, StreamFacts
      <4>2. bar' = Append(bar, Promise!Record(left.tokens[Len(bar) + 1], right))
        BY <3>4, <3>5, <4>1
      <4> HIDE DEF bar
      <4> QED
        BY <2>0, <3>1, <3>2, <4>1, <4>2 DEF Promise!AlignNext, bar
    <3> QED
      BY <3>6 DEF Promise!Next
  <2>5. CASE AdvanceStart \/ StartSettled \/ AdvanceEnd \/ UNCHANGED sweepVars
    BY <2>1, <2>5 DEF AdvanceStart, StartSettled, AdvanceEnd, sweepVars, outcomeBar,
       Promise!absVars
  <2> QED
    BY <2>2, <2>3, <2>4, <2>5 DEF SweepNext, SweepTerminated
<1> QED
  BY <1>1, <1>2, SweepInitInvariant, SweepNextInvariant, PTL DEF SweepSpec, Refines, Promise!Spec
-----------------------------------------------------------------------------
\* A finished sweep has made the alignment that bridge and bench take of it:
\* one record for every left token, of the tokens it shares bytes with.
FinishedSweepAligns ==
  phase = "done" => [i \in 1..Len(output) |-> AsRecord(output[i])] = Alignment(left, right)

\* What TokenizerBridge and SpanBench take an alignment to be is what the sweep
\* of align_token_spans returns, for every pair of validated streams.
THEOREM SweepGivesAlignment == SweepSpec => []FinishedSweepAligns
<1>1. TypeOK /\ RecordsExact => FinishedSweepAligns
  <2> SUFFICES ASSUME TypeOK, RecordsExact, phase = "done"
               PROVE  [i \in 1..Len(output) |-> AsRecord(output[i])] = Alignment(left, right)
    BY DEF FinishedSweepAligns
  <2>1. Len(output) = Len(left.tokens)
    BY DEF TypeOK
  <2>2. \A t, s : Promise!Record(t, s) = Record(t, s)
    BY DEF Promise!Record, Promise!CoveredBy, Promise!Intersects, Promise!Boundaries,
           Record, CoveredBy, Intersects, Boundaries
  <2>3. \A i \in 1..Len(left.tokens) : AsRecord(output[i]) = Record(left.tokens[i], right)
    BY <2>1, <2>2 DEF RecordsExact
  <2> QED
    BY <2>1, <2>3 DEF Alignment
<1> QED
  BY <1>1, TypeCorrect, SweepExact, PTL
-----------------------------------------------------------------------------

ArgsOK == raw \in Bytes /\ {source, du, target} \subseteq TokenizerStream

\* Where the program stands, the streams it has validated are well formed.
ValidatedOK ==
  /\ pc \notin {"validate_source", "failed", "stopped"} => WellFormed(source, raw)
  /\ pc \in {"align", "report", "done"} \/ (~Benching /\ pc = "validate_target") =>
       WellFormed(du, raw)
  /\ pc \notin {"validate_source", "validate_du", "validate_target", "failed", "stopped"} =>
       WellFormed(target, raw)

\* The alignments of a bridge, and what it reports, are of the three streams.
BridgeOK ==
  /\ pc \in {"report", "done"} =>
       /\ source_to_du = Alignment(source, du)
       /\ du_to_target = Alignment(du, target)
       /\ target_to_du = Alignment(target, du)
  /\ report.written =>
       /\ pc = "done"
       /\ report.source_exact /\ report.du_exact /\ report.target_exact
       /\ report.source_to_du = BoundaryCrossStats(source, du, source_to_du)
       /\ report.du_to_target = BoundaryCrossStats(du, target, du_to_target)
       /\ report.target_to_du = BoundaryCrossStats(target, du, target_to_du)

\* A call that failed says truly which stream is at fault.
FailureOK ==
  pc = "failed" =>
    \/ error = "validate_source" /\ ~WellFormed(source, raw)
    \/ error = "validate_du" /\ WellFormed(source, raw) /\ ~WellFormed(du, raw)
    \/ error = "validate_target" /\ WellFormed(source, raw) /\ ~WellFormed(target, raw)

\* A round that is begun is one of those asked for, so one is the last.
RoundsOK ==
  /\ job \in [warmup : Nat, reps : Nat, output : BOOLEAN]
  /\ (Benching /\ pc = "validate_target") \/ pc \in {"reconstruct", "align_forward", "align_backward"} =>
       job.reps > 0
  /\ IF pc \in {"align_forward", "align_backward"}
     THEN rounds \in Nat /\ rounds < job.warmup + job.reps
     ELSE pc \in {"failed", "stopped"} \/ rounds = 0

\* What the last round of a direction leaves is its alignment, and a complete
\* receipt is of both.
KeptOK ==
  /\ pc \in {"align_backward", "hash_files", "create_receipt", "write_receipt", "measured"} =>
       source_to_target = Alignment(source, target)
  /\ pc \in {"hash_files", "create_receipt", "write_receipt", "measured"} =>
       target_to_source = Alignment(target, source)
  /\ receipt.file = "complete" =>
       /\ pc = "measured"
       /\ receipt.source_to_target = AlignmentStats(source_to_target)
       /\ receipt.target_to_source = AlignmentStats(target_to_source)

BenchInv == ArgsOK /\ ValidatedOK /\ BridgeOK /\ FailureOK /\ RoundsOK /\ KeptOK
-----------------------------------------------------------------------------
\* A stream that names the raw bytes says so of every other that does.
LEMMA WellFormedSameRaw ==
  ASSUME WellFormed(source, raw), WellFormed(du, raw), WellFormed(target, raw)
  PROVE  SameRaw(source, du) /\ SameRaw(du, target)
BY DEF WellFormed, SameRaw

\* Every call satisfies the invariant when it begins.
LEMMA InitInvariant == BenchInit => BenchInv
<1> SUFFICES ASSUME BenchInit PROVE BenchInv
  OBVIOUS
<1>1. ArgsOK
  BY CallsAssumption DEF BenchInit, Init, ArgsOK
<1>2. job \in [warmup : Nat, reps : Nat, output : BOOLEAN]
  <2>1. job = NoJob \/ job \in Jobs
    BY DEF BenchInit
  <2>2. NoJob \in [warmup : Nat, reps : Nat, output : BOOLEAN]
    BY DEF NoJob
  <2> QED
    BY <2>1, <2>2, JobsAssumption
<1>3. receipt \in {Absent, Older} /\ receipt.file # "complete"
  BY DEF BenchInit, Absent, Older
<1>4. RoundsOK /\ KeptOK
  BY <1>2, <1>3 DEF BenchInit, Init, RoundsOK, KeptOK
<1> QED
  BY <1>1, <1>2, <1>3, <1>4 DEF BenchInit, Init, BenchInv, ValidatedOK, BridgeOK, FailureOK, NoReport

\* What a bridge leaves alone of a bench.
LEMMA BridgeKeeps ==
  ASSUME RoundsOK, KeptOK, ~Benching, UNCHANGED <<job, rounds, kept, receipt, args>>,
         pc \notin {"reconstruct", "align_forward", "align_backward", "hash_files",
                    "create_receipt", "write_receipt", "measured"},
         pc' \in {"validate_du", "validate_target", "align", "report", "done", "failed"},
         pc \notin {"failed", "stopped"}
  PROVE  RoundsOK' /\ KeptOK'
BY DEF RoundsOK, KeptOK, Benching, kept, args

\* Counting the rounds around starts over exactly at the last.
LEMMA RoundStep ==
  ASSUME NEW n \in Nat, NEW k \in Nat, k < n
  PROVE  (k + 1) % n = IF k + 1 = n THEN 0 ELSE k + 1
OBVIOUS

\* Every step preserves it.
LEMMA NextInvariant == BenchInv /\ [BenchNext \/ BenchTerminated]_benchVars => BenchInv'
<1> SUFFICES ASSUME BenchInv, [BenchNext \/ BenchTerminated]_benchVars PROVE BenchInv'
  OBVIOUS
<1> USE DEF BenchInv
<1>1. CASE ~Benching /\ Next /\ UNCHANGED <<job, rounds, kept, receipt>>
  <2> UNCHANGED job /\ ~Benching /\ ~Benching'
    BY <1>1 DEF Benching
  <2>1. CASE ValidateSource
    <3>1. RoundsOK' /\ KeptOK'
      BY <1>1, <2>1, BridgeKeeps DEF ValidateSource, Validate
    <3> QED
      BY <2>1, <3>1
         DEF ValidateSource, Validate, args, alignments, ArgsOK, ValidatedOK, BridgeOK, FailureOK
  <2>2. CASE ValidateDu
    <3>1. RoundsOK' /\ KeptOK'
      BY <1>1, <2>2, BridgeKeeps DEF ValidateDu, Validate
    <3> QED
      BY <2>2, <3>1
         DEF ValidateDu, Validate, args, alignments, ArgsOK, ValidatedOK, BridgeOK, FailureOK
  <2>3. CASE ValidateTarget
    <3>1. RoundsOK' /\ KeptOK'
      BY <1>1, <2>3, BridgeKeeps DEF ValidateTarget, Validate
    <3> QED
      BY <2>3, <3>1
         DEF ValidateTarget, Validate, args, alignments, ArgsOK, ValidatedOK, BridgeOK, FailureOK
  <2>4. CASE Align
    <3>1. SameRaw(source, du) /\ SameRaw(du, target)
      BY <2>4, WellFormedSameRaw DEF Align, ValidatedOK
    <3>2. RoundsOK' /\ KeptOK'
      BY <1>1, <2>4, BridgeKeeps DEF Align
    <3> QED
      BY <2>4, <3>1, <3>2 DEF Align, args, ArgsOK, ValidatedOK, BridgeOK, FailureOK
  <2>5. CASE Report
    <3>1. /\ Reconstruct(source.tokens) = raw
          /\ Reconstruct(du.tokens) = raw
          /\ Reconstruct(target.tokens) = raw
      BY <2>5, WellFormedReconstructs DEF Report, ArgsOK, ValidatedOK
    <3>2. RoundsOK' /\ KeptOK'
      BY <1>1, <2>5, BridgeKeeps DEF Report
    <3> QED
      BY <2>5, <3>1, <3>2 DEF Report, args, alignments, ArgsOK, ValidatedOK, BridgeOK, FailureOK
  <2> QED
    BY <1>1, <2>1, <2>2, <2>3, <2>4, <2>5 DEF Next
<1>2. CASE CheckReps \/ FileFails
  BY <1>2 DEF CheckReps, FileFails, Stop, args, alignments, kept, ArgsOK, ValidatedOK, BridgeOK,
              FailureOK, RoundsOK, KeptOK, Benching
<1>3. CASE ImportSource
  BY <1>3 DEF ImportSource, Validate, args, alignments, kept, ArgsOK, ValidatedOK, BridgeOK,
              FailureOK, RoundsOK, KeptOK, Benching
<1>4. CASE ImportTarget
  BY <1>4 DEF ImportTarget, Validate, args, alignments, kept, ArgsOK, ValidatedOK, BridgeOK,
              FailureOK, RoundsOK, KeptOK, Benching
<1>5. CASE CheckExact
  BY <1>5 DEF CheckExact, Stop, args, alignments, kept, ArgsOK, ValidatedOK, BridgeOK, FailureOK,
              RoundsOK, KeptOK, Benching
<1>6. CASE AlignForward
  <2>1. job.warmup + job.reps \in Nat /\ rounds \in Nat /\ rounds < job.warmup + job.reps
    BY <1>6 DEF AlignForward, Round, RoundsOK
  <2>2. /\ IsLast => rounds' = 0 /\ pc' = "align_backward"
        /\ ~IsLast => /\ rounds' \in Nat \ {0} /\ rounds' < job.warmup + job.reps
                      /\ pc' = "align_forward"
    BY <1>6, <2>1, RoundStep DEF AlignForward, Round, IsLast
  <2> QED
    BY <1>6, <2>1, <2>2 DEF AlignForward, Round, args, alignments, ArgsOK, ValidatedOK, BridgeOK,
                FailureOK, RoundsOK, KeptOK, Benching
<1>7. CASE AlignBackward
  <2>1. job.warmup + job.reps \in Nat /\ rounds \in Nat /\ rounds < job.warmup + job.reps
    BY <1>7 DEF AlignBackward, Round, RoundsOK
  <2>2. /\ IsLast => rounds' = 0 /\ pc' = "hash_files"
        /\ ~IsLast => /\ rounds' \in Nat \ {0} /\ rounds' < job.warmup + job.reps
                      /\ pc' = "align_backward"
    BY <1>7, <2>1, RoundStep DEF AlignBackward, Round, IsLast
  <2> QED
    BY <1>7, <2>1, <2>2 DEF AlignBackward, Round, args, alignments, ArgsOK, ValidatedOK, BridgeOK,
                FailureOK, RoundsOK, KeptOK, Benching
<1>8. CASE HashFiles \/ CreateReceipt \/ WriteReceipt
  <2>1. Torn.file # "complete"
    BY DEF Torn
  <2>2. CASE WriteReceipt
    <3>1. /\ receipt'.file = "complete"
          /\ receipt'.source_to_target = AlignmentStats(source_to_target)
          /\ receipt'.target_to_source = AlignmentStats(target_to_source)
      BY <2>2 DEF WriteReceipt
    <3>2. UNCHANGED <<source_to_target, target_to_source>>
      BY <2>2 DEF WriteReceipt, kept
    <3>3. /\ AlignmentStats(source_to_target)' = AlignmentStats(source_to_target)
          /\ AlignmentStats(target_to_source)' = AlignmentStats(target_to_source)
      BY <3>2 DEF AlignmentStats, Exact
    <3> QED
      BY <2>2, <3>1, <3>2, <3>3 DEF WriteReceipt, args, alignments, ArgsOK, ValidatedOK,
                BridgeOK, FailureOK, RoundsOK, KeptOK, Benching
  <2>3. CASE HashFiles \/ CreateReceipt
    BY <2>1, <2>3 DEF HashFiles, CreateReceipt, args, alignments, kept, ArgsOK, ValidatedOK,
                BridgeOK, FailureOK, RoundsOK, KeptOK, Benching
  <2> QED
    BY <1>8, <2>2, <2>3
<1>9. CASE BenchTerminated \/ UNCHANGED benchVars
  BY <1>9 DEF BenchTerminated, benchVars, vars, args, alignments, kept, ArgsOK, ValidatedOK,
              BridgeOK, FailureOK, RoundsOK, KeptOK, Benching
<1> QED
  BY <1>1, <1>2, <1>3, <1>4, <1>5, <1>6, <1>7, <1>8, <1>9 DEF BenchNext

\* BenchInv holds in every state of every bridge and every bench.
THEOREM InvariantHolds == BenchSpec => []BenchInv
<1>1. BenchInit => BenchInv
  BY InitInvariant
<1>2. BenchInv /\ [BenchNext \/ BenchTerminated]_benchVars => BenchInv'
  BY NextInvariant
<1> QED
  BY <1>1, <1>2, PTL DEF BenchSpec
-----------------------------------------------------------------------------
\* bridge_tokenizer_streams reports only streams that carry the raw bytes, and
\* says of them that they do; a call that fails names the first malformed one.
THEOREM OnlyExactReported == BenchSpec => []ReportsOnlyExact
<1>1. BenchInv => ReportsOnlyExact
  BY DEF BenchInv, ValidatedOK, BridgeOK, FailureOK, ReportsOnlyExact
<1> QED
  BY <1>1, InvariantHolds, PTL

\* Following source tokens through the DU of a bridge to the target reaches every
\* target token that shares a byte with them, and no other where the source
\* token ends on DU boundaries at both sides.
THEOREM NothingLostThroughDu == BenchSpec => []ThroughDu
<1>1. BenchInv => ThroughDu
  <2> SUFFICES ASSUME BenchInv, report.written, NEW i \in DOMAIN source_to_du
               PROVE  LET reached == UNION {du_to_target[k].covered : k \in source_to_du[i].covered}
                          direct  == CoveredBy(source.tokens[i], target)
                      IN  /\ direct \subseteq reached
                          /\ (source_to_du[i].starts /\ source_to_du[i].ends) => reached = direct
    BY DEF ThroughDu
  <2>1. /\ raw \in Bytes
        /\ source \in TokenizerStream /\ WellFormed(source, raw)
        /\ du \in TokenizerStream /\ WellFormed(du, raw)
        /\ target \in TokenizerStream /\ WellFormed(target, raw)
        /\ source_to_du = Alignment(source, du) /\ du_to_target = Alignment(du, target)
    BY DEF BenchInv, ArgsOK, ValidatedOK, BridgeOK
  <2>2. /\ i \in 1..Len(source.tokens)
        /\ source_to_du[i] = Record(source.tokens[i], du)
        /\ \A k \in 1..Len(du.tokens) : du_to_target[k] = Record(du.tokens[k], target)
    BY <2>1 DEF Alignment
  <2> DEFINE reached == UNION {du_to_target[k].covered : k \in source_to_du[i].covered}
             direct  == CoveredBy(source.tokens[i], target)
  <2>3. /\ source_to_du[i].covered = CoveredBy(source.tokens[i], du)
        /\ \A k \in 1..Len(du.tokens) : du_to_target[k].covered = CoveredBy(du.tokens[k], target)
    BY <2>2, RecordFields
  <2>4. ASSUME NEW j \in direct PROVE j \in reached
    <3>1. j \in 1..Len(target.tokens) /\ Intersects(source.tokens[i], target.tokens[j])
      BY <2>4 DEF CoveredBy
    <3>2. PICK k \in 1..Len(du.tokens) : /\ Intersects(source.tokens[i], du.tokens[k])
                                         /\ Intersects(du.tokens[k], target.tokens[j])
      BY <2>1, <2>2, <3>1, SharedThrough, ZenonT(30)
    <3>3. k \in source_to_du[i].covered /\ j \in du_to_target[k].covered
      BY <2>3, <3>1, <3>2 DEF CoveredBy
    <3> QED
      BY <3>3
  <2>5. ASSUME source_to_du[i].starts, source_to_du[i].ends, NEW j \in reached
        PROVE  j \in direct
    <3>1. PICK k \in source_to_du[i].covered : j \in du_to_target[k].covered
      BY <2>5
    <3>2. /\ k \in 1..Len(du.tokens) /\ Intersects(source.tokens[i], du.tokens[k])
          /\ j \in 1..Len(target.tokens) /\ Intersects(du.tokens[k], target.tokens[j])
      BY <2>3, <3>1 DEF CoveredBy
    <3>3. /\ source.tokens[i].byte_start \in Boundaries(du)
          /\ source.tokens[i].byte_end \in Boundaries(du)
      BY <2>2, <2>5, RecordFields
    <3>4. /\ source.tokens[i].byte_start <= du.tokens[k].byte_start
          /\ du.tokens[k].byte_end <= source.tokens[i].byte_end
      BY <2>1, <2>2, <3>2, <3>3, ExactContains
    <3>5. /\ source.tokens[i].byte_start \in Nat /\ source.tokens[i].byte_end \in Nat
          /\ du.tokens[k].byte_start \in Nat /\ du.tokens[k].byte_end \in Nat
          /\ target.tokens[j].byte_start \in Nat /\ target.tokens[j].byte_end \in Nat
      BY <2>1, <2>2, <3>2, WellFormedFacts
    <3>6. Intersects(source.tokens[i], target.tokens[j])
      BY <3>2, <3>4, <3>5, SMTT(30) DEF Intersects
    <3> QED
      BY <3>2, <3>6 DEF CoveredBy
  <2> QED
    BY <2>4, <2>5
<1> QED
  BY <1>1, InvariantHolds, PTL
-----------------------------------------------------------------------------
\* What is left of a finite set without some of its members.
LEMMA SizeOfRest ==
  ASSUME NEW D, IsFiniteSet(D), NEW S \in SUBSET D
  PROVE  Cardinality(D \ S) = Cardinality(D) - Cardinality(S)
<1>1. IsFiniteSet(S) /\ IsFiniteSet(D \ S)
  BY FS_Subset
<1>2. S \cup (D \ S) = D /\ S \cap (D \ S) = {}
  OBVIOUS
<1>3. Cardinality(D) = Cardinality(S) + Cardinality(D \ S) - 0
  BY <1>1, <1>2, FS_Union, FS_EmptySet
<1> QED
  BY <1>1, <1>3, FS_CardinalityType

\* How many starts two streams share, and how many left tokens of an alignment
\* start, end or stay inside a right one.
SharedStarts(l, r) == Cardinality(Starts(l) \cap Starts(r))
StartInside(a) == Cardinality({i \in DOMAIN a : ~a[i].starts})
EndInside(a) == Cardinality({i \in DOMAIN a : ~a[i].ends})
Crossing(a) == Cardinality(DOMAIN a \ Exact(a))

\* The alignment of two well-formed streams of the same bytes relates exactly
\* their overlapping pairs, and its counts follow from how many tokens the streams
\* have and how many starts they share.
LEMMA Counts ==
  ASSUME NEW bytes \in Bytes,
         NEW l \in TokenizerStream, WellFormed(l, bytes),
         NEW r \in TokenizerStream, WellFormed(r, bytes),
         NEW a, a = Alignment(l, r)
  PROVE  /\ Len(l.tokens) \in Nat /\ Len(r.tokens) \in Nat
         /\ SharedStarts(l, r) \in Nat /\ SharedStarts(l, r) = SharedStarts(r, l)
         /\ Len(a) = Len(l.tokens)
         /\ StartInside(a) = Len(l.tokens) - SharedStarts(l, r)
         /\ EndInside(a) = Len(l.tokens) - SharedStarts(l, r)
         /\ Cardinality(Exact(a)) \in Nat
         /\ Crossing(a) = Len(l.tokens) - Cardinality(Exact(a))
         /\ Cardinality(Pairs(a)) = Len(l.tokens) + Len(r.tokens) - SharedStarts(l, r)
<1> DEFINE shared == SharedStarts(l, r)
           len == Len(l.tokens)
           D == 1..len
           startIn == {i \in D : l.tokens[i].byte_start \in Boundaries(r)}
<1>1. len \in Nat /\ Len(r.tokens) \in Nat
  BY WellFormedFacts
<1>2. DOMAIN a = D /\ Len(a) = len
  BY <1>1 DEF Alignment
<1>3. ASSUME NEW i \in D
      PROVE  /\ a[i].covered = CoveredBy(l.tokens[i], r)
             /\ a[i].starts <=> l.tokens[i].byte_start \in Boundaries(r)
             /\ a[i].ends <=> l.tokens[i].byte_end \in Boundaries(r)
  <2>1. a[i] = Record(l.tokens[i], r)
    BY DEF Alignment
  <2> QED
    BY <2>1, RecordFields
<1>4. IsFiniteSet(D) /\ Cardinality(D) = len
  <2>1. len \in Int /\ 1 \in Int /\ len >= 0
    BY <1>1
  <2> HIDE DEF len
  <2> QED
    BY <2>1, FS_Interval
<1>5. IsFiniteSet(startIn) /\ Cardinality(startIn) = shared /\ shared \in Nat
  <2>1. startIn \in SUBSET D
    OBVIOUS
  <2>2. Cardinality(startIn) = shared
    BY SharedCount DEF SharedStarts
  <2> HIDE DEF startIn, D, shared
  <2>3. IsFiniteSet(startIn)
    BY <1>4, <2>1, FS_Subset
  <2> QED
    BY <2>2, <2>3, FS_CardinalityType
<1>6. {i \in DOMAIN a : ~a[i].starts} = D \ startIn
  BY <1>2, <1>3
<1>7. Cardinality(D \ startIn) = len - shared
  <2>1. startIn \in SUBSET D
    OBVIOUS
  <2> HIDE DEF startIn, D, shared
  <2> QED
    BY <1>4, <1>5, <2>1, SizeOfRest
<1>8. EndInside(a) = len - shared
  <2>1. {i \in DOMAIN a : ~a[i].ends} = {i \in D : l.tokens[i].byte_end \notin Boundaries(r)}
    BY <1>2, <1>3
  <2>2. D \ startIn = {i \in D : l.tokens[i].byte_start \notin Boundaries(r)}
    OBVIOUS
  <2> QED
    BY <1>7, <2>1, <2>2, InsideCount, ZenonT(40) DEF EndInside
<1>9. /\ Cardinality(Exact(a)) \in Nat
      /\ Cardinality(D \ Exact(a)) = len - Cardinality(Exact(a))
  <2>1. Exact(a) \in SUBSET D
    BY <1>2 DEF Exact
  <2> HIDE DEF D, len
  <2>2. IsFiniteSet(Exact(a))
    BY <1>4, <2>1, FS_Subset
  <2> QED
    BY <1>4, <2>1, <2>2, FS_CardinalityType, SizeOfRest
<1>10. Pairs(a) = Overlaps(l, r)
  BY <1>2, <1>3 DEF Pairs, Overlaps, CoveredBy
<1>11. Cardinality(Pairs(a)) = len + Len(r.tokens) - shared
  BY <1>10, OverlapCount DEF SharedStarts
<1>12. Starts(l) \cap Starts(r) = Starts(r) \cap Starts(l)
  OBVIOUS
<1>13. SharedStarts(l, r) = SharedStarts(r, l)
  BY <1>12, Zenon DEF SharedStarts
<1>14. StartInside(a) = len - shared
  BY <1>6, <1>7, Zenon DEF StartInside
<1>15. Crossing(a) = len - Cardinality(Exact(a))
  BY <1>2, <1>9, Zenon DEF Crossing
<1> HIDE DEF len, shared, D
<1> QED
  BY <1>1, <1>2, <1>5, <1>8, <1>9, <1>11, <1>13, <1>14, <1>15 DEF len, shared

\* The statistics the bridge makes of an alignment.
LEMMA BridgeStats ==
  ASSUME NEW bytes \in Bytes,
         NEW l \in TokenizerStream, WellFormed(l, bytes),
         NEW r \in TokenizerStream, WellFormed(r, bytes),
         NEW a, a = Alignment(l, r),
         NEW b, b = BoundaryCrossStats(l, r, a)
  PROVE  /\ b.start_inside = b.end_inside
         /\ b.left_token_count = Len(l.tokens) /\ b.right_token_count = Len(r.tokens)
         /\ b.exact + b.cross_or_cut = b.left_token_count
         /\ b.left_token_count - b.end_inside = SharedStarts(l, r)
<1>1. /\ b.left_token_count = Len(l.tokens) /\ b.right_token_count = Len(r.tokens)
      /\ b.exact = Cardinality(Exact(a)) /\ b.cross_or_cut = Crossing(a)
      /\ b.start_inside = StartInside(a) /\ b.end_inside = EndInside(a)
  BY DEF BoundaryCrossStats, StartInside, EndInside, Crossing
<1>2. /\ Len(l.tokens) \in Nat /\ SharedStarts(l, r) \in Nat /\ Len(a) = Len(l.tokens)
      /\ StartInside(a) = Len(l.tokens) - SharedStarts(l, r)
      /\ EndInside(a) = Len(l.tokens) - SharedStarts(l, r)
      /\ Cardinality(Exact(a)) \in Nat
      /\ Crossing(a) = Len(l.tokens) - Cardinality(Exact(a))
  BY Counts
<1>3. \A m, k \in Nat : m - (m - k) = k /\ k + (m - k) = m
  OBVIOUS
<1> DEFINE len == Len(l.tokens)
           shared == SharedStarts(l, r)
           exact == Cardinality(Exact(a))
<1> HIDE DEF len, shared, exact
<1>4. /\ b.start_inside = len - shared /\ b.end_inside = len - shared
      /\ b.exact = exact /\ b.cross_or_cut = len - exact /\ b.left_token_count = len
  BY <1>1, <1>2 DEF len, shared, exact
<1>5. b.exact + b.cross_or_cut = b.left_token_count
  BY <1>2, <1>3, <1>4 DEF len, exact
<1>6. b.left_token_count - b.end_inside = shared
  BY <1>2, <1>3, <1>4 DEF len, shared
<1> QED
  BY <1>1, <1>4, <1>5, <1>6 DEF shared

\* The statistics the bench makes of an alignment.
LEMMA ReceiptStats ==
  ASSUME NEW bytes \in Bytes,
         NEW l \in TokenizerStream, WellFormed(l, bytes),
         NEW r \in TokenizerStream, WellFormed(r, bytes),
         NEW a, a = Alignment(l, r),
         NEW s, s = AlignmentStats(a)
  PROVE  /\ s.start_inside = s.end_inside
         /\ s.left_tokens = Len(l.tokens)
         /\ s.left_tokens - s.end_inside = SharedStarts(l, r)
<1>1. /\ s.left_tokens = Len(a)
      /\ s.start_inside = StartInside(a) /\ s.end_inside = EndInside(a)
  BY DEF AlignmentStats, StartInside, EndInside
<1>2. /\ Len(l.tokens) \in Nat /\ SharedStarts(l, r) \in Nat /\ Len(a) = Len(l.tokens)
      /\ StartInside(a) = Len(l.tokens) - SharedStarts(l, r)
      /\ EndInside(a) = Len(l.tokens) - SharedStarts(l, r)
      /\ Cardinality(Exact(a)) \in Nat
      /\ Crossing(a) = Len(l.tokens) - Cardinality(Exact(a))
  BY Counts
<1>3. \A m, k \in Nat : m - (m - k) = k
  OBVIOUS
<1> DEFINE len == Len(l.tokens)
           shared == SharedStarts(l, r)
<1> HIDE DEF len, shared
<1>4. s.start_inside = len - shared /\ s.end_inside = len - shared /\ s.left_tokens = len
  BY <1>1, <1>2 DEF len, shared
<1>5. s.left_tokens - s.end_inside = shared
  BY <1>2, <1>3, <1>4 DEF len, shared
<1> QED
  BY <1>4, <1>5 DEF len, shared

\* The tables of a bridge and of a receipt balance: the two "inside" counts of a
\* direction agree, both directions share the same boundaries, and they pair the
\* same tokens, as many as the tokens of either side less the shared boundaries.
THEOREM TablesAlwaysBalance == BenchSpec => []TablesBalance
<1>1. BenchInv => PairsBalance
  <2> SUFFICES ASSUME BenchInv, report.written
               PROVE  LET pairs(a) == Cardinality(Pairs(a))
                          shared(s) == s.left_token_count - s.end_inside
                      IN  /\ \A s \in {report.source_to_du, report.du_to_target,
                                       report.target_to_du} :
                               /\ s.start_inside = s.end_inside
                               /\ s.exact + s.cross_or_cut = s.left_token_count
                          /\ pairs(du_to_target) = pairs(target_to_du)
                          /\ pairs(du_to_target) = report.du_to_target.left_token_count
                                                   + report.du_to_target.right_token_count
                                                   - shared(report.du_to_target)
                          /\ shared(report.du_to_target) = shared(report.target_to_du)
    BY DEF PairsBalance
  <2>1. /\ raw \in Bytes
        /\ source \in TokenizerStream /\ WellFormed(source, raw)
        /\ du \in TokenizerStream /\ WellFormed(du, raw)
        /\ target \in TokenizerStream /\ WellFormed(target, raw)
    BY DEF BenchInv, ArgsOK, ValidatedOK, BridgeOK
  <2>2. /\ report.source_to_du = BoundaryCrossStats(source, du, source_to_du)
        /\ report.du_to_target = BoundaryCrossStats(du, target, du_to_target)
        /\ report.target_to_du = BoundaryCrossStats(target, du, target_to_du)
        /\ source_to_du = Alignment(source, du)
        /\ du_to_target = Alignment(du, target) /\ target_to_du = Alignment(target, du)
    BY DEF BenchInv, BridgeOK
  <2> DEFINE shared == SharedStarts(du, target)
             first == report.source_to_du
             forward == report.du_to_target
             backward == report.target_to_du
  <2>3. first.start_inside = first.end_inside
        /\ first.exact + first.cross_or_cut = first.left_token_count
    BY <2>1, <2>2, BridgeStats
  <2>4. /\ forward.start_inside = forward.end_inside
        /\ forward.left_token_count = Len(du.tokens)
        /\ forward.right_token_count = Len(target.tokens)
        /\ forward.exact + forward.cross_or_cut = forward.left_token_count
        /\ forward.left_token_count - forward.end_inside = shared
    BY <2>1, <2>2, BridgeStats
  <2>5. SharedStarts(du, target) = SharedStarts(target, du)
    BY <2>1, Counts
  <2>6. /\ backward.start_inside = backward.end_inside
        /\ backward.left_token_count = Len(target.tokens)
        /\ backward.exact + backward.cross_or_cut = backward.left_token_count
        /\ backward.left_token_count - backward.end_inside = shared
    BY <2>1, <2>2, <2>5, BridgeStats
  <2>7. /\ Len(du.tokens) \in Nat /\ Len(target.tokens) \in Nat /\ shared \in Nat
        /\ Cardinality(Pairs(du_to_target)) = Len(du.tokens) + Len(target.tokens) - shared
        /\ Cardinality(Pairs(target_to_du)) = Len(target.tokens) + Len(du.tokens) - shared
    BY <2>1, <2>2, <2>5, Counts
  <2> HIDE DEF shared, first, forward, backward
  <2>8. /\ Cardinality(Pairs(du_to_target)) = Cardinality(Pairs(target_to_du))
        /\ Cardinality(Pairs(du_to_target))
             = forward.left_token_count + forward.right_token_count
               - (forward.left_token_count - forward.end_inside)
        /\ forward.left_token_count - forward.end_inside
             = backward.left_token_count - backward.end_inside
    <3>1. \A m, n, k \in Nat : m + n - k = n + m - k
      OBVIOUS
    <3> QED
      BY <2>4, <2>6, <2>7, <3>1, ZenonT(40)
  <2> QED
    BY <2>3, <2>4, <2>6, <2>8 DEF first, forward, backward
<1>2. ASSUME BenchInv, receipt.file = "complete"
      PROVE  LET forward  == receipt.source_to_target
                 backward == receipt.target_to_source
                 pairs(a) == Cardinality(Pairs(a))
                 shared   == forward.left_tokens - forward.end_inside
             IN  /\ WellFormed(source, raw) /\ WellFormed(target, raw)
                 /\ forward.left_tokens = Len(source.tokens)
                 /\ backward.left_tokens = Len(target.tokens)
                 /\ \A s \in {forward, backward} : s.start_inside = s.end_inside
                 /\ backward.left_tokens - backward.end_inside = shared
                 /\ pairs(source_to_target) = pairs(target_to_source)
                 /\ pairs(source_to_target) = forward.left_tokens + backward.left_tokens - shared
  <2>1. /\ raw \in Bytes
        /\ source \in TokenizerStream /\ WellFormed(source, raw)
        /\ target \in TokenizerStream /\ WellFormed(target, raw)
    BY <1>2 DEF BenchInv, ArgsOK, ValidatedOK, KeptOK
  <2>2. /\ receipt.source_to_target = AlignmentStats(source_to_target)
        /\ receipt.target_to_source = AlignmentStats(target_to_source)
        /\ source_to_target = Alignment(source, target)
        /\ target_to_source = Alignment(target, source)
    BY <1>2 DEF BenchInv, KeptOK
  <2> DEFINE shared == SharedStarts(source, target)
             forward == receipt.source_to_target
             backward == receipt.target_to_source
  <2>3. /\ forward.start_inside = forward.end_inside
        /\ forward.left_tokens = Len(source.tokens)
        /\ forward.left_tokens - forward.end_inside = shared
    BY <2>1, <2>2, ReceiptStats
  <2>4. SharedStarts(source, target) = SharedStarts(target, source)
    BY <2>1, Counts
  <2>5. /\ backward.start_inside = backward.end_inside
        /\ backward.left_tokens = Len(target.tokens)
        /\ backward.left_tokens - backward.end_inside = shared
    BY <2>1, <2>2, <2>4, ReceiptStats
  <2>6. /\ Len(source.tokens) \in Nat /\ Len(target.tokens) \in Nat /\ shared \in Nat
        /\ Cardinality(Pairs(source_to_target)) = Len(source.tokens) + Len(target.tokens) - shared
        /\ Cardinality(Pairs(target_to_source)) = Len(target.tokens) + Len(source.tokens) - shared
    BY <2>1, <2>2, <2>4, Counts
  <2> HIDE DEF shared, forward, backward
  <2>7. /\ forward.left_tokens = Len(source.tokens) /\ backward.left_tokens = Len(target.tokens)
        /\ backward.left_tokens - backward.end_inside = forward.left_tokens - forward.end_inside
        /\ Cardinality(Pairs(source_to_target)) = Cardinality(Pairs(target_to_source))
        /\ Cardinality(Pairs(source_to_target))
             = forward.left_tokens + backward.left_tokens
               - (forward.left_tokens - forward.end_inside)
    <3>1. \A m, n, k \in Nat : m + n - k = n + m - k
      OBVIOUS
    <3> QED
      BY <2>3, <2>5, <2>6, <3>1, Zenon
  <2> QED
    BY <2>1, <2>3, <2>5, <2>7 DEF forward, backward
<1>3. BenchInv => TablesBalance
  BY <1>1, <1>2 DEF TablesBalance
<1> QED
  BY <1>3, InvariantHolds, PTL
=============================================================================
