----------------------------- MODULE SpanLemmas -----------------------------
(***************************************************************************)
(* Facts that several proofs rest on: what the bytes of a run of tokens    *)
(* are, one after another, and which token holds a byte (Spans); how       *)
(* sequences are joined; what the running totals of a stream and the       *)
(* bisections in them return (ByteBounds); what a greedy segmentation      *)
(* yields (TargetVocab).                                                   *)
(*                                                                         *)
(* These need induction over the data.  It is carried by a set of numbers: *)
(* every nonempty set of naturals has a least member; and a recursive      *)
(* function is the last of the sequences that solve its recursion.         *)
(***************************************************************************)
EXTENDS ByteBounds, TargetVocab, SequenceTheorems, TLAPS, WellFoundedInduction,
        FiniteSetTheorems

\* A nonempty set of naturals has a least member.
LEMMA LeastNatural ==
  ASSUME NEW S \in SUBSET Nat, S # {}
  PROVE  \E m \in S : \A k \in S : m <= k
<1>1. IsWellFoundedOn(OpToRel(<, Nat), Nat)
  BY NatLessThanWellFounded, Zenon
<1>2. PICK m \in S : \A k \in S : ~ (<<k, m>> \in OpToRel(<, Nat))
  BY <1>1, WFMin
<1>3. \A k \in S : ~(k < m)
  BY <1>2 DEF OpToRel
<1> QED
  BY <1>3

\* Induction: a set of naturals with 0 and every successor has all of them.
LEMMA Induction ==
  ASSUME NEW P, 0 \in P, \A n \in Nat : n \in P => n + 1 \in P
  PROVE  \A n \in Nat : n \in P
<1> DEFINE rest == {n \in Nat : n \notin P}
<1>1. SUFFICES ASSUME rest # {} PROVE FALSE
  OBVIOUS
<1>2. PICK m \in rest : \A k \in rest : m <= k
  BY <1>1, LeastNatural
<1>3. m # 0 /\ m \in Nat
  OBVIOUS
<1>4. m - 1 \in Nat /\ m - 1 \in P
  BY <1>2, <1>3
<1> QED
  BY <1>2, <1>3, <1>4

\* Two slices that meet are one slice.
LEMMA SlicesMeet ==
  ASSUME NEW bytes \in Bytes, NEW a \in Nat, NEW b \in Nat, NEW c \in Nat,
         a <= b, b <= c, c <= Len(bytes)
  PROVE  Slice(bytes, a, b) \o Slice(bytes, b, c) = Slice(bytes, a, c)
BY DEF Slice, Bytes

\* The slice from end to end is the whole.
LEMMA SliceWhole ==
  ASSUME NEW bytes \in Bytes
  PROVE  Slice(bytes, 0, Len(bytes)) = bytes
BY DEF Slice, Bytes

\* A slice within a byte string: its length and its bytes.
LEMMA SliceWithin ==
  ASSUME NEW s \in Bytes, NEW a \in Nat, NEW b \in Nat, a <= b, b <= Len(s)
  PROVE  /\ Slice(s, a, b) \in Bytes /\ Len(Slice(s, a, b)) = b - a
         /\ \A i \in 1..(b - a) : Slice(s, a, b)[i] = s[a + i]
<1> DEFINE m == a + 1
<1>1. m \in Int /\ b \in Int /\ (b - m) + 1 = b - a /\ \A i \in 1..(b - a) : (m + i) - 1 = a + i
  OBVIOUS
<1>2. \A i \in m..b : s[i] \in Nat
  BY DEF Bytes
<1>3. ~(m <= b) => b - a = 0
  OBVIOUS
<1> HIDE DEF m
<1>4. /\ SubSeq(s, m, b) \in Seq(Nat) /\ Len(SubSeq(s, m, b)) = IF m <= b THEN b - m + 1 ELSE 0
      /\ \A i \in 1..(b - m + 1) : SubSeq(s, m, b)[i] = s[m + i - 1]
  BY <1>1, <1>2, SubSeqProperties
<1>5. SubSeq(s, m, b) = Slice(s, a, b)
  BY DEF Slice, m
<1>6. ASSUME NEW i \in 1..(b - a) PROVE Slice(s, a, b)[i] = s[a + i]
  <2>1. i \in 1..(b - m + 1) /\ m + i - 1 = a + i
    BY <1>1
  <2> QED
    BY <1>4, <1>5, <2>1
<1>7. Len(Slice(s, a, b)) = b - a
  BY <1>1, <1>3, <1>4, <1>5
<1> QED
  BY <1>4, <1>5, <1>6, <1>7 DEF Bytes

\* A slice of a slice is a slice.
LEMMA SliceOfSlice ==
  ASSUME NEW s \in Bytes, NEW a \in Nat, NEW b \in Nat, NEW c \in Nat, NEW d \in Nat,
         a <= b, b <= Len(s), c <= d, d <= b - a
  PROVE  Slice(Slice(s, a, b), c, d) = Slice(s, a + c, a + d)
<1> DEFINE inner == Slice(s, a, b)
           x == Slice(inner, c, d)
           y == Slice(s, a + c, a + d)
<1>1. inner \in Bytes /\ Len(inner) = b - a /\ \A i \in 1..(b - a) : inner[i] = s[a + i]
  BY SliceWithin
<1>2. y \in Bytes /\ Len(y) = d - c /\ \A i \in 1..(d - c) : y[i] = s[(a + c) + i]
  <2> DEFINE p == a + c
             q == a + d
  <2>1. p \in Nat /\ q \in Nat /\ p <= q /\ q <= Len(s) /\ q - p = d - c
    BY DEF Bytes
  <2> HIDE DEF p, q
  <2>2. /\ Slice(s, p, q) \in Bytes /\ Len(Slice(s, p, q)) = q - p
        /\ \A i \in 1..(q - p) : Slice(s, p, q)[i] = s[p + i]
    BY <2>1, SliceWithin, ZenonT(40)
  <2> QED
    BY <2>1, <2>2 DEF p, q
<1> HIDE DEF inner, y
<1>3. x \in Bytes /\ Len(x) = d - c /\ \A i \in 1..(d - c) : x[i] = inner[c + i]
  BY <1>1, SliceWithin
<1> HIDE DEF x
<1>4. ASSUME NEW i \in 1..(d - c) PROVE x[i] = y[i]
  <2>1. c + i \in 1..(b - a) /\ a + (c + i) = (a + c) + i
    OBVIOUS
  <2> QED
    BY <1>1, <1>2, <1>3, <2>1
<1>5. x = y
  BY <1>2, <1>3, <1>4, SeqEqual DEF Bytes
<1> QED
  BY <1>5 DEF x, y, inner

\* Reconstruct is the last of the sequences that put the tokens together one by
\* one: the recursion it is defined by has a solution.
LEMMA ReconstructStepwise ==
  ASSUME NEW tokens, Len(tokens) \in Nat
  PROVE  \E f : /\ f[0] = <<>>
                /\ \A k \in 1..Len(tokens) : f[k] = f[k - 1] \o tokens[k].bytes
                /\ Reconstruct(tokens) = f[Len(tokens)]
<1> DEFINE Solves(f, n) == f = [k \in 0..n |-> IF k = 0 THEN <<>> ELSE f[k - 1] \o tokens[k].bytes]
           P == {n \in Nat : \E f : Solves(f, n)}
<1>1. 0 \in P
  <2>1. Solves([k \in 0..0 |-> <<>>], 0)
    OBVIOUS
  <2> QED
    BY <2>1
<1>2. ASSUME NEW n \in Nat, n \in P PROVE n + 1 \in P
  <2>1. PICK f : Solves(f, n)
    BY <1>2
  <2> DEFINE g == [k \in 0..(n + 1) |-> IF k = n + 1 THEN f[n] \o tokens[n + 1].bytes ELSE f[k]]
  <2>2. ASSUME NEW k \in 0..(n + 1)
        PROVE  g[k] = IF k = 0 THEN <<>> ELSE g[k - 1] \o tokens[k].bytes
    <3>1. CASE k = n + 1
      <4>1. n + 1 \in 0..(n + 1) /\ n \in 0..(n + 1) /\ n + 1 # 0 /\ n # n + 1 /\ (n + 1) - 1 = n
        OBVIOUS
      <4>2. g[n + 1] = f[n] \o tokens[n + 1].bytes /\ g[n] = f[n]
        BY <4>1
      <4> QED
        BY <3>1, <4>1, <4>2
    <3>2. CASE k \in 0..n
      <4>1. f[k] = IF k = 0 THEN <<>> ELSE f[k - 1] \o tokens[k].bytes
        BY <2>1, <3>2
      <4>2. k # 0 => k - 1 \in 0..n
        BY <3>2
      <4> QED
        BY <3>2, <4>1, <4>2
    <3> QED
      BY <3>1, <3>2
  <2>3. Solves(g, n + 1)
    BY <2>2
  <2> HIDE DEF g
  <2>4. \E h : Solves(h, n + 1)
    BY <2>3
  <2>5. n + 1 \in Nat
    OBVIOUS
  <2> HIDE DEF Solves
  <2> QED
    BY <2>4, <2>5
<1>3. Len(tokens) \in P
  <2> HIDE DEF P
  <2> QED
    BY <1>1, <1>2, Induction
<1>4. \E f : Solves(f, Len(tokens))
  BY <1>3
<1> DEFINE upTo == CHOOSE f : Solves(f, Len(tokens))
<1>5. Solves(upTo, Len(tokens))
  BY <1>4
<1>6. Reconstruct(tokens) = upTo[Len(tokens)]
  BY DEF Reconstruct
<1>7. upTo[0] = <<>> /\ \A k \in 1..Len(tokens) : upTo[k] = upTo[k - 1] \o tokens[k].bytes
  <2> HIDE DEF upTo
  <2> QED
    BY <1>5
<1> HIDE DEF upTo
<1> QED
  BY <1>6, <1>7

\* Tokens that carry their slice of the bytes, each beginning where the one
\* before it ends, are together the bytes up to the end of the last.
LEMMA ReconstructSlices ==
  ASSUME NEW bytes \in Bytes, NEW tokens, NEW len \in Nat, Len(tokens) = len,
         \A i \in 1..len :
           /\ tokens[i].byte_start \in Nat /\ tokens[i].byte_end \in Nat
           /\ tokens[i].byte_start <= tokens[i].byte_end /\ tokens[i].byte_end <= Len(bytes)
           /\ tokens[i].byte_start = IF i = 1 THEN 0 ELSE tokens[i - 1].byte_end
           /\ tokens[i].bytes = Slice(bytes, tokens[i].byte_start, tokens[i].byte_end)
  PROVE  Reconstruct(tokens) = Slice(bytes, 0, IF len = 0 THEN 0 ELSE tokens[len].byte_end)
<1> DEFINE end(k) == IF k = 0 THEN 0 ELSE tokens[k].byte_end
<1>2. PICK f : /\ f[0] = <<>>
               /\ \A k \in 1..len : f[k] = f[k - 1] \o tokens[k].bytes
               /\ Reconstruct(tokens) = f[len]
  BY ReconstructStepwise
<1> DEFINE P == {k \in Nat : k <= len => f[k] = Slice(bytes, 0, end(k))}
<1>3. 0 \in P
  <2>1. Slice(bytes, 0, 0) = <<>>
    BY DEF Slice
  <2> QED
    BY <1>2, <2>1
<1>4. ASSUME NEW n \in Nat, n \in P PROVE n + 1 \in P
  <2>1. SUFFICES ASSUME n + 1 <= len PROVE f[n + 1] = Slice(bytes, 0, end(n + 1))
    OBVIOUS
  <2>2. f[n] = Slice(bytes, 0, end(n))
    BY <1>4, <2>1
  <2>3. n + 1 \in 1..len /\ (n + 1) - 1 = n
    BY <2>1
  <2>4. f[n + 1] = f[n] \o tokens[n + 1].bytes
    BY <1>2, <2>3
  <2>5. /\ end(n) \in Nat /\ end(n + 1) \in Nat
        /\ end(n) <= end(n + 1) /\ end(n + 1) <= Len(bytes)
        /\ tokens[n + 1].bytes = Slice(bytes, end(n), end(n + 1))
    BY <2>1
  <2>6. \A a, b \in Nat : a <= b /\ b <= Len(bytes) =>
          Slice(bytes, 0, a) \o Slice(bytes, a, b) = Slice(bytes, 0, b)
    BY SlicesMeet
  <2>7. Slice(bytes, 0, end(n)) \o Slice(bytes, end(n), end(n + 1)) = Slice(bytes, 0, end(n + 1))
    BY <2>5, <2>6, ZenonT(30)
  <2> QED
    BY <2>2, <2>4, <2>5, <2>7
<1>5. len \in P
  <2> HIDE DEF P
  <2> QED
    BY <1>3, <1>4, Induction
<1> QED
  BY <1>2, <1>5
-----------------------------------------------------------------------------
\* What a partition says of each of its tokens, whatever else they carry.
LEMMA PartitionFacts ==
  ASSUME NEW tokens, NEW raw_len \in Nat, Partition(tokens, raw_len),
         Len(tokens) \in Nat,
         \A i \in 1..Len(tokens) : tokens[i].byte_start \in Nat /\ tokens[i].byte_end \in Nat
  PROVE  /\ \A i \in 1..Len(tokens) :
              /\ tokens[i].byte_start < tokens[i].byte_end
              /\ tokens[i].byte_end <= raw_len
              /\ tokens[i].byte_start = IF i = 1 THEN 0 ELSE tokens[i - 1].byte_end
         /\ \A i, j \in 1..Len(tokens) : i < j => tokens[i].byte_end <= tokens[j].byte_start
         /\ raw_len = IF Len(tokens) = 0 THEN 0 ELSE tokens[Len(tokens)].byte_end
<1> DEFINE len == Len(tokens)
<1>1. raw_len = IF len = 0 THEN 0 ELSE tokens[len].byte_end
  BY DEF Partition, Reaches
<1>2. ASSUME NEW i \in 1..len
      PROVE  tokens[i].byte_start = IF i = 1 THEN 0 ELSE tokens[i - 1].byte_end
  BY DEF Partition, Reaches, Contiguous
<1>3. ASSUME NEW i \in 1..len
      PROVE  tokens[i].byte_start < tokens[i].byte_end
  BY DEF Partition, NonEmptySpans
<1>4. ASSUME NEW i \in 1..len, NEW j \in 1..len, i < j
      PROVE  tokens[i].byte_end <= tokens[j].byte_start
  BY <1>4 DEF Partition, Ordered
<1>5. ASSUME NEW i \in 1..len
      PROVE  tokens[i].byte_end <= raw_len
  <2>1. CASE i = len
    BY <1>1, <2>1
  <2>2. CASE i < len
    <3>1. len \in 1..len
      BY <2>2
    <3>2. tokens[i].byte_end <= tokens[len].byte_start
      BY <1>4, <2>2, <3>1
    <3>3. tokens[len].byte_start < tokens[len].byte_end
      BY <1>3, <3>1
    <3> QED
      BY <1>1, <3>1, <3>2, <3>3
  <2> QED
    BY <2>1, <2>2
<1> QED
  BY <1>1, <1>2, <1>3, <1>4, <1>5

\* What a well-formed stream says of each of its tokens.
LEMMA WellFormedFacts ==
  ASSUME NEW bytes \in Bytes, NEW s \in TokenizerStream, WellFormed(s, bytes)
  PROVE  /\ Len(bytes) \in Nat /\ Len(s.tokens) \in Nat
         /\ s.raw_len = Len(bytes)
         /\ \A i \in 1..Len(s.tokens) :
              /\ s.tokens[i].byte_start \in Nat /\ s.tokens[i].byte_end \in Nat
              /\ s.tokens[i].byte_start < s.tokens[i].byte_end
              /\ s.tokens[i].byte_end <= Len(bytes)
              /\ s.tokens[i].byte_start = IF i = 1 THEN 0 ELSE s.tokens[i - 1].byte_end
              /\ s.tokens[i].bytes =
                   Slice(bytes, s.tokens[i].byte_start, s.tokens[i].byte_end)
         /\ \A i, j \in 1..Len(s.tokens) :
              i < j => s.tokens[i].byte_end <= s.tokens[j].byte_start
         /\ Len(bytes) = IF Len(s.tokens) = 0 THEN 0 ELSE s.tokens[Len(s.tokens)].byte_end
<1>1. Len(bytes) \in Nat /\ s.tokens \in Seq(NativeToken) /\ Len(s.tokens) \in Nat
  BY DEF Bytes, TokenizerStream
<1>2. ASSUME NEW i \in 1..Len(s.tokens)
      PROVE  s.tokens[i].byte_start \in Nat /\ s.tokens[i].byte_end \in Nat
  <2>1. s.tokens[i] \in NativeToken
    BY <1>1
  <2> QED
    BY <2>1 DEF NativeToken
<1>3. /\ Partition(s.tokens, Len(bytes)) /\ s.raw_len = Len(bytes)
      /\ \A i \in 1..Len(s.tokens) :
           s.tokens[i].bytes = Slice(bytes, s.tokens[i].byte_start, s.tokens[i].byte_end)
  BY DEF WellFormed
<1> DEFINE tokens == s.tokens
           len == Len(s.tokens)
           raw_len == Len(bytes)
<1>4. /\ \A i \in 1..len :
           /\ tokens[i].byte_start < tokens[i].byte_end
           /\ tokens[i].byte_end <= Len(bytes)
           /\ tokens[i].byte_start = IF i = 1 THEN 0 ELSE tokens[i - 1].byte_end
      /\ \A i, j \in 1..len : i < j => tokens[i].byte_end <= tokens[j].byte_start
      /\ Len(bytes) = IF len = 0 THEN 0 ELSE tokens[len].byte_end
  <2>1. /\ \A i \in 1..len : tokens[i].byte_start \in Nat /\ tokens[i].byte_end \in Nat
        /\ Len(tokens) \in Nat /\ len = Len(tokens) /\ raw_len \in Nat
        /\ Partition(tokens, raw_len)
    BY <1>1, <1>2, <1>3
  <2> HIDE DEF tokens, len, raw_len
  <2>2. /\ \A i \in 1..len :
             /\ tokens[i].byte_start < tokens[i].byte_end
             /\ tokens[i].byte_end <= raw_len
             /\ tokens[i].byte_start = IF i = 1 THEN 0 ELSE tokens[i - 1].byte_end
        /\ \A i, j \in 1..len : i < j => tokens[i].byte_end <= tokens[j].byte_start
        /\ raw_len = IF len = 0 THEN 0 ELSE tokens[len].byte_end
    BY <2>1, PartitionFacts
  <2> QED
    BY <2>2 DEF raw_len
<1> QED
  BY <1>1, <1>2, <1>3, <1>4

\* The tokens of a well-formed stream are together the bytes it is of.
LEMMA WellFormedReconstructs ==
  ASSUME NEW bytes \in Bytes, NEW s \in TokenizerStream, WellFormed(s, bytes)
  PROVE  Reconstruct(s.tokens) = bytes
<1> DEFINE tokens == s.tokens
           len == Len(s.tokens)
<1>1. len \in Nat /\ Len(tokens) = len
  BY WellFormedFacts
<1>2. \A i \in 1..len :
        /\ tokens[i].byte_start \in Nat /\ tokens[i].byte_end \in Nat
        /\ tokens[i].byte_start <= tokens[i].byte_end /\ tokens[i].byte_end <= Len(bytes)
        /\ tokens[i].byte_start = IF i = 1 THEN 0 ELSE tokens[i - 1].byte_end
        /\ tokens[i].bytes = Slice(bytes, tokens[i].byte_start, tokens[i].byte_end)
  BY WellFormedFacts
<1>3. Len(bytes) = IF len = 0 THEN 0 ELSE tokens[len].byte_end
  BY WellFormedFacts
<1> HIDE DEF tokens, len
<1>4. Reconstruct(tokens) = Slice(bytes, 0, Len(bytes))
  BY <1>1, <1>2, <1>3, ReconstructSlices
<1> QED
  BY <1>4, SliceWhole DEF tokens

\* Every byte is in a token.
LEMMA TokenAt ==
  ASSUME NEW bytes \in Bytes, NEW s \in TokenizerStream, WellFormed(s, bytes),
         NEW b \in Nat, b < Len(bytes)
  PROVE  \E j \in 1..Len(s.tokens) : s.tokens[j].byte_start <= b /\ b < s.tokens[j].byte_end
<1> DEFINE tokens == s.tokens
           len == Len(s.tokens)
           S == {j \in 1..len : b < tokens[j].byte_end}
<1>1. /\ len \in Nat
      /\ \A i \in 1..len : /\ tokens[i].byte_start \in Nat /\ tokens[i].byte_end \in Nat
                           /\ tokens[i].byte_start = IF i = 1 THEN 0 ELSE tokens[i - 1].byte_end
      /\ Len(bytes) = IF len = 0 THEN 0 ELSE tokens[len].byte_end
  BY WellFormedFacts
<1> HIDE DEF tokens, len
<1>2. len \in S
  BY <1>1
<1>3. PICK j \in S : \A k \in S : j <= k
  <2>1. S \in SUBSET Nat /\ S # {}
    BY <1>1, <1>2
  <2> HIDE DEF S
  <2> QED
    BY <2>1, LeastNatural
<1>4. CASE j = 1
  BY <1>1, <1>4 DEF tokens, len
<1>5. CASE j # 1
  <2>1. j \in 1..len /\ j - 1 \in 1..len /\ j - 1 \notin S
    BY <1>1, <1>3, <1>5
  <2>2. ~(b < tokens[j - 1].byte_end)
    BY <2>1
  <2>3. tokens[j].byte_start <= b /\ b < tokens[j].byte_end
    BY <1>1, <1>5, <2>1, <2>2
  <2> QED
    BY <2>1, <2>3 DEF tokens, len
<1> QED
  BY <1>4, <1>5

\* The fields of the record of a token.
LEMMA RecordFields ==
  \A t, stream : /\ Record(t, stream).covered = CoveredBy(t, stream)
                 /\ Record(t, stream).starts <=> t.byte_start \in Boundaries(stream)
                 /\ Record(t, stream).ends <=> t.byte_end \in Boundaries(stream)
BY DEF Record

\* Two tokens of well-formed streams of the same bytes that share a byte share
\* it with a token of any third one.
LEMMA SharedThrough ==
  ASSUME NEW bytes \in Bytes,
         NEW s \in TokenizerStream, WellFormed(s, bytes),
         NEW d \in TokenizerStream, WellFormed(d, bytes),
         NEW t \in TokenizerStream, WellFormed(t, bytes),
         NEW i \in 1..Len(s.tokens), NEW j \in 1..Len(t.tokens),
         Intersects(s.tokens[i], t.tokens[j])
  PROVE  \E k \in 1..Len(d.tokens) :
           Intersects(s.tokens[i], d.tokens[k]) /\ Intersects(d.tokens[k], t.tokens[j])
<1> DEFINE a == s.tokens[i]
           b == t.tokens[j]
           byte == IF a.byte_start < b.byte_start THEN b.byte_start ELSE a.byte_start
<1>1. /\ a.byte_start \in Nat /\ a.byte_end \in Nat /\ a.byte_start < a.byte_end
      /\ a.byte_end <= Len(bytes) /\ Len(bytes) \in Nat
  BY WellFormedFacts
<1>2. /\ b.byte_start \in Nat /\ b.byte_end \in Nat /\ b.byte_start < b.byte_end
      /\ b.byte_end <= Len(bytes)
  BY WellFormedFacts
<1>3. a.byte_start < b.byte_end /\ b.byte_start < a.byte_end
  BY DEF Intersects
<1> HIDE DEF a, b
<1>4. /\ byte \in Nat /\ byte < Len(bytes) /\ a.byte_start <= byte /\ byte < a.byte_end
      /\ b.byte_start <= byte /\ byte < b.byte_end
  BY <1>1, <1>2, <1>3
<1> HIDE DEF byte
<1>5. PICK k \in 1..Len(d.tokens) : d.tokens[k].byte_start <= byte /\ byte < d.tokens[k].byte_end
  BY <1>4, TokenAt
<1> DEFINE c == d.tokens[k]
<1>6. c.byte_start \in Nat /\ c.byte_end \in Nat /\ c.byte_start <= byte /\ byte < c.byte_end
  BY <1>5, WellFormedFacts
<1> HIDE DEF c
<1>7. \A low, high \in Nat : low <= byte /\ byte < high => low < high
  BY <1>4
<1>8. Intersects(a, c) /\ Intersects(c, b)
  BY <1>1, <1>2, <1>4, <1>6, <1>7, Zenon DEF Intersects
<1> QED
  BY <1>8 DEF a, b, c

\* A token whose ends are boundaries of the other stream contains every token of
\* it that it shares a byte with.
LEMMA ExactContains ==
  ASSUME NEW bytes \in Bytes,
         NEW s \in TokenizerStream, WellFormed(s, bytes),
         NEW d \in TokenizerStream, WellFormed(d, bytes),
         NEW i \in 1..Len(s.tokens), NEW k \in 1..Len(d.tokens),
         s.tokens[i].byte_start \in Boundaries(d), s.tokens[i].byte_end \in Boundaries(d),
         Intersects(s.tokens[i], d.tokens[k])
  PROVE  /\ s.tokens[i].byte_start <= d.tokens[k].byte_start
         /\ d.tokens[k].byte_end <= s.tokens[i].byte_end
<1> DEFINE a == s.tokens[i]
           tokens == d.tokens
           len == Len(d.tokens)
<1>1. /\ a.byte_start \in Nat /\ a.byte_end \in Nat /\ a.byte_start < a.byte_end
      /\ a.byte_end <= Len(bytes) /\ Len(bytes) \in Nat
  BY WellFormedFacts
<1>2. /\ \A n \in 1..len : /\ tokens[n].byte_start \in Nat /\ tokens[n].byte_end \in Nat
                           /\ tokens[n].byte_start < tokens[n].byte_end
                           /\ tokens[n].byte_end <= Len(bytes)
      /\ \A m, n \in 1..len : m < n => tokens[m].byte_end <= tokens[n].byte_start
      /\ k \in 1..len /\ len \in Nat
  BY WellFormedFacts
<1>3. /\ a.byte_start = Len(bytes) \/ \E n \in 1..len : a.byte_start = tokens[n].byte_start
      /\ a.byte_end = Len(bytes) \/ \E n \in 1..len : a.byte_end = tokens[n].byte_start
  BY WellFormedFacts DEF Boundaries
<1>4. a.byte_start < tokens[k].byte_end /\ tokens[k].byte_start < a.byte_end
  BY DEF Intersects
<1> HIDE DEF a, tokens, len
<1>5. a.byte_start <= tokens[k].byte_start
  <2>1. PICK n \in 1..len : a.byte_start = tokens[n].byte_start
    BY <1>1, <1>3
  <2>2. ~(k < n)
    BY <1>2, <1>4, <2>1
  <2>3. CASE n = k
    BY <2>1, <2>3, <1>1
  <2>4. CASE n < k
    <3>1. tokens[n].byte_end <= tokens[k].byte_start
      BY <1>2, <2>4
    <3> QED
      BY <1>2, <2>1, <3>1
  <2> QED
    BY <1>2, <2>2, <2>3, <2>4
<1>6. tokens[k].byte_end <= a.byte_end
  <2>1. CASE a.byte_end = Len(bytes)
    BY <1>2, <2>1
  <2>2. CASE \E n \in 1..len : a.byte_end = tokens[n].byte_start
    <3>1. PICK n \in 1..len : a.byte_end = tokens[n].byte_start
      BY <2>2
    <3>2. n # k /\ ~(n < k)
      BY <1>2, <1>4, <3>1, SMTT(30)
    <3> QED
      BY <1>2, <3>1, <3>2
  <2> QED
    BY <1>3, <2>1, <2>2
<1> QED
  BY <1>5, <1>6 DEF a, tokens
-----------------------------------------------------------------------------
\* The offsets at which tokens of a stream start, and the pairs of tokens of two
\* streams that share a byte.
Starts(s) == {s.tokens[i].byte_start : i \in 1..Len(s.tokens)}

Overlaps(l, r) ==
  {p \in (1..Len(l.tokens)) \X (1..Len(r.tokens)) : Intersects(l.tokens[p[1]], r.tokens[p[2]])}

\* Sets between which a function is one to one and onto have as many members.
LEMMA SameSize ==
  ASSUME NEW S, NEW T, IsFiniteSet(S), NEW f \in [S -> T],
         \A x, y \in S : f[x] = f[y] => x = y,
         \A z \in T : \E x \in S : f[x] = z
  PROVE  IsFiniteSet(T) /\ Cardinality(T) = Cardinality(S)
<1>1. f \in Bijection(S, T)
  BY DEF Bijection, Injection, Surjection, IsInjective
<1>2. ExistsBijection(S, T)
  BY <1>1 DEF ExistsBijection
<1> QED
  BY <1>2, FS_Bijection

\* A byte is in no more than one token, and tokens start at different offsets.
LEMMA OneTokenHolds ==
  ASSUME NEW bytes \in Bytes, NEW s \in TokenizerStream, WellFormed(s, bytes),
         NEW i \in 1..Len(s.tokens), NEW j \in 1..Len(s.tokens), NEW byte \in Nat,
         s.tokens[i].byte_start <= byte, byte < s.tokens[i].byte_end,
         s.tokens[j].byte_start <= byte, byte < s.tokens[j].byte_end
  PROVE  i = j
<1> DEFINE tokens == s.tokens
           len == Len(s.tokens)
<1>1. /\ \A n \in 1..len : tokens[n].byte_start \in Nat /\ tokens[n].byte_end \in Nat
      /\ \A m, n \in 1..len : m < n => tokens[m].byte_end <= tokens[n].byte_start
      /\ i \in 1..len /\ j \in 1..len /\ len \in Nat
      /\ tokens[i].byte_start <= byte /\ byte < tokens[i].byte_end
      /\ tokens[j].byte_start <= byte /\ byte < tokens[j].byte_end
  BY WellFormedFacts
<1> HIDE DEF tokens, len
<1>2. ASSUME i < j PROVE FALSE
  BY <1>1, <1>2
<1>3. ASSUME j < i PROVE FALSE
  BY <1>1, <1>3
<1> QED
  BY <1>1, <1>2, <1>3

\* A stream has as many starts as tokens.
LEMMA StartsCount ==
  ASSUME NEW bytes \in Bytes, NEW s \in TokenizerStream, WellFormed(s, bytes)
  PROVE  IsFiniteSet(Starts(s)) /\ Cardinality(Starts(s)) = Len(s.tokens)
<1> DEFINE S == 1..Len(s.tokens)
           f == [i \in S |-> s.tokens[i].byte_start]
<1>1. IsFiniteSet(S) /\ Cardinality(S) = Len(s.tokens)
  BY WellFormedFacts, FS_Interval, SMTT(30)
<1>2. f \in [S -> Starts(s)] /\ \A z \in Starts(s) : \E i \in S : f[i] = z
  BY DEF Starts
<1>3. ASSUME NEW i \in S, NEW j \in S, f[i] = f[j] PROVE i = j
  <2>1. s.tokens[i].byte_start = s.tokens[j].byte_start
    BY <1>3
  <2>2. /\ s.tokens[i].byte_start \in Nat
        /\ s.tokens[i].byte_start < s.tokens[i].byte_end
        /\ s.tokens[j].byte_start < s.tokens[j].byte_end
        /\ s.tokens[i].byte_start <= s.tokens[i].byte_start
    BY WellFormedFacts, SMTT(30)
  <2> QED
    BY <2>1, <2>2, OneTokenHolds
<1> HIDE DEF f, S
<1> QED
  BY <1>1, <1>2, <1>3, SameSize

\* Every start is the offset of a byte.
LEMMA StartsAreBytes ==
  ASSUME NEW bytes \in Bytes, NEW s \in TokenizerStream, WellFormed(s, bytes),
         NEW byte \in Starts(s)
  PROVE  byte \in Nat /\ byte < Len(bytes)
<1>1. PICK i \in 1..Len(s.tokens) : byte = s.tokens[i].byte_start
  BY DEF Starts
<1>2. /\ s.tokens[i].byte_start \in Nat /\ s.tokens[i].byte_end \in Nat /\ Len(bytes) \in Nat
      /\ s.tokens[i].byte_start < s.tokens[i].byte_end /\ s.tokens[i].byte_end <= Len(bytes)
  BY WellFormedFacts
<1> QED
  BY <1>1, <1>2

\* The tokens of l that start on a boundary of r start where one of r does, and
\* there are as many as starts the two streams share.
LEMMA SharedCount ==
  ASSUME NEW bytes \in Bytes,
         NEW l \in TokenizerStream, WellFormed(l, bytes),
         NEW r \in TokenizerStream, WellFormed(r, bytes)
  PROVE  Cardinality({i \in 1..Len(l.tokens) : l.tokens[i].byte_start \in Boundaries(r)})
           = Cardinality(Starts(l) \cap Starts(r))
<1> DEFINE S == {i \in 1..Len(l.tokens) : l.tokens[i].byte_start \in Boundaries(r)}
           T == Starts(l) \cap Starts(r)
           f == [i \in S |-> l.tokens[i].byte_start]
<1>1. IsFiniteSet(S)
  <2>1. IsFiniteSet(1..Len(l.tokens))
    BY WellFormedFacts, FS_Interval
  <2> QED
    BY <2>1, FS_Subset
<1>2. Boundaries(r) = Starts(r) \cup {Len(bytes)}
  BY WellFormedFacts DEF Boundaries, Starts
<1>3. ASSUME NEW i \in 1..Len(l.tokens)
      PROVE  l.tokens[i].byte_start # Len(bytes) /\ l.tokens[i].byte_start \in Starts(l)
  BY WellFormedFacts, SMTT(30) DEF Starts
<1>4. f \in [S -> T]
  BY <1>2, <1>3
<1>5. \A z \in T : \E i \in S : f[i] = z
  <2> SUFFICES ASSUME NEW z \in T PROVE \E i \in S : f[i] = z
    OBVIOUS
  <2>1. PICK i \in 1..Len(l.tokens) : z = l.tokens[i].byte_start
    BY DEF Starts
  <2>2. i \in S /\ f[i] = z
    BY <1>2, <2>1
  <2> QED
    BY <2>2
<1>6. ASSUME NEW i \in S, NEW j \in S, f[i] = f[j] PROVE i = j
  <2>1. l.tokens[i].byte_start = l.tokens[j].byte_start
    BY <1>6
  <2>2. /\ l.tokens[i].byte_start \in Nat
        /\ l.tokens[i].byte_start < l.tokens[i].byte_end
        /\ l.tokens[j].byte_start < l.tokens[j].byte_end
        /\ l.tokens[i].byte_start <= l.tokens[i].byte_start
    BY WellFormedFacts
  <2> QED
    BY <2>1, <2>2, OneTokenHolds
<1> HIDE DEF f, S, T
<1>7. Cardinality(T) = Cardinality(S)
  BY <1>1, <1>4, <1>5, <1>6, SameSize
<1> QED
  BY <1>7 DEF S, T

\* As many tokens of l end inside a token of r as start inside one: where a token
\* ends inside one, the next starts there.
LEMMA InsideCount ==
  ASSUME NEW bytes \in Bytes,
         NEW l \in TokenizerStream, WellFormed(l, bytes),
         NEW r \in TokenizerStream, WellFormed(r, bytes)
  PROVE  Cardinality({i \in 1..Len(l.tokens) : l.tokens[i].byte_end \notin Boundaries(r)})
           = Cardinality({i \in 1..Len(l.tokens) : l.tokens[i].byte_start \notin Boundaries(r)})
<1> DEFINE tokens == l.tokens
           len == Len(l.tokens)
           B == Boundaries(r)
           S == {i \in 1..len : tokens[i].byte_start \notin B}
           T == {i \in 1..len : tokens[i].byte_end \notin B}
           f == [i \in S |-> i - 1]
<1>1. /\ len \in Nat
      /\ \A i \in 1..len : tokens[i].byte_start = IF i = 1 THEN 0 ELSE tokens[i - 1].byte_end
      /\ Len(bytes) = IF len = 0 THEN 0 ELSE tokens[len].byte_end
  BY WellFormedFacts
<1>2. 0 \in B /\ Len(bytes) \in B
  BY WellFormedFacts DEF Boundaries
<1> HIDE DEF tokens, len, B
<1>3. IsFiniteSet(S)
  <2>1. IsFiniteSet(1..len)
    BY <1>1, FS_Interval
  <2> QED
    BY <2>1, FS_Subset
<1>4. ASSUME NEW i \in S
      PROVE  i \in Nat /\ i - 1 \in T
  <2>1. i \in 1..len /\ i # 1
    BY <1>1, <1>2
  <2>2. i - 1 \in 1..len /\ tokens[i - 1].byte_end = tokens[i].byte_start
    BY <1>1, <2>1
  <2> QED
    BY <2>1, <2>2
<1>5. f \in [S -> T] /\ \A i, j \in S : f[i] = f[j] => i = j
  BY <1>4
<1>6. \A z \in T : \E i \in S : f[i] = z
  <2> SUFFICES ASSUME NEW z \in T PROVE \E i \in S : f[i] = z
    OBVIOUS
  <2>1. z \in 1..len /\ z # len
    BY <1>1, <1>2
  <2>2. z + 1 \in 1..len /\ z + 1 # 1 /\ (z + 1) - 1 = z
    BY <1>1, <2>1
  <2>3. tokens[z + 1].byte_start = tokens[z].byte_end
    BY <1>1, <2>2
  <2>4. z + 1 \in S /\ f[z + 1] = z
    BY <2>2, <2>3
  <2> QED
    BY <2>4
<1> HIDE DEF f, S, T
<1>7. Cardinality(T) = Cardinality(S)
  BY <1>3, <1>5, <1>6, SameSize
<1> QED
  BY <1>7 DEF S, T, tokens, len, B

\* The pairs of tokens that share a byte number one for every token of either
\* stream less one for every start they share: each pair begins to overlap at a
\* start of one of its tokens, and at every start exactly one pair begins to.
LEMMA OverlapCount ==
  ASSUME NEW bytes \in Bytes,
         NEW l \in TokenizerStream, WellFormed(l, bytes),
         NEW r \in TokenizerStream, WellFormed(r, bytes)
  PROVE  /\ IsFiniteSet(Overlaps(l, r))
         /\ Cardinality(Overlaps(l, r))
              = Len(l.tokens) + Len(r.tokens) - Cardinality(Starts(l) \cap Starts(r))
<1> DEFINE S == Starts(l) \cup Starts(r)
           holds(s, byte, i) ==
             i \in 1..Len(s.tokens) /\ s.tokens[i].byte_start <= byte /\ byte < s.tokens[i].byte_end
           left == [byte \in S |-> CHOOSE i : holds(l, byte, i)]
           right == [byte \in S |-> CHOOSE i : holds(r, byte, i)]
           f == [byte \in S |-> <<left[byte], right[byte]>>]
<1>1. IsFiniteSet(S) /\ Cardinality(S)
        = Len(l.tokens) + Len(r.tokens) - Cardinality(Starts(l) \cap Starts(r))
  BY StartsCount, FS_Union
<1>2. ASSUME NEW byte \in S
      PROVE  /\ byte \in Nat
             /\ holds(l, byte, left[byte]) /\ holds(r, byte, right[byte])
             /\ byte = l.tokens[left[byte]].byte_start \/ byte = r.tokens[right[byte]].byte_start
  <2>1. byte \in Nat /\ byte < Len(bytes)
    BY StartsAreBytes
  <2>2. (\E i : holds(l, byte, i)) /\ (\E i : holds(r, byte, i))
    BY <2>1, TokenAt
  <2>3. holds(l, byte, left[byte]) /\ holds(r, byte, right[byte])
    BY <2>2
  <2> HIDE DEF left, right
  <2>4. CASE byte \in Starts(l)
    <3>1. PICK i \in 1..Len(l.tokens) : byte = l.tokens[i].byte_start
      BY <2>4 DEF Starts
    <3>2. l.tokens[i].byte_start <= byte /\ byte < l.tokens[i].byte_end
      BY <2>1, <3>1, WellFormedFacts
    <3>3. i = left[byte]
      BY <2>1, <2>3, <3>2, OneTokenHolds
    <3> QED
      BY <2>1, <2>3, <3>1, <3>3
  <2>5. CASE byte \in Starts(r)
    <3>1. PICK i \in 1..Len(r.tokens) : byte = r.tokens[i].byte_start
      BY <2>5 DEF Starts
    <3>2. r.tokens[i].byte_start <= byte /\ byte < r.tokens[i].byte_end
      BY <2>1, <3>1, WellFormedFacts
    <3>3. i = right[byte]
      BY <2>1, <2>3, <3>2, OneTokenHolds
    <3> QED
      BY <2>1, <2>3, <3>1, <3>3
  <2> QED
    BY <2>4, <2>5
<1>3. ASSUME NEW i \in 1..Len(l.tokens), NEW j \in 1..Len(r.tokens)
      PROVE  /\ l.tokens[i].byte_start \in Nat /\ l.tokens[i].byte_end \in Nat
             /\ r.tokens[j].byte_start \in Nat /\ r.tokens[j].byte_end \in Nat
             /\ l.tokens[i].byte_start < l.tokens[i].byte_end
             /\ r.tokens[j].byte_start < r.tokens[j].byte_end
             /\ l.tokens[i].byte_start \in S /\ r.tokens[j].byte_start \in S
  BY WellFormedFacts DEF Starts
<1> HIDE DEF S, left, right
<1>4. f \in [S -> Overlaps(l, r)]
  <2> SUFFICES ASSUME NEW byte \in S PROVE <<left[byte], right[byte]>> \in Overlaps(l, r)
    OBVIOUS
  <2> DEFINE i == left[byte]
             j == right[byte]
  <2>0. holds(l, byte, i) /\ holds(r, byte, j) /\ byte \in Nat
    BY <1>2
  <2> HIDE DEF i, j
  <2>1. Intersects(l.tokens[i], r.tokens[j])
    BY <2>0, <1>3, SMTT(30) DEF Intersects
  <2> QED
    BY <2>0, <2>1 DEF Overlaps, i, j
<1>5. ASSUME NEW a \in S, NEW b \in S, f[a] = f[b] PROVE a = b
  <2>1. left[a] = left[b] /\ right[a] = right[b]
    BY <1>5
  <2>2. /\ a \in Nat /\ b \in Nat
        /\ holds(l, a, left[a]) /\ holds(r, a, right[a])
        /\ holds(l, b, left[a]) /\ holds(r, b, right[a])
        /\ a = l.tokens[left[a]].byte_start \/ a = r.tokens[right[a]].byte_start
        /\ b = l.tokens[left[a]].byte_start \/ b = r.tokens[right[a]].byte_start
    BY <1>2, <2>1
  <2> QED
    BY <2>2, <1>3
<1>6. ASSUME NEW p \in Overlaps(l, r) PROVE \E byte \in S : f[byte] = p
  <2>1. PICK i \in 1..Len(l.tokens), j \in 1..Len(r.tokens) :
          p = <<i, j>> /\ Intersects(l.tokens[i], r.tokens[j])
    BY DEF Overlaps
  <2> DEFINE byte == IF l.tokens[i].byte_start < r.tokens[j].byte_start
                     THEN r.tokens[j].byte_start ELSE l.tokens[i].byte_start
  <2>2. byte \in S /\ byte \in Nat
    BY <1>3
  <2>3. holds(l, byte, i) /\ holds(r, byte, j)
    BY <1>3, <2>1 DEF Intersects
  <2> HIDE DEF byte
  <2>4. left[byte] = i /\ right[byte] = j
    BY <1>2, <2>2, <2>3, OneTokenHolds
  <2> QED
    BY <2>1, <2>2, <2>4
<1> HIDE DEF f
<1> QED
  BY <1>1, <1>4, <1>5, <1>6, SameSize
-----------------------------------------------------------------------------
\* Joining sequences one by one: the recursion has a solution of any length.
LEMMA JoinSolution ==
  ASSUME NEW parts, NEW len \in Nat
  PROVE  \E f : f = [k \in 0..len |-> IF k = 0 THEN <<>> ELSE f[k - 1] \o parts[k]]
<1> DEFINE Solves(f, n) == f = [k \in 0..n |-> IF k = 0 THEN <<>> ELSE f[k - 1] \o parts[k]]
           P == {n \in Nat : \E f : Solves(f, n)}
<1>1. 0 \in P
  <2>1. Solves([k \in 0..0 |-> <<>>], 0)
    OBVIOUS
  <2> QED
    BY <2>1
<1>2. ASSUME NEW n \in Nat, n \in P PROVE n + 1 \in P
  <2>1. PICK f : Solves(f, n)
    BY <1>2
  <2> DEFINE g == [k \in 0..(n + 1) |-> IF k = n + 1 THEN f[n] \o parts[n + 1] ELSE f[k]]
  <2>2. ASSUME NEW k \in 0..(n + 1)
        PROVE  g[k] = IF k = 0 THEN <<>> ELSE g[k - 1] \o parts[k]
    <3>1. CASE k = n + 1
      <4>1. n + 1 \in 0..(n + 1) /\ n \in 0..(n + 1) /\ n + 1 # 0 /\ n # n + 1 /\ (n + 1) - 1 = n
        OBVIOUS
      <4>2. g[n + 1] = f[n] \o parts[n + 1] /\ g[n] = f[n]
        BY <4>1
      <4> QED
        BY <3>1, <4>1, <4>2
    <3>2. CASE k \in 0..n
      <4>1. f[k] = IF k = 0 THEN <<>> ELSE f[k - 1] \o parts[k]
        BY <2>1, <3>2
      <4>2. k # 0 => k - 1 \in 0..n
        BY <3>2
      <4> QED
        BY <3>2, <4>1, <4>2
    <3> QED
      BY <3>1, <3>2
  <2>3. Solves(g, n + 1)
    BY <2>2
  <2> HIDE DEF g
  <2>4. \E h : Solves(h, n + 1)
    BY <2>3
  <2>5. n + 1 \in Nat
    OBVIOUS
  <2> HIDE DEF Solves
  <2> QED
    BY <2>4, <2>5
<1>3. len \in P
  <2> HIDE DEF P
  <2> QED
    BY <1>1, <1>2, Induction
<1> QED
  BY <1>3

\* What joining needs of the sequences that are joined.
Joinable(T) ==
  /\ <<>> \in T
  /\ \A a \in T : a \o <<>> = a /\ <<>> \o a = a
  /\ \A a, b \in T : a \o b \in T
  /\ \A a, b, c \in T : (a \o b) \o c = a \o (b \o c)

\* The sequences over any set can be joined.
LEMMA SequencesJoin ==
  ASSUME NEW S
  PROVE  Joinable(Seq(S))
<1>1. \A a, b, c \in Seq(S) : (a \o b) \o c = a \o (b \o c)
  BY ConcatAssociative
<1>2. \A a \in Seq(S) : a \o <<>> = a /\ <<>> \o a = a
  BY ConcatEmptySeq
<1>3. <<>> \in Seq(S) /\ \A a, b \in Seq(S) : a \o b \in Seq(S)
  OBVIOUS
<1> QED
  BY <1>1, <1>2, <1>3, Zenon DEF Joinable

\* So can bytes.
LEMMA JoinFacts ==
  /\ Joinable(Bytes)
  /\ <<>> \in Bytes
  /\ \A a \in Bytes : a \o <<>> = a /\ <<>> \o a = a
  /\ \A a, b \in Bytes : a \o b \in Bytes
  /\ \A a, b, c \in Bytes : (a \o b) \o c = a \o (b \o c)
<1>1. Joinable(Bytes)
  BY SequencesJoin DEF Bytes
<1> QED
  BY <1>1, Zenon DEF Joinable

\* FlattenSeq is the last of the sequences that put the parts together one
\* by one.
LEMMA FlattenStepwise ==
  ASSUME NEW T, Joinable(T), NEW parts \in Seq(T)
  PROVE  \E f : /\ f[0] = <<>>
                /\ \A k \in 1..Len(parts) : f[k] = f[k - 1] \o parts[k]
                /\ FlattenSeq(parts) = f[Len(parts)]
<1> DEFINE len == Len(parts)
           Flattens(f) == f = [i \in 1..len |-> IF i = 1 THEN parts[i] ELSE f[i - 1] \o parts[i]]
<1>1. len \in Nat
  OBVIOUS
<1>2. CASE len = 0
  <2>1. FlattenSeq(parts) = <<>>
    BY <1>2 DEF FlattenSeq
  <2> DEFINE f == [k \in 0..0 |-> <<>>]
  <2>2. f[0] = <<>>
    OBVIOUS
  <2>3. f[0] = <<>> /\ FlattenSeq(parts) = f[Len(parts)]
        /\ \A k \in 1..Len(parts) : f[k] = f[k - 1] \o parts[k]
    BY <1>2, <2>1, <2>2
  <2> QED
    BY <2>3
<1>3. CASE len # 0
  <2>1. PICK h : h = [k \in 0..len |-> IF k = 0 THEN <<>> ELSE h[k - 1] \o parts[k]]
    BY <1>1, JoinSolution
  <2> DEFINE g == [i \in 1..len |-> h[i]]
  <2>2. \A k \in 1..len : h[k] = h[k - 1] \o parts[k]
    BY <2>1
  <2>3. h[0] = <<>> /\ h[1] = h[0] \o parts[1] /\ <<>> \o parts[1] = parts[1]
    <3>1. 1 \in 1..len /\ parts[1] \in T
      BY <1>1, <1>3
    <3>2. <<>> \o parts[1] = parts[1]
      BY <3>1, Zenon DEF Joinable
    <3>3. h[0] = <<>> /\ h[1] = h[1 - 1] \o parts[1]
      <4>1. 0 \in 0..len
        BY <1>1
      <4>2. h[0] = <<>>
        BY <2>1, <4>1
      <4> QED
        BY <2>2, <3>1, <4>2
    <3>4. 1 - 1 = 0
      OBVIOUS
    <3> HIDE DEF g, len
    <3> QED
      BY <3>2, <3>3, <3>4
  <2>4. ASSUME NEW i \in 1..len
        PROVE  g[i] = IF i = 1 THEN parts[i] ELSE g[i - 1] \o parts[i]
    <3>1. i # 1 => i - 1 \in 1..len
      BY <1>1
    <3> QED
      BY <2>2, <2>3, <3>1
  <2>5. Flattens(g)
    BY <2>4
  <2> HIDE DEF g
  <2>6. \E f : Flattens(f)
    BY <2>5
  <2> DEFINE flatten == CHOOSE f : Flattens(f)
  <2>7. Flattens(flatten)
    BY <2>6
  <2>8. FlattenSeq(parts) = flatten[len]
    BY <1>3 DEF FlattenSeq
  <2> HIDE DEF flatten
  <2> DEFINE f == [k \in 0..len |-> IF k = 0 THEN <<>> ELSE flatten[k]]
  <2>9. f[0] = <<>> /\ f[len] = flatten[len]
    BY <1>1, <1>3
  <2>10. ASSUME NEW k \in 1..len PROVE f[k] = f[k - 1] \o parts[k]
    <3>1. flatten[k] = IF k = 1 THEN parts[k] ELSE flatten[k - 1] \o parts[k]
      BY <2>7
    <3>2. f[k] = flatten[k] /\ k - 1 \in 0..len
          /\ (k = 1 => f[k - 1] = <<>>) /\ (k # 1 => f[k - 1] = flatten[k - 1])
      BY <1>1
    <3> HIDE DEF f
    <3> QED
      BY <2>3, <3>1, <3>2
  <2> HIDE DEF f
  <2> QED
    BY <2>8, <2>9, <2>10
<1> QED
  BY <1>2, <1>3

\* Functions that start alike and go on alike are the same.
LEMMA JoinsAgree ==
  ASSUME NEW n \in Nat, NEW f, NEW g, f[0] = g[0],
         \A k \in 1..n : f[k - 1] = g[k - 1] => f[k] = g[k]
  PROVE  \A k \in 0..n : f[k] = g[k]
<1> DEFINE P == {k \in Nat : k <= n => f[k] = g[k]}
<1>1. 0 \in P
  OBVIOUS
<1>2. ASSUME NEW k \in Nat, k \in P PROVE k + 1 \in P
  <2>1. SUFFICES ASSUME k + 1 <= n PROVE f[k + 1] = g[k + 1]
    OBVIOUS
  <2>2. f[k] = g[k] /\ k + 1 \in 1..n /\ (k + 1) - 1 = k
    BY <1>2, <2>1
  <2> QED
    BY <2>2
<1>3. \A k \in Nat : k \in P
  <2> HIDE DEF P
  <2> QED
    BY <1>1, <1>2, Induction
<1> QED
  BY <1>3

\* What FlattenSeq returns is of the kind of its parts: empty of nothing, and
\* with one more part that of the others followed by this one.
LEMMA FlattenAppend ==
  ASSUME NEW T, Joinable(T)
  PROVE  /\ FlattenSeq(<<>>) = <<>>
         /\ \A parts \in Seq(T) : FlattenSeq(parts) \in T
         /\ \A parts \in Seq(T), part \in T :
              FlattenSeq(Append(parts, part)) = FlattenSeq(parts) \o part
<1>1. FlattenSeq(<<>>) = <<>>
  BY DEF FlattenSeq
<1>2. ASSUME NEW parts \in Seq(T) PROVE FlattenSeq(parts) \in T
  <2>1. PICK f : /\ f[0] = <<>>
                 /\ \A k \in 1..Len(parts) : f[k] = f[k - 1] \o parts[k]
                 /\ FlattenSeq(parts) = f[Len(parts)]
    BY FlattenStepwise
  <2> DEFINE P == {k \in Nat : k <= Len(parts) => f[k] \in T}
  <2>2. 0 \in P
    BY <2>1, Zenon DEF Joinable
  <2>3. ASSUME NEW k \in Nat, k \in P PROVE k + 1 \in P
    <3>1. SUFFICES ASSUME k + 1 <= Len(parts) PROVE f[k + 1] \in T
      OBVIOUS
    <3>2. f[k] \in T /\ k + 1 \in 1..Len(parts) /\ (k + 1) - 1 = k
      BY <2>3, <3>1
    <3>3. parts[k + 1] \in T
      BY <3>2
    <3>4. f[k + 1] = f[k] \o parts[k + 1]
      BY <2>1, <3>2
    <3> QED
      BY <3>2, <3>3, <3>4, ZenonT(40) DEF Joinable
  <2>4. \A k \in Nat : k \in P
    <3> HIDE DEF P
    <3> QED
      BY <2>2, <2>3, Induction
  <2>5. Len(parts) \in P
    BY <2>4
  <2> QED
    BY <2>1, <2>5
<1>3. ASSUME NEW parts \in Seq(T), NEW part \in T
      PROVE  FlattenSeq(Append(parts, part)) = FlattenSeq(parts) \o part
  <2> DEFINE more == Append(parts, part)
             len == Len(parts)
  <2>1. /\ more \in Seq(T) /\ len \in Nat /\ Len(more) = len + 1
        /\ more[len + 1] = part /\ \A k \in 1..len : more[k] = parts[k]
    OBVIOUS
  <2>2. PICK f : /\ f[0] = <<>>
                 /\ \A k \in 1..Len(parts) : f[k] = f[k - 1] \o parts[k]
                 /\ FlattenSeq(parts) = f[Len(parts)]
    BY FlattenStepwise
  <2> HIDE DEF more
  <2>3. PICK g : /\ g[0] = <<>>
                 /\ \A k \in 1..Len(more) : g[k] = g[k - 1] \o more[k]
                 /\ FlattenSeq(more) = g[Len(more)]
    BY <2>1, FlattenStepwise
  <2>4. \A k \in 1..len : k \in 1..Len(more)
    BY <2>1
  <2>5. \A k \in 0..len : f[k] = g[k]
    <3>1. /\ \A k \in 1..len : f[k - 1] = g[k - 1] => f[k] = g[k]
          /\ len \in Nat /\ f[0] = g[0]
      BY <2>1, <2>2, <2>3, <2>4
    <3> HIDE DEF len
    <3> QED
      BY <3>1, JoinsAgree, ZenonT(40)
  <2>6. g[len + 1] = g[len] \o part
    <3>1. len + 1 \in 1..Len(more) /\ (len + 1) - 1 = len
      BY <2>1
    <3> QED
      BY <2>1, <2>3, <3>1
  <2>7. len \in 0..len
    BY <2>1
  <2> QED
    BY <2>1, <2>2, <2>3, <2>5, <2>6, <2>7 DEF more
<1> QED
  BY <1>1, <1>2, <1>3

\* The last part of a second run is the last of both.
LEMMA LastOfBoth ==
  ASSUME NEW T, NEW first \in Seq(T), NEW rest \in Seq(T), NEW n \in Nat, Len(rest) = n + 1
  PROVE  /\ SubSeq(rest, 1, n) \in Seq(T) /\ Len(SubSeq(rest, 1, n)) = n /\ rest[n + 1] \in T
         /\ rest = Append(SubSeq(rest, 1, n), rest[n + 1])
         /\ first \o rest = Append(first \o SubSeq(rest, 1, n), rest[n + 1])
         /\ first \o SubSeq(rest, 1, n) \in Seq(T)
OBVIOUS

\* Parts in two runs, one after the other, are flattened one after the other.
LEMMA FlattenConcat ==
  ASSUME NEW T, Joinable(T), NEW first \in Seq(T), NEW second \in Seq(T)
  PROVE  FlattenSeq(first \o second) = FlattenSeq(first) \o FlattenSeq(second)
<1> DEFINE P == {n \in Nat : \A rest \in Seq(T) : Len(rest) = n =>
                   FlattenSeq(first \o rest) = FlattenSeq(first) \o FlattenSeq(rest)}
<1>1. 0 \in P
  <2> SUFFICES ASSUME NEW rest \in Seq(T), Len(rest) = 0
               PROVE  FlattenSeq(first \o rest) = FlattenSeq(first) \o FlattenSeq(rest)
    OBVIOUS
  <2>1. rest = <<>> /\ first \o rest = first
    OBVIOUS
  <2>2. FlattenSeq(first) \in T /\ FlattenSeq(<<>>) = <<>>
    BY FlattenAppend
  <2>3. FlattenSeq(first) \o <<>> = FlattenSeq(first)
    BY <2>2, Zenon DEF Joinable
  <2> QED
    BY <2>1, <2>2, <2>3
<1>2. ASSUME NEW n \in Nat, n \in P PROVE n + 1 \in P
  <2> SUFFICES ASSUME NEW rest \in Seq(T), Len(rest) = n + 1
               PROVE  FlattenSeq(first \o rest) = FlattenSeq(first) \o FlattenSeq(rest)
    OBVIOUS
  <2> DEFINE front == SubSeq(rest, 1, n)
             last == rest[n + 1]
  <2>1. /\ front \in Seq(T) /\ Len(front) = n /\ last \in T
        /\ rest = Append(front, last)
        /\ first \o rest = Append(first \o front, last)
        /\ first \o front \in Seq(T)
    BY LastOfBoth
  <2> HIDE DEF front, last
  <2>2. FlattenSeq(first \o front) = FlattenSeq(first) \o FlattenSeq(front)
    BY <1>2, <2>1
  <2>3. /\ FlattenSeq(first \o rest) = FlattenSeq(first \o front) \o last
        /\ FlattenSeq(rest) = FlattenSeq(front) \o last
        /\ FlattenSeq(first) \in T /\ FlattenSeq(front) \in T
    BY <2>1, FlattenAppend
  <2>4. (FlattenSeq(first) \o FlattenSeq(front)) \o last
          = FlattenSeq(first) \o (FlattenSeq(front) \o last)
    BY <2>1, <2>3, ZenonT(40) DEF Joinable
  <2> QED
    BY <2>1, <2>2, <2>3, <2>4
<1>3. \A n \in Nat : n \in P
  <2> HIDE DEF P
  <2> QED
    BY <1>1, <1>2, Induction
<1>4. Len(second) \in P
  BY <1>3
<1> QED
  BY <1>4

\* The same of bytes.
LEMMA FlattenBytes ==
  /\ FlattenSeq(<<>>) = <<>>
  /\ \A parts \in Seq(Bytes) : FlattenSeq(parts) \in Bytes
  /\ \A parts \in Seq(Bytes), part \in Bytes :
       FlattenSeq(Append(parts, part)) = FlattenSeq(parts) \o part
  /\ \A first, second \in Seq(Bytes) :
       FlattenSeq(first \o second) = FlattenSeq(first) \o FlattenSeq(second)
<1>1. Joinable(Bytes)
  BY JoinFacts
<1>2. /\ FlattenSeq(<<>>) = <<>>
      /\ \A parts \in Seq(Bytes) : FlattenSeq(parts) \in Bytes
      /\ \A parts \in Seq(Bytes), part \in Bytes :
           FlattenSeq(Append(parts, part)) = FlattenSeq(parts) \o part
  BY <1>1, FlattenAppend
<1>3. \A first, second \in Seq(Bytes) :
        FlattenSeq(first \o second) = FlattenSeq(first) \o FlattenSeq(second)
  BY <1>1, FlattenConcat
<1> QED
  BY <1>2, <1>3

\* What the elements of a sequence stand for, one after another.
FlatMap(h, s) == FlattenSeq([k \in 1..Len(s) |-> h[s[k]]])

\* It is joined like the sequence.
LEMMA FlatMapFacts ==
  ASSUME NEW T, Joinable(T), NEW E, NEW h \in [E -> T]
  PROVE  /\ FlatMap(h, <<>>) = <<>>
         /\ \A s \in Seq(E) : FlatMap(h, s) \in T
         /\ \A s \in Seq(E), e \in E : FlatMap(h, Append(s, e)) = FlatMap(h, s) \o h[e]
         /\ \A s, t \in Seq(E) : FlatMap(h, s \o t) = FlatMap(h, s) \o FlatMap(h, t)
<1> DEFINE image(s) == [k \in 1..Len(s) |-> h[s[k]]]
<1>1. \A s : FlatMap(h, s) = FlattenSeq(image(s))
  BY DEF FlatMap
<1>2. image(<<>>) = <<>>
  OBVIOUS
<1>3. \A s \in Seq(E) : image(s) \in Seq(T) /\ Len(image(s)) = Len(s)
  OBVIOUS
<1>4. \A s \in Seq(E), e \in E : image(Append(s, e)) = Append(image(s), h[e])
  OBVIOUS
<1>5. \A s, t \in Seq(E) : image(s \o t) = image(s) \o image(t)
  <2> SUFFICES ASSUME NEW s \in Seq(E), NEW t \in Seq(E) PROVE image(s \o t) = image(s) \o image(t)
    OBVIOUS
  <2>1. s \o t \in Seq(E)
    OBVIOUS
  <2>2. /\ Len(image(s \o t)) = Len(s) + Len(t)
        /\ Len(image(s) \o image(t)) = Len(s) + Len(t)
        /\ image(s \o t) \in Seq(T) /\ image(s) \o image(t) \in Seq(T)
    BY <1>3, <2>1
  <2>3. ASSUME NEW i \in 1..(Len(s) + Len(t))
        PROVE  image(s \o t)[i] = (image(s) \o image(t))[i]
    OBVIOUS
  <2> HIDE DEF image
  <2> QED
    BY <2>2, <2>3, SeqEqual
<1> HIDE DEF image
<1>6. FlatMap(h, <<>>) = <<>>
  BY <1>1, <1>2, FlattenAppend
<1>7. \A s \in Seq(E) : FlatMap(h, s) \in T
  BY <1>1, <1>3, FlattenAppend
<1>8. ASSUME NEW s \in Seq(E), NEW e \in E
      PROVE  FlatMap(h, Append(s, e)) = FlatMap(h, s) \o h[e]
  <2>1. image(s) \in Seq(T) /\ h[e] \in T
    BY <1>3
  <2>2. FlattenSeq(Append(image(s), h[e])) = FlattenSeq(image(s)) \o h[e]
    BY <2>1, FlattenAppend
  <2> QED
    BY <1>1, <1>4, <2>2
<1>9. ASSUME NEW s \in Seq(E), NEW t \in Seq(E)
      PROVE  FlatMap(h, s \o t) = FlatMap(h, s) \o FlatMap(h, t)
  <2>1. image(s) \in Seq(T) /\ image(t) \in Seq(T)
    BY <1>3
  <2>2. FlattenSeq(image(s) \o image(t)) = FlattenSeq(image(s)) \o FlattenSeq(image(t))
    BY <2>1, FlattenConcat
  <2>3. image(s \o t) = image(s) \o image(t)
    BY <1>5
  <2>4. FlatMap(h, s \o t) = FlattenSeq(image(s \o t))
    BY <1>1
  <2>5. FlatMap(h, s) = FlattenSeq(image(s)) /\ FlatMap(h, t) = FlattenSeq(image(t))
    BY <1>1
  <2> QED
    BY <2>2, <2>3, <2>4, <2>5
<1> QED
  BY <1>6, <1>7, <1>8, <1>9
-----------------------------------------------------------------------------
\* A sequence is its first elements and the others.
LEMMA CutAt ==
  ASSUME NEW S, NEW s \in Seq(S), NEW n \in 0..Len(s)
  PROVE  /\ SubSeq(s, 1, n) \in Seq(S) /\ SubSeq(s, n + 1, Len(s)) \in Seq(S)
         /\ Len(SubSeq(s, 1, n)) = n
         /\ s = SubSeq(s, 1, n) \o SubSeq(s, n + 1, Len(s))
         /\ n < Len(s) => SubSeq(s, 1, n + 1) = Append(SubSeq(s, 1, n), s[n + 1])
         /\ SubSeq(s, 1, Len(s)) = s /\ SubSeq(s, 1, 0) = <<>>
<1> DEFINE first == SubSeq(s, 1, n)
           others == SubSeq(s, n + 1, Len(s))
<1>1. /\ first \in Seq(S) /\ others \in Seq(S) /\ Len(first) = n /\ Len(others) = Len(s) - n
      /\ Len(s) \in Nat /\ n \in Nat
  OBVIOUS
<1>2. s = first \o others
  <2>1. \A i \in 1..n : first[i] = s[i]
    OBVIOUS
  <2>2. \A i \in 1..(Len(s) - n) : others[i] = s[n + i]
    OBVIOUS
  <2> HIDE DEF first, others
  <2>3. first \o others \in Seq(S) /\ Len(first \o others) = Len(s)
    <3>1. first \o others \in Seq(S) /\ Len(first \o others) = Len(first) + Len(others)
      BY <1>1, ConcatProperties
    <3>2. n + (Len(s) - n) = Len(s)
      BY <1>1
    <3> QED
      BY <1>1, <3>1, <3>2, Zenon
  <2>4. ASSUME NEW i \in 1..Len(s) PROVE (first \o others)[i] = s[i]
    <3>1. (first \o others)[i] = IF i <= n THEN first[i] ELSE others[i - n]
      BY <1>1, ConcatProperties
    <3>2. ~(i <= n) => i - n \in 1..(Len(s) - n) /\ n + (i - n) = i
      BY <1>1
    <3> QED
      BY <2>1, <2>2, <3>1, <3>2
  <2> QED
    BY <2>3, <2>4, SeqEqual
<1>3. n < Len(s) => SubSeq(s, 1, n + 1) = Append(SubSeq(s, 1, n), s[n + 1])
  OBVIOUS
<1>4. SubSeq(s, 1, Len(s)) = s /\ SubSeq(s, 1, 0) = <<>>
  OBVIOUS
<1> QED
  BY <1>1, <1>2, <1>3, <1>4

\* The length of the first parts grows by one part at a time: the recursion it
\* is defined by has a solution.
LEMMA TotalStepwise ==
  ASSUME NEW parts, NEW len \in Nat
  PROVE  \E f : /\ f[0] = 0
                /\ \A k \in 1..len : f[k] = f[k - 1] + Len(parts[k])
                /\ Total(parts, len) = f[len]
<1> DEFINE Solves(f, n) == f = [k \in 0..n |-> IF k = 0 THEN 0 ELSE f[k - 1] + Len(parts[k])]
           P == {n \in Nat : \E f : Solves(f, n)}
<1>1. 0 \in P
  <2>1. Solves([k \in 0..0 |-> 0], 0)
    OBVIOUS
  <2> QED
    BY <2>1
<1>2. ASSUME NEW n \in Nat, n \in P PROVE n + 1 \in P
  <2>1. PICK f : Solves(f, n)
    BY <1>2
  <2> DEFINE g == [k \in 0..(n + 1) |-> IF k = n + 1 THEN f[n] + Len(parts[n + 1]) ELSE f[k]]
  <2>2. ASSUME NEW k \in 0..(n + 1)
        PROVE  g[k] = IF k = 0 THEN 0 ELSE g[k - 1] + Len(parts[k])
    <3>1. CASE k = n + 1
      <4>1. n + 1 \in 0..(n + 1) /\ n \in 0..(n + 1) /\ n + 1 # 0 /\ n # n + 1 /\ (n + 1) - 1 = n
        OBVIOUS
      <4>2. g[n + 1] = f[n] + Len(parts[n + 1]) /\ g[n] = f[n]
        BY <4>1
      <4> QED
        BY <3>1, <4>1, <4>2
    <3>2. CASE k \in 0..n
      <4>1. f[k] = IF k = 0 THEN 0 ELSE f[k - 1] + Len(parts[k])
        BY <2>1, <3>2
      <4>2. k # 0 => k - 1 \in 0..n
        BY <3>2
      <4> QED
        BY <3>2, <4>1, <4>2
    <3> QED
      BY <3>1, <3>2
  <2>3. Solves(g, n + 1)
    BY <2>2
  <2> HIDE DEF g
  <2>4. \E h : Solves(h, n + 1)
    BY <2>3
  <2>5. n + 1 \in Nat
    OBVIOUS
  <2> HIDE DEF Solves
  <2> QED
    BY <2>4, <2>5
<1>3. len \in P
  <2> HIDE DEF P
  <2> QED
    BY <1>1, <1>2, Induction
<1>4. \E f : Solves(f, len)
  BY <1>3
<1> DEFINE upTo == CHOOSE f : Solves(f, len)
<1>5. Solves(upTo, len)
  BY <1>4
<1>6. Total(parts, len) = upTo[len]
  BY DEF Total
<1>7. upTo[0] = 0 /\ \A k \in 1..len : upTo[k] = upTo[k - 1] + Len(parts[k])
  <2> HIDE DEF upTo
  <2> QED
    BY <1>5
<1> HIDE DEF upTo
<1> QED
  BY <1>6, <1>7

\* So no parts have length 0, and one part more adds its length.
LEMMA TotalNext ==
  ASSUME NEW parts
  PROVE  /\ Total(parts, 0) = 0
         /\ \A k \in Nat : Total(parts, k + 1) = Total(parts, k) + Len(parts[k + 1])
<1>1. Total(parts, 0) = 0
  <2>1. 0 \in Nat
    OBVIOUS
  <2>2. PICK f : /\ f[0] = 0
                 /\ \A i \in 1..0 : f[i] = f[i - 1] + Len(parts[i])
                 /\ Total(parts, 0) = f[0]
    BY <2>1, TotalStepwise
  <2> QED
    BY <2>2
<1>2. ASSUME NEW k \in Nat PROVE Total(parts, k + 1) = Total(parts, k) + Len(parts[k + 1])
  <2>1. PICK f : /\ f[0] = 0
                 /\ \A i \in 1..k : f[i] = f[i - 1] + Len(parts[i])
                 /\ Total(parts, k) = f[k]
    BY TotalStepwise
  <2>2. k + 1 \in Nat
    OBVIOUS
  <2>3. PICK g : /\ g[0] = 0
                 /\ \A i \in 1..(k + 1) : g[i] = g[i - 1] + Len(parts[i])
                 /\ Total(parts, k + 1) = g[k + 1]
    BY <2>2, TotalStepwise
  <2>4. \A i \in 1..k : i \in 1..(k + 1)
    OBVIOUS
  <2>5. \A i \in 1..k : f[i - 1] = g[i - 1] => f[i] = g[i]
    BY <2>1, <2>3, <2>4
  <2>6. \A i \in 0..k : f[i] = g[i]
    <3>1. f[0] = g[0]
      BY <2>1, <2>3
    <3> QED
      BY <2>5, <3>1, JoinsAgree
  <2>7. k \in 0..k /\ k + 1 \in 1..(k + 1) /\ (k + 1) - 1 = k
    OBVIOUS
  <2>8. f[k] = g[k] /\ g[k + 1] = g[k] + Len(parts[k + 1])
    <3>1. g[k + 1] = g[(k + 1) - 1] + Len(parts[k + 1])
      BY <2>3, <2>7
    <3> QED
      BY <2>6, <2>7, <3>1
  <2> QED
    BY <2>1, <2>3, <2>8
<1> QED
  BY <1>1, <1>2

\* Totals are numbers that never decrease.
LEMMA TotalsGrow ==
  ASSUME NEW S, NEW parts \in Seq(Seq(S))
  PROVE  /\ \A k \in 0..Len(parts) : Total(parts, k) \in Nat
         /\ \A k \in 1..Len(parts) : /\ Total(parts, k) = Total(parts, k - 1) + Len(parts[k])
                                     /\ Len(parts[k]) \in Nat
         /\ \A j, k \in 0..Len(parts) : j <= k => Total(parts, j) <= Total(parts, k)
<1> DEFINE len == Len(parts)
<1>1. len \in Nat /\ \A k \in 1..len : Len(parts[k]) \in Nat
  OBVIOUS
<1>2. ASSUME NEW k \in 1..len PROVE Total(parts, k) = Total(parts, k - 1) + Len(parts[k])
  <2>1. k - 1 \in Nat /\ (k - 1) + 1 = k
    BY <1>1
  <2> QED
    BY <2>1, TotalNext
<1> DEFINE P == {k \in Nat : k <= len => Total(parts, k) \in Nat}
<1>3. 0 \in P
  BY TotalNext
<1>4. ASSUME NEW k \in Nat, k \in P PROVE k + 1 \in P
  <2> SUFFICES ASSUME k + 1 <= len PROVE Total(parts, k + 1) \in Nat
    OBVIOUS
  <2>1. Total(parts, k) \in Nat
    BY <1>1, <1>4
  <2>2. Total(parts, k + 1) = Total(parts, k) + Len(parts[k + 1])
    BY TotalNext
  <2>3. Len(parts[k + 1]) \in Nat
    BY <1>1
  <2> QED
    BY <2>1, <2>2, <2>3
<1>5. \A k \in 0..len : Total(parts, k) \in Nat
  <2>1. \A k \in Nat : k \in P
    <3> HIDE DEF P
    <3> QED
      BY <1>3, <1>4, Induction
  <2> QED
    BY <2>1
<1>6. ASSUME NEW j \in 0..len PROVE \A k \in 0..len : j <= k => Total(parts, j) <= Total(parts, k)
  <2> DEFINE Q == {n \in Nat : j + n <= len => Total(parts, j) <= Total(parts, j + n)}
  <2>1. 0 \in Q
    <3>1. j + 0 = j /\ Total(parts, j) \in Nat
      BY <1>5
    <3> QED
      BY <3>1
  <2>2. ASSUME NEW n \in Nat, n \in Q PROVE n + 1 \in Q
    <3> SUFFICES ASSUME j + (n + 1) <= len PROVE Total(parts, j) <= Total(parts, j + (n + 1))
      OBVIOUS
    <3>1. j + (n + 1) = (j + n) + 1 /\ j + n \in Nat /\ j + n <= len /\ (j + n) + 1 \in 1..len
          /\ j + n \in 0..len
      BY <1>1
    <3>2. Total(parts, j) <= Total(parts, j + n)
      BY <2>2, <3>1
    <3>3. Total(parts, (j + n) + 1) = Total(parts, j + n) + Len(parts[(j + n) + 1])
      BY <3>1, TotalNext
    <3>4. Total(parts, j + n) \in Nat /\ Len(parts[(j + n) + 1]) \in Nat /\ Total(parts, j) \in Nat
      BY <1>1, <1>5, <3>1
    <3> QED
      BY <3>1, <3>2, <3>3, <3>4
  <2>3. \A n \in Nat : n \in Q
    <3> HIDE DEF Q
    <3> QED
      BY <2>1, <2>2, Induction
  <2> SUFFICES ASSUME NEW k \in 0..len, j <= k PROVE Total(parts, j) <= Total(parts, k)
    OBVIOUS
  <2>4. k - j \in Nat /\ j + (k - j) = k /\ k <= len
    BY <1>1
  <2>5. k - j \in Q
    BY <2>3, <2>4
  <2> QED
    BY <2>4, <2>5
<1> QED
  BY <1>1, <1>2, <1>5, <1>6

\* The same of bytes.
LEMMA TotalFacts ==
  ASSUME NEW parts \in Seq(Bytes)
  PROVE  /\ \A k \in 0..Len(parts) : Total(parts, k) \in Nat
         /\ \A k \in 1..Len(parts) : /\ Total(parts, k) = Total(parts, k - 1) + Len(parts[k])
                                     /\ Len(parts[k]) \in Nat
         /\ \A j, k \in 0..Len(parts) : j <= k => Total(parts, j) <= Total(parts, k)
BY TotalsGrow DEF Bytes

\* A run of parts cut in two has its first lengths from the first part.
LEMMA TotalOfFront ==
  ASSUME NEW S, NEW parts \in Seq(S), NEW n \in 0..Len(parts)
  PROVE  \A k \in 0..n : Total(SubSeq(parts, 1, n), k) = Total(parts, k)
<1> DEFINE front == SubSeq(parts, 1, n)
           P == {k \in Nat : k <= n => Total(front, k) = Total(parts, k)}
<1>1. n \in Nat /\ \A k \in 1..n : front[k] = parts[k]
  OBVIOUS
<1> HIDE DEF front
<1>2. 0 \in P
  BY TotalNext
<1>3. ASSUME NEW k \in Nat, k \in P PROVE k + 1 \in P
  <2> SUFFICES ASSUME k + 1 <= n PROVE Total(front, k + 1) = Total(parts, k + 1)
    OBVIOUS
  <2>1. Total(front, k) = Total(parts, k) /\ front[k + 1] = parts[k + 1]
    BY <1>1, <1>3
  <2>2. /\ Total(front, k + 1) = Total(front, k) + Len(front[k + 1])
        /\ Total(parts, k + 1) = Total(parts, k) + Len(parts[k + 1])
    BY TotalNext
  <2> QED
    BY <2>1, <2>2
<1>4. \A k \in Nat : k \in P
  <2> HIDE DEF P
  <2> QED
    BY <1>2, <1>3, Induction
<1> QED
  BY <1>1, <1>4 DEF front

\* Together the parts are as long as their lengths add up to.
LEMMA TotalOfAll ==
  ASSUME NEW S, NEW parts \in Seq(Seq(S))
  PROVE  FlattenSeq(parts) \in Seq(S) /\ Len(FlattenSeq(parts)) = Total(parts, Len(parts))
<1> DEFINE len == Len(parts)
<1>1. len \in Nat
  OBVIOUS
<1>2. PICK f : /\ f[0] = <<>>
               /\ \A k \in 1..Len(parts) : f[k] = f[k - 1] \o parts[k]
               /\ FlattenSeq(parts) = f[Len(parts)]
  BY SequencesJoin, FlattenStepwise
<1> DEFINE P == {k \in Nat : k <= len => f[k] \in Seq(S) /\ Len(f[k]) = Total(parts, k)}
<1>3. 0 \in P
  <2>1. <<>> \in Seq(S) /\ Len(<<>>) = 0
    OBVIOUS
  <2> QED
    BY <1>2, <2>1, TotalNext
<1>4. ASSUME NEW k \in Nat, k \in P PROVE k + 1 \in P
  <2> SUFFICES ASSUME k + 1 <= len PROVE f[k + 1] \in Seq(S) /\ Len(f[k + 1]) = Total(parts, k + 1)
    OBVIOUS
  <2>1. /\ f[k] \in Seq(S) /\ Len(f[k]) = Total(parts, k) /\ k + 1 \in 1..len /\ (k + 1) - 1 = k
        /\ parts[k + 1] \in Seq(S)
    BY <1>1, <1>4
  <2>2. f[k + 1] = f[k] \o parts[k + 1]
    BY <1>2, <2>1
  <2>3. Total(parts, k + 1) = Total(parts, k) + Len(parts[k + 1])
    BY TotalNext
  <2>4. \A a, b \in Seq(S) : a \o b \in Seq(S) /\ Len(a \o b) = Len(a) + Len(b)
    OBVIOUS
  <2> QED
    BY <2>1, <2>2, <2>3, <2>4
<1>5. \A k \in Nat : k \in P
  <2> HIDE DEF P
  <2> QED
    BY <1>3, <1>4, Induction
<1>6. len \in P
  BY <1>1, <1>5
<1> QED
  BY <1>1, <1>2, <1>6
\* So are the lexemes of a run.
LEMMA TotalIsLength ==
  ASSUME NEW parts \in Seq(Bytes)
  PROVE  FlattenSeq(parts) \in Bytes /\ Len(FlattenSeq(parts)) = Total(parts, Len(parts))
BY TotalOfAll DEF Bytes

\* Every element of a part is in its place behind the parts before.
LEMMA FlattenedElement ==
  ASSUME NEW S, NEW parts \in Seq(Seq(S)), NEW k \in 1..Len(parts), NEW i \in 1..Len(parts[k])
  PROVE  /\ Total(parts, k - 1) + i \in 1..Len(FlattenSeq(parts))
         /\ FlattenSeq(parts)[Total(parts, k - 1) + i] = parts[k][i]
<1> DEFINE m == k - 1
           before == SubSeq(parts, 1, m)
           others == SubSeq(parts, k + 1, Len(parts))
           a == FlattenSeq(before)
           b == parts[k]
           c == FlattenSeq(others)
<1>1. /\ m \in 0..Len(parts) /\ k \in 0..Len(parts) /\ m < Len(parts) /\ m + 1 = k /\ m \in Nat
      /\ b \in Seq(S) /\ m \in 0..m /\ m \in 0..Len(parts)
  OBVIOUS
<1> HIDE DEF m
<1>2. Joinable(Seq(S))
  BY SequencesJoin
<1>3. before \in Seq(Seq(S)) /\ Len(before) = m /\ SubSeq(parts, 1, m + 1) = Append(before, parts[m + 1])
  BY <1>1, CutAt, ZenonT(40)
<1>4. /\ SubSeq(parts, 1, k) \in Seq(Seq(S)) /\ others \in Seq(Seq(S))
      /\ parts = SubSeq(parts, 1, k) \o others
  BY <1>1, CutAt, ZenonT(40)
<1>5. FlattenSeq(parts) = FlattenSeq(SubSeq(parts, 1, k)) \o c
  BY <1>2, <1>4, FlattenConcat, ZenonT(40)
<1> HIDE DEF before, others
<1>6. FlattenSeq(Append(before, b)) = a \o b
  BY <1>1, <1>2, <1>3, FlattenAppend, ZenonT(40)
<1>7. a \in Seq(S) /\ c \in Seq(S) /\ Len(a) = Total(before, m)
  <2>1. a \in Seq(S) /\ Len(a) = Total(before, Len(before))
    BY <1>3, TotalOfAll, ZenonT(40)
  <2>2. c \in Seq(S)
    BY <1>4, TotalOfAll, ZenonT(40)
  <2> QED
    BY <1>3, <2>1, <2>2
<1>8. Total(before, m) = Total(parts, m)
  BY <1>1, TotalOfFront, ZenonT(40) DEF before
<1>9. FlattenSeq(parts) = (a \o b) \o c
  BY <1>1, <1>3, <1>5, <1>6
<1> HIDE DEF a, b, c
<1>10. /\ Len(a) + i \in 1..Len((a \o b) \o c) /\ ((a \o b) \o c)[Len(a) + i] = b[i]
  <2>1. i \in 1..Len(b)
    BY DEF b
  <2> QED
    BY <1>1, <1>7, <2>1
<1> QED
  BY <1>7, <1>8, <1>9, <1>10 DEF m, b

\* So every part is the slice of the whole between its own bounds.
LEMMA PartIsSlice ==
  ASSUME NEW parts \in Seq(Bytes), NEW k \in 1..Len(parts)
  PROVE  Slice(FlattenSeq(parts), Total(parts, k - 1), Total(parts, k)) = parts[k]
<1> DEFINE raw == FlattenSeq(parts)
           from == Total(parts, k - 1)
           to == Total(parts, k)
           piece == Slice(raw, from, to)
<1>1. raw \in Bytes /\ Len(raw) = Total(parts, Len(parts))
  BY TotalIsLength
<1>2. /\ from \in Nat /\ to \in Nat /\ to = from + Len(parts[k]) /\ from <= to
      /\ Len(parts[k]) \in Nat /\ to <= Len(raw)
  <2>1. k - 1 \in 0..Len(parts) /\ k \in 0..Len(parts) /\ Len(parts) \in 0..Len(parts) /\ k <= Len(parts)
        /\ k - 1 <= k
    OBVIOUS
  <2> QED
    BY <1>1, <2>1, TotalFacts
<1>3. \A i \in 1..Len(parts[k]) : raw[from + i] = parts[k][i]
  BY FlattenedElement DEF Bytes
<1> HIDE DEF raw, from, to
<1>4. piece \in Bytes /\ Len(piece) = Len(parts[k]) /\ \A i \in 1..Len(parts[k]) : piece[i] = raw[from + i]
  <2>1. to - from = Len(parts[k])
    BY <1>2
  <2>2. from \in Nat /\ to \in Nat /\ from <= to /\ to <= Len(raw)
    BY <1>2
  <2>3. /\ piece \in Bytes /\ Len(piece) = to - from
        /\ \A i \in 1..(to - from) : piece[i] = raw[from + i]
    BY <1>1, <2>2, SliceWithin, ZenonT(40)
  <2> QED
    BY <2>1, <2>3
<1> HIDE DEF piece
<1>5. piece = parts[k]
  <2>1. parts[k] \in Seq(Nat) /\ piece \in Seq(Nat)
    BY <1>4 DEF Bytes
  <2>2. \A i \in 1..Len(piece) : piece[i] = parts[k][i]
    BY <1>3, <1>4
  <2> QED
    BY <1>4, <2>1, <2>2, SeqEqual
<1> QED
  BY <1>5 DEF piece, raw, from, to

-----------------------------------------------------------------------------
\* The place halfway between two others lies between them.
LEMMA Halfway ==
  \A low, high \in Nat : low < high =>
    /\ (low + high) \div 2 \in Nat
    /\ low <= (low + high) \div 2 /\ (low + high) \div 2 < high
OBVIOUS

\* What holds of a sorted sequence up to some place and not beyond it has such
\* a place.
LEMMA CutPlace ==
  ASSUME NEW N \in Nat, NEW below,
         \A i, j \in 1..N : i <= j /\ j \in below => i \in below
  PROVE  \E cut \in 0..N : \A i \in 1..N : i \in below <=> i <= cut
<1> DEFINE stops == {k \in 0..N : k < N => k + 1 \notin below}
<1>1. N \in stops /\ stops \in SUBSET Nat
  OBVIOUS
<1>2. PICK cut \in stops : \A k \in stops : cut <= k
  BY <1>1, LeastNatural
<1>3. ASSUME NEW i \in 1..N, i <= cut PROVE i \in below
  <2>1. i - 1 \in 0..N /\ i - 1 < N /\ (i - 1) + 1 = i /\ ~(cut <= i - 1)
    BY <1>2, <1>3
  <2>2. i - 1 \notin stops
    BY <1>2, <2>1
  <2> QED
    BY <2>1, <2>2
<1>4. ASSUME NEW i \in 1..N, ~(i <= cut) PROVE i \notin below
  <2>1. cut \in 0..N /\ cut < N /\ cut + 1 \in 1..N /\ cut + 1 <= i
    BY <1>2, <1>4
  <2>2. cut + 1 \notin below
    BY <1>2, <2>1
  <2> QED
    BY <2>1, <2>2
<1> QED
  BY <1>2, <1>3, <1>4

\* A function of two places that halves the distance between them.
Bisects(g, N, cut) ==
  /\ \A low, high \in 0..N : low >= high => g[<<low, high>>] = low
  /\ \A low, high \in 0..N : low < high /\ (low + high) \div 2 + 1 <= cut =>
       g[<<low, high>>] = g[<<(low + high) \div 2 + 1, high>>]
  /\ \A low, high \in 0..N : low < high /\ ~((low + high) \div 2 + 1 <= cut) =>
       g[<<low, high>>] = g[<<low, (low + high) \div 2>>]

\* A bisection ends at the cut.
LEMMA BisectionEnds ==
  ASSUME NEW N \in Nat, NEW cut \in 0..N, NEW g,
         Bisects(g, N, cut)
  PROVE  g[<<0, N>>] = cut
<1> DEFINE P == {n \in Nat : \A low, high \in 0..N :
                   low <= cut /\ cut <= high /\ high <= low + n => g[<<low, high>>] = cut}
<1>1. 0 \in P
  <2> SUFFICES ASSUME NEW low \in 0..N, NEW high \in 0..N,
                      low <= cut, cut <= high, high <= low + 0
               PROVE  g[<<low, high>>] = cut
    OBVIOUS
  <2>1. low = cut /\ low >= high
    OBVIOUS
  <2> QED
    BY <2>1 DEF Bisects
<1>2. ASSUME NEW n \in Nat, n \in P PROVE n + 1 \in P
  <2> SUFFICES ASSUME NEW low \in 0..N, NEW high \in 0..N,
                      low <= cut, cut <= high, high <= low + (n + 1)
               PROVE  g[<<low, high>>] = cut
    OBVIOUS
  <2> DEFINE mid == (low + high) \div 2
  <2>1. CASE low >= high
    <3>1. low = cut
      BY <2>1
    <3> QED
      BY <2>1, <3>1 DEF Bisects
  <2>2. CASE low < high
    <3>1. mid \in Nat /\ low <= mid /\ mid < high
      BY <2>2, Halfway
    <3>2. /\ mid + 1 <= cut => g[<<low, high>>] = g[<<mid + 1, high>>]
          /\ ~(mid + 1 <= cut) => g[<<low, high>>] = g[<<low, mid>>]
      BY <2>2 DEF Bisects
    <3> HIDE DEF mid
    <3>3. /\ mid + 1 \in 0..N /\ mid \in 0..N
          /\ high <= (mid + 1) + n /\ mid <= low + n
          /\ ~(mid + 1 <= cut) => cut <= mid
      BY <3>1
    <3>4. mid + 1 <= cut => g[<<mid + 1, high>>] = cut
      BY <1>2, <3>3
    <3>5. ~(mid + 1 <= cut) => g[<<low, mid>>] = cut
      BY <1>2, <3>3
    <3> QED
      BY <3>2, <3>4, <3>5
  <2> QED
    BY <2>1, <2>2
<1>3. \A n \in Nat : n \in P
  <2> HIDE DEF P
  <2> QED
    BY <1>1, <1>2, Induction
<1>4. N \in P
  BY <1>3
<1> QED
  BY <1>4

\* There is a bisection: from every two places it ends at the one that is
\* nearest to the cut.
LEMMA BisectionExists ==
  ASSUME NEW N \in Nat, NEW cut \in 0..N
  PROVE  \E c : c = [at \in (0..N) \X (0..N) |-> c[at]] /\ Bisects(c, N, cut)
<1> DEFINE near(low, high) == IF low >= high THEN low
                              ELSE IF cut <= low THEN low ELSE IF cut >= high THEN high ELSE cut
           c == [at \in (0..N) \X (0..N) |-> near(at[1], at[2])]
<1>1. \A low, high \in 0..N : c[<<low, high>>] = near(low, high)
  OBVIOUS
<1>2. c = [at \in (0..N) \X (0..N) |-> c[at]]
  OBVIOUS
<1> HIDE DEF c
<1>3. \A low, high \in 0..N : low >= high => c[<<low, high>>] = low
  BY <1>1
<1>4. ASSUME NEW low \in 0..N, NEW high \in 0..N, low < high
      PROVE  /\ (low + high) \div 2 + 1 <= cut => c[<<low, high>>] = c[<<(low + high) \div 2 + 1, high>>]
             /\ ~((low + high) \div 2 + 1 <= cut) => c[<<low, high>>] = c[<<low, (low + high) \div 2>>]
  <2> DEFINE mid == (low + high) \div 2
  <2>1. mid \in Nat /\ low <= mid /\ mid < high
    BY <1>4, Halfway
  <2> HIDE DEF mid
  <2>2. mid + 1 \in 0..N /\ mid \in 0..N
    BY <2>1
  <2>3. /\ c[<<low, high>>] = near(low, high) /\ c[<<mid + 1, high>>] = near(mid + 1, high)
        /\ c[<<low, mid>>] = near(low, mid)
    BY <1>1, <2>2
  <2>4. mid + 1 <= cut => near(low, high) = near(mid + 1, high)
    BY <1>4, <2>1, <2>2
  <2>5. ~(mid + 1 <= cut) => near(low, high) = near(low, mid)
    BY <1>4, <2>1, <2>2
  <2> HIDE DEF near
  <2>6. /\ mid + 1 <= cut => c[<<low, high>>] = c[<<mid + 1, high>>]
        /\ ~(mid + 1 <= cut) => c[<<low, high>>] = c[<<low, mid>>]
    BY <2>3, <2>4, <2>5
  <2> QED
    BY <2>6 DEF mid
<1>5. Bisects(c, N, cut)
  BY <1>3, <1>4 DEF Bisects
<1> QED
  BY <1>2, <1>5

\* upper_bound counts the values of a sorted sequence that are at most the needle.
LEMMA UpperBoundIs ==
  ASSUME NEW values \in Seq(Nat), NEW needle \in Nat,
         \A i, j \in 1..Len(values) : i <= j => values[i] <= values[j]
  PROVE  /\ UpperBound(values, needle) \in 0..Len(values)
         /\ \A i \in 1..Len(values) : values[i] <= needle <=> i <= UpperBound(values, needle)
<1> DEFINE N == Len(values)
           Places == (0..N) \X (0..N)
           half(at) == (at[1] + at[2]) \div 2
           found(s, at) == CASE at[1] >= at[2] -> at[1]
                             [] at[1] < at[2] /\ values[half(at) + 1] <= needle ->
                                  s[<<half(at) + 1, at[2]>>]
                             [] OTHER -> s[<<at[1], half(at)>>]
           Solves(s) == s = [at \in Places |-> found(s, at)]
           below == {i \in 1..N : values[i] <= needle}
<1>1. N \in Nat /\ \A i \in 1..N : values[i] \in Nat
  OBVIOUS
<1>2. PICK cut \in 0..N : \A i \in 1..N : values[i] <= needle <=> i <= cut
  <2>1. \A i \in 1..N : i \in below <=> values[i] <= needle
    OBVIOUS
  <2>2. \A i, j \in 1..N : i <= j /\ j \in below => i \in below
    BY <1>1, <2>1
  <2> HIDE DEF below, N
  <2>3. \E cut \in 0..N : \A i \in 1..N : i \in below <=> i <= cut
    BY <1>1, <2>1, <2>2, CutPlace
  <2> QED
    BY <2>1, <2>3
<1>3. \A low, high \in 0..N : low < high =>
        (values[(low + high) \div 2 + 1] <= needle <=> (low + high) \div 2 + 1 <= cut)
  <2> SUFFICES ASSUME NEW low \in 0..N, NEW high \in 0..N, low < high
               PROVE  values[(low + high) \div 2 + 1] <= needle <=> (low + high) \div 2 + 1 <= cut
    OBVIOUS
  <2> DEFINE mid == (low + high) \div 2
  <2>1. mid \in Nat /\ low <= mid /\ mid < high
    BY Halfway
  <2> HIDE DEF mid
  <2>2. mid + 1 \in 1..N
    BY <1>1, <2>1
  <2>3. values[mid + 1] <= needle <=> mid + 1 <= cut
    BY <1>2, <2>2
  <2> QED
    BY <2>3 DEF mid
<1> HIDE DEF N
<1>4. \E s : Solves(s)
  <2>1. PICK c : c = [at \in (0..N) \X (0..N) |-> c[at]] /\ Bisects(c, N, cut)
    BY <1>1, BisectionExists
  <2>2. ASSUME NEW at \in Places PROVE c[at] = found(c, at)
    <3>1. PICK low \in 0..N, high \in 0..N : at = <<low, high>>
      OBVIOUS
    <3>2. at[1] = low /\ at[2] = high /\ half(at) = (low + high) \div 2
      BY <3>1
    <3>3. low >= high \/ low < high
      BY <1>1
    <3>4. low >= high => c[at] = low
      BY <2>1, <3>1, Zenon DEF Bisects
    <3>5. low < high <=> ~(low >= high)
      BY <1>1
    <3>6. low < high /\ values[(low + high) \div 2 + 1] <= needle =>
            c[at] = c[<<(low + high) \div 2 + 1, high>>]
      BY <1>3, <2>1, <3>1 DEF Bisects
    <3>7. low < high /\ ~(values[(low + high) \div 2 + 1] <= needle) =>
            c[at] = c[<<low, (low + high) \div 2>>]
      BY <1>3, <2>1, <3>1 DEF Bisects
    <3> HIDE DEF half
    <3> QED
      BY <3>2, <3>3, <3>4, <3>5, <3>6, <3>7
  <2>3. Solves(c)
    <3> HIDE DEF found, Places
    <3>1. c = [at \in Places |-> c[at]]
      BY <2>1 DEF Places
    <3> QED
      BY <2>2, <3>1
  <2> QED
    BY <2>3
<1> DEFINE search == CHOOSE s : Solves(s)
<1>5. Solves(search)
  BY <1>4
<1>6. UpperBound(values, needle) = search[<<0, N>>]
  BY DEF UpperBound, N
<1> HIDE DEF search
<1>7. ASSUME NEW low \in 0..N, NEW high \in 0..N
      PROVE  /\ low >= high => search[<<low, high>>] = low
             /\ low < high /\ (low + high) \div 2 + 1 <= cut =>
                  search[<<low, high>>] = search[<<(low + high) \div 2 + 1, high>>]
             /\ low < high /\ ~((low + high) \div 2 + 1 <= cut) =>
                  search[<<low, high>>] = search[<<low, (low + high) \div 2>>]
  <2> DEFINE at == <<low, high>>
  <2>1. /\ at \in Places /\ at[1] = low /\ at[2] = high /\ half(at) = (low + high) \div 2
    OBVIOUS
  <2>2. search[at] = found(search, at)
    <3> HIDE DEF found, at
    <3> QED
      BY <1>5, <2>1
  <2>3. low < high => (values[(low + high) \div 2 + 1] <= needle <=> (low + high) \div 2 + 1 <= cut)
    BY <1>3
  <2>4. low < high <=> ~(low >= high)
    BY <1>1
  <2>5. at = <<low, high>>
    OBVIOUS
  <2> HIDE DEF at, half
  <2> QED
    BY <2>1, <2>2, <2>3, <2>4, <2>5
<1>8. search[<<0, N>>] = cut
  <2>1. Bisects(search, N, cut)
    BY <1>7 DEF Bisects
  <2> QED
    BY <1>1, <2>1, BisectionEnds
<1> QED
  BY <1>2, <1>6, <1>8 DEF N

\* lower_bound counts those that are less.
LEMMA LowerBoundIs ==
  ASSUME NEW values \in Seq(Nat), NEW needle \in Nat,
         \A i, j \in 1..Len(values) : i <= j => values[i] <= values[j]
  PROVE  /\ LowerBound(values, needle) \in 0..Len(values)
         /\ \A i \in 1..Len(values) : values[i] < needle <=> i <= LowerBound(values, needle)
<1> DEFINE N == Len(values)
           Places == (0..N) \X (0..N)
           half(at) == (at[1] + at[2]) \div 2
           found(s, at) == CASE at[1] >= at[2] -> at[1]
                             [] at[1] < at[2] /\ values[half(at) + 1] < needle ->
                                  s[<<half(at) + 1, at[2]>>]
                             [] OTHER -> s[<<at[1], half(at)>>]
           Solves(s) == s = [at \in Places |-> found(s, at)]
           below == {i \in 1..N : values[i] < needle}
<1>1. N \in Nat /\ \A i \in 1..N : values[i] \in Nat
  OBVIOUS
<1>2. PICK cut \in 0..N : \A i \in 1..N : values[i] < needle <=> i <= cut
  <2>1. \A i \in 1..N : i \in below <=> values[i] < needle
    OBVIOUS
  <2>2. \A i, j \in 1..N : i <= j /\ j \in below => i \in below
    BY <1>1, <2>1
  <2> HIDE DEF below, N
  <2>3. \E cut \in 0..N : \A i \in 1..N : i \in below <=> i <= cut
    BY <1>1, <2>1, <2>2, CutPlace
  <2> QED
    BY <2>1, <2>3
<1>3. \A low, high \in 0..N : low < high =>
        (values[(low + high) \div 2 + 1] < needle <=> (low + high) \div 2 + 1 <= cut)
  <2> SUFFICES ASSUME NEW low \in 0..N, NEW high \in 0..N, low < high
               PROVE  values[(low + high) \div 2 + 1] < needle <=> (low + high) \div 2 + 1 <= cut
    OBVIOUS
  <2> DEFINE mid == (low + high) \div 2
  <2>1. mid \in Nat /\ low <= mid /\ mid < high
    BY Halfway
  <2> HIDE DEF mid
  <2>2. mid + 1 \in 1..N
    BY <1>1, <2>1
  <2>3. values[mid + 1] < needle <=> mid + 1 <= cut
    BY <1>2, <2>2
  <2> QED
    BY <2>3 DEF mid
<1> HIDE DEF N
<1>4. \E s : Solves(s)
  <2>1. PICK c : c = [at \in (0..N) \X (0..N) |-> c[at]] /\ Bisects(c, N, cut)
    BY <1>1, BisectionExists
  <2>2. ASSUME NEW at \in Places PROVE c[at] = found(c, at)
    <3>1. PICK low \in 0..N, high \in 0..N : at = <<low, high>>
      OBVIOUS
    <3>2. at[1] = low /\ at[2] = high /\ half(at) = (low + high) \div 2
      BY <3>1
    <3>3. low >= high \/ low < high
      BY <1>1
    <3>4. low >= high => c[at] = low
      BY <2>1, <3>1, Zenon DEF Bisects
    <3>5. low < high <=> ~(low >= high)
      BY <1>1
    <3>6. low < high /\ values[(low + high) \div 2 + 1] < needle =>
            c[at] = c[<<(low + high) \div 2 + 1, high>>]
      BY <1>3, <2>1, <3>1 DEF Bisects
    <3>7. low < high /\ ~(values[(low + high) \div 2 + 1] < needle) =>
            c[at] = c[<<low, (low + high) \div 2>>]
      BY <1>3, <2>1, <3>1 DEF Bisects
    <3> HIDE DEF half
    <3> QED
      BY <3>2, <3>3, <3>4, <3>5, <3>6, <3>7
  <2>3. Solves(c)
    <3> HIDE DEF found, Places
    <3>1. c = [at \in Places |-> c[at]]
      BY <2>1 DEF Places
    <3> QED
      BY <2>2, <3>1
  <2> QED
    BY <2>3
<1> DEFINE search == CHOOSE s : Solves(s)
<1>5. Solves(search)
  BY <1>4
<1>6. LowerBound(values, needle) = search[<<0, N>>]
  BY DEF LowerBound, N
<1> HIDE DEF search
<1>7. ASSUME NEW low \in 0..N, NEW high \in 0..N
      PROVE  /\ low >= high => search[<<low, high>>] = low
             /\ low < high /\ (low + high) \div 2 + 1 <= cut =>
                  search[<<low, high>>] = search[<<(low + high) \div 2 + 1, high>>]
             /\ low < high /\ ~((low + high) \div 2 + 1 <= cut) =>
                  search[<<low, high>>] = search[<<low, (low + high) \div 2>>]
  <2> DEFINE at == <<low, high>>
  <2>1. /\ at \in Places /\ at[1] = low /\ at[2] = high /\ half(at) = (low + high) \div 2
    OBVIOUS
  <2>2. search[at] = found(search, at)
    <3> HIDE DEF found, at
    <3> QED
      BY <1>5, <2>1
  <2>3. low < high => (values[(low + high) \div 2 + 1] < needle <=> (low + high) \div 2 + 1 <= cut)
    BY <1>3
  <2>4. low < high <=> ~(low >= high)
    BY <1>1
  <2>5. at = <<low, high>>
    OBVIOUS
  <2> HIDE DEF at, half
  <2> QED
    BY <2>1, <2>2, <2>3, <2>4, <2>5
<1>8. search[<<0, N>>] = cut
  <2>1. Bisects(search, N, cut)
    BY <1>7 DEF Bisects
  <2> QED
    BY <1>1, <2>1, BisectionEnds
<1> QED
  BY <1>2, <1>6, <1>8 DEF N
-----------------------------------------------------------------------------
\* A nonempty set of naturals has its minimum in it, below all others.
LEMMA MinFacts ==
  ASSUME NEW S \in SUBSET Nat, S # {}
  PROVE  Min(S) \in S /\ \A x \in S : Min(S) <= x
<1>1. \E m \in S : \A x \in S : m <= x
  BY LeastNatural
<1> QED
  BY <1>1 DEF Min

\* The beginning of a byte string: its length and its bytes.
LEMMA SliceFacts ==
  ASSUME NEW a \in Bytes, NEW n \in Nat, n <= Len(a)
  PROVE  /\ Slice(a, 0, n) \in Bytes /\ Len(Slice(a, 0, n)) = n
         /\ \A k \in 1..n : Slice(a, 0, n)[k] = a[k]
BY DEF Slice, Bytes

\* Two byte strings begin with the same bytes if they are equal one by one.
LEMMA SlicesEqual ==
  ASSUME NEW a \in Bytes, NEW b \in Bytes, NEW n \in Nat, n <= Len(a), n <= Len(b)
  PROVE  Slice(a, 0, n) = Slice(b, 0, n) <=> \A k \in 1..n : a[k] = b[k]
<1> DEFINE x == Slice(a, 0, n)
           y == Slice(b, 0, n)
<1>1. /\ x \in Bytes /\ Len(x) = n /\ \A k \in 1..n : x[k] = a[k]
      /\ y \in Bytes /\ Len(y) = n /\ \A k \in 1..n : y[k] = b[k]
  BY SliceFacts
<1> HIDE DEF x, y
<1>2. x = y => \A k \in 1..n : a[k] = b[k]
  BY <1>1
<1>3. ASSUME \A k \in 1..n : a[k] = b[k] PROVE x = y
  <2>1. x \in Seq(Nat) /\ y \in Seq(Nat)
    BY <1>1 DEF Bytes
  <2>2. \A k \in 1..Len(x) : x[k] = y[k]
    BY <1>1, <1>3
  <2> QED
    BY <1>1, <2>1, <2>2, SeqEqual
<1> QED
  BY <1>2, <1>3 DEF x, y

\* Counting the numbers up to n that lie in a set, one at a time.
LEMMA OneMore ==
  ASSUME NEW n \in Nat, NEW S
  PROVE  LET among(m) == {k \in 1..m : k \in S}
         IN  /\ Cardinality(among(n)) \in Nat /\ IsFiniteSet(among(n))
             /\ Cardinality(among(n + 1)) = Cardinality(among(n)) + (IF n + 1 \in S THEN 1 ELSE 0)
<1> DEFINE among(m) == {k \in 1..m : k \in S}
<1>1. IsFiniteSet(among(n))
  <2>1. IsFiniteSet(1..n)
    BY FS_Interval
  <2>2. among(n) \subseteq 1..n
    OBVIOUS
  <2> HIDE DEF among
  <2> QED
    BY <2>1, <2>2, FS_Subset
<1>2. Cardinality(among(n)) \in Nat
  <2> HIDE DEF among
  <2> QED
    BY <1>1, FS_CardinalityType
<1>3. ASSUME n + 1 \in S PROVE Cardinality(among(n + 1)) = Cardinality(among(n)) + 1
  <2>1. among(n + 1) = among(n) \cup {n + 1} /\ ~(n + 1 \in among(n))
    BY <1>3
  <2> HIDE DEF among
  <2>2. Cardinality(among(n) \cup {n + 1}) = Cardinality(among(n)) + 1
    BY <1>1, <2>1, FS_AddElement
  <2> QED
    BY <1>1, <1>2, <1>3, <2>1, <2>2
<1>4. ASSUME ~(n + 1 \in S) PROVE Cardinality(among(n + 1)) = Cardinality(among(n)) + 0
  <2>1. among(n + 1) = among(n)
    BY <1>4
  <2> HIDE DEF among
  <2> QED
    BY <1>1, <1>2, <1>4, <2>1
<1> QED
  BY <1>1, <1>2, <1>3, <1>4, Zenon

\* The least of four numbers.
LEMMA LeastOfFour ==
  ASSUME NEW a \in Nat, NEW b \in Nat, NEW c \in Nat, NEW d \in Nat
  PROVE  LET m == Min({a, b, c, d})
         IN  m \in Nat /\ m \in {a, b, c, d} /\ m <= a /\ m <= b /\ m <= c /\ m <= d
<1>1. {a, b, c, d} \in SUBSET Nat /\ {a, b, c, d} # {}
  OBVIOUS
<1> QED
  BY <1>1, MinFacts
-----------------------------------------------------------------------------
\* The IDs of a target vocabulary.
IdsOf(tokens) == 0..(Len(tokens) - 1)

\* The texts of token IDs are joined like the IDs: at either end.
LEMMA DecodeFacts ==
  ASSUME NEW tokens \in Seq(Bytes)
  PROVE  /\ Decode(tokens, <<>>) = <<>>
         /\ \A id \in IdsOf(tokens) : TokenBytes(tokens, id) \in Bytes
         /\ \A ids \in Seq(IdsOf(tokens)) : Decode(tokens, ids) \in Bytes
         /\ \A ids \in Seq(IdsOf(tokens)), id \in IdsOf(tokens) :
              Decode(tokens, Append(ids, id)) = Decode(tokens, ids) \o TokenBytes(tokens, id)
         /\ \A ids \in Seq(IdsOf(tokens)) : ids # <<>> =>
              Decode(tokens, ids) = TokenBytes(tokens, Head(ids)) \o Decode(tokens, Tail(ids))
<1> DEFINE texts(ids) == [k \in 1..Len(ids) |-> TokenBytes(tokens, ids[k])]
<1>1. \A id \in IdsOf(tokens) : TokenBytes(tokens, id) \in Bytes
  BY DEF IdsOf, TokenBytes
<1>2. ASSUME NEW ids \in Seq(IdsOf(tokens))
      PROVE  texts(ids) \in Seq(Bytes) /\ Len(texts(ids)) = Len(ids)
  <2>1. \A k \in 1..Len(ids) : TokenBytes(tokens, ids[k]) \in Bytes
    BY <1>1
  <2> QED
    BY <2>1
<1>3. \A ids : Decode(tokens, ids) = FlattenSeq(texts(ids))
  BY DEF Decode
<1>4. Decode(tokens, <<>>) = <<>>
  <2>1. texts(<<>>) = <<>>
    OBVIOUS
  <2> QED
    BY <1>3, <2>1, FlattenBytes
<1>5. ASSUME NEW ids \in Seq(IdsOf(tokens)), NEW id \in IdsOf(tokens)
      PROVE  Decode(tokens, Append(ids, id)) = Decode(tokens, ids) \o TokenBytes(tokens, id)
  <2>1. texts(Append(ids, id)) = Append(texts(ids), TokenBytes(tokens, id))
    OBVIOUS
  <2>2. texts(ids) \in Seq(Bytes) /\ TokenBytes(tokens, id) \in Bytes
    BY <1>1, <1>2
  <2> HIDE DEF texts
  <2>3. FlattenSeq(Append(texts(ids), TokenBytes(tokens, id)))
          = FlattenSeq(texts(ids)) \o TokenBytes(tokens, id)
    BY <2>2, FlattenBytes
  <2> QED
    BY <1>3, <2>1, <2>3
<1>6. ASSUME NEW ids \in Seq(IdsOf(tokens)), ids # <<>>
      PROVE  Decode(tokens, ids) = TokenBytes(tokens, Head(ids)) \o Decode(tokens, Tail(ids))
  <2> DEFINE text == TokenBytes(tokens, Head(ids))
  <2>1. Head(ids) \in IdsOf(tokens) /\ Tail(ids) \in Seq(IdsOf(tokens)) /\ Len(ids) >= 1
    BY <1>6, EmptySeq, HeadTailProperties
  <2>2. texts(ids) = <<text>> \o texts(Tail(ids))
    BY <2>1
  <2>3. text \in Bytes /\ <<text>> \in Seq(Bytes) /\ texts(Tail(ids)) \in Seq(Bytes)
        /\ <<text>> = Append(<<>>, text) /\ <<>> \in Seq(Bytes)
    BY <1>1, <1>2, <2>1
  <2> HIDE DEF texts, text
  <2>4. FlattenSeq(<<text>>) = text
    <3>1. FlattenSeq(Append(<<>>, text)) = FlattenSeq(<<>>) \o text /\ FlattenSeq(<<>>) = <<>>
      BY <2>3, FlattenBytes
    <3>2. <<>> \o text = text
      BY <2>3, JoinFacts
    <3> QED
      BY <2>3, <3>1, <3>2
  <2>5. FlattenSeq(<<text>> \o texts(Tail(ids))) = FlattenSeq(<<text>>) \o FlattenSeq(texts(Tail(ids)))
    BY <2>3, FlattenBytes
  <2>6. Decode(tokens, ids) = text \o Decode(tokens, Tail(ids))
    BY <1>3, <2>2, <2>4, <2>5
  <2> QED
    BY <2>6 DEF text
<1>7. ASSUME NEW ids \in Seq(IdsOf(tokens)) PROVE Decode(tokens, ids) \in Bytes
  <2>1. texts(ids) \in Seq(Bytes)
    BY <1>2
  <2> HIDE DEF texts
  <2> QED
    BY <1>3, <2>1, FlattenBytes
<1> HIDE DEF texts
<1> QED
  BY <1>1, <1>4, <1>5, <1>6, <1>7

\* Where tokens match, the greedy choice is one of them.
LEMMA LongestTokenMatches ==
  ASSUME NEW tokens \in Seq(Bytes), NEW bytes \in Bytes, NEW offset \in Nat,
         MatchesAt(tokens, bytes, offset) # {}
  PROVE  LongestToken(tokens, bytes, offset) \in MatchesAt(tokens, bytes, offset)
<1> DEFINE matches == MatchesAt(tokens, bytes, offset)
           size(id) == Len(TokenBytes(tokens, id))
           longest == {id \in matches : \A other \in matches : size(other) <= size(id)}
           rests == {Len(bytes) - size(id) : id \in matches}
<1>1. /\ matches \subseteq IdsOf(tokens) /\ Len(bytes) \in Nat
      /\ \A id \in matches : size(id) \in Nat /\ size(id) <= Len(bytes)
  <2>1. \A id \in IdsOf(tokens) : TokenBytes(tokens, id) \in Bytes
    BY DecodeFacts
  <2>2. Len(bytes) \in Nat /\ \A id \in IdsOf(tokens) : Len(TokenBytes(tokens, id)) \in Nat
    BY <2>1 DEF Bytes
  <2>3. matches \subseteq IdsOf(tokens)
    BY DEF MatchesAt, IdsOf
  <2>4. \A id \in matches : offset + size(id) <= Len(bytes)
    BY DEF MatchesAt
  <2> HIDE DEF matches
  <2> QED
    BY <2>2, <2>3, <2>4
<1>2. longest # {}
  <2> HIDE DEF size, matches
  <2>1. rests \in SUBSET Nat /\ rests # {}
    BY <1>1 DEF matches
  <2>2. PICK m \in rests : \A k \in rests : m <= k
    <3> HIDE DEF rests
    <3> QED
      BY <2>1, LeastNatural
  <2>3. PICK id \in matches : m = Len(bytes) - size(id)
    BY <2>2
  <2>4. \A other \in matches : size(other) <= size(id)
    <3> SUFFICES ASSUME NEW other \in matches PROVE size(other) <= size(id)
      OBVIOUS
    <3>1. Len(bytes) - size(id) <= Len(bytes) - size(other)
      BY <2>2, <2>3
    <3> QED
      BY <1>1, <3>1
  <2> QED
    BY <2>3, <2>4
<1>3. \E id \in longest : \A other \in longest : id <= other
  <2>1. longest \in SUBSET Nat
    BY <1>1 DEF IdsOf
  <2> HIDE DEF longest
  <2> QED
    BY <1>2, <2>1, LeastNatural
<1>4. Min(longest) \in longest
  BY <1>3 DEF Min
<1> QED
  BY <1>4 DEF LongestToken

\* The IDs of the greedy segmentation from every offset on.
GreedyFrom(tokens, bytes) ==
  CHOOSE from : from = [offset \in 0..Len(bytes) |->
    IF MatchesAt(tokens, bytes, offset) = {} THEN <<>>
    ELSE <<LongestToken(tokens, bytes, offset)>>
           \o from[offset + Len(TokenBytes(tokens, LongestToken(tokens, bytes, offset)))]]

\* The recursion that segments the bytes has a solution: it yields IDs of the
\* vocabulary, none where no token matches, and otherwise first the longest
\* match, which goes forward, and then those from behind it on.
LEMMA GreedyFromFacts ==
  ASSUME NEW tokens \in Seq(Bytes), NEW bytes \in Bytes
  PROVE  LET from == GreedyFrom(tokens, bytes)
             id(o) == LongestToken(tokens, bytes, o)
             next(o) == o + Len(TokenBytes(tokens, id(o)))
         IN  /\ GreedyIds(tokens, bytes) = from[0]
             /\ \A o \in 0..Len(bytes) :
                  /\ from[o] \in Seq(IdsOf(tokens))
                  /\ MatchesAt(tokens, bytes, o) = {} => from[o] = <<>>
                  /\ MatchesAt(tokens, bytes, o) # {} =>
                       /\ id(o) \in IdsOf(tokens) /\ next(o) \in (o + 1)..Len(bytes)
                       /\ from[o] = <<id(o)>> \o from[next(o)]
<1> DEFINE len == Len(bytes)
           stuck(o) == MatchesAt(tokens, bytes, o) = {}
           id(o) == LongestToken(tokens, bytes, o)
           next(o) == o + Len(TokenBytes(tokens, id(o)))
           Solves(f, n) == f = [o \in (len - n)..len |->
                                  IF stuck(o) THEN <<>> ELSE <<id(o)>> \o f[next(o)]]
           P == {n \in Nat : n <= len => \E f : Solves(f, n)}
<1>1. len \in Nat
  BY DEF Bytes
<1>2. ASSUME NEW o \in 0..len, ~stuck(o)
      PROVE  id(o) \in IdsOf(tokens) /\ next(o) \in (o + 1)..len
  <2>1. id(o) \in MatchesAt(tokens, bytes, o)
    BY <1>2, LongestTokenMatches
  <2>2. id(o) \in IdsOf(tokens)
    BY <2>1 DEF MatchesAt, IdsOf
  <2>3. TokenBytes(tokens, id(o)) \in Bytes
    BY <2>2, DecodeFacts
  <2>4. TokenBytes(tokens, id(o)) # <<>> /\ next(o) <= len
    BY <2>1 DEF MatchesAt
  <2>5. Len(TokenBytes(tokens, id(o))) \in Nat \ {0}
    BY <2>3, <2>4, EmptySeq DEF Bytes
  <2> HIDE DEF id
  <2> QED
    BY <1>1, <2>2, <2>4, <2>5
<1> HIDE DEF stuck, id, next
<1>3. 0 \in P
  <2> DEFINE f == [o \in (len - 0)..len |-> <<>>]
  <2>1. ASSUME NEW o \in (len - 0)..len PROVE stuck(o)
    BY <1>1, <1>2
  <2>2. Solves(f, 0)
    BY <2>1
  <2> HIDE DEF f
  <2>3. \E g : Solves(g, 0)
    BY <2>2
  <2> HIDE DEF Solves
  <2> QED
    BY <2>3
<1>4. ASSUME NEW n \in Nat, n \in P PROVE n + 1 \in P
  <2> SUFFICES ASSUME n + 1 <= len PROVE \E g : Solves(g, n + 1)
    OBVIOUS
  <2>1. PICK f : Solves(f, n)
    BY <1>1, <1>4
  <2> DEFINE here == len - (n + 1)
             g == [o \in here..len |->
                     IF o = here THEN (IF stuck(here) THEN <<>> ELSE <<id(here)>> \o f[next(here)])
                     ELSE f[o]]
  <2>2. here \in 0..len /\ here + 1 = len - n
    BY <1>1
  <2>3. \A o \in here..len : ~stuck(o) => next(o) \in (len - n)..len /\ next(o) \in here..len
                                          /\ next(o) # here
    <3> SUFFICES ASSUME NEW o \in here..len, ~stuck(o)
                 PROVE  next(o) \in (len - n)..len /\ next(o) \in here..len /\ next(o) # here
      OBVIOUS
    <3>1. next(o) \in (o + 1)..len
      BY <1>1, <1>2, <2>2
    <3> QED
      BY <1>1, <2>2, <3>1
  <2>4. \A o \in (len - n)..len : f[o] = IF stuck(o) THEN <<>> ELSE <<id(o)>> \o f[next(o)]
    BY <2>1
  <2>5. ASSUME NEW o \in here..len
        PROVE  g[o] = IF stuck(o) THEN <<>> ELSE <<id(o)>> \o g[next(o)]
    <3>1. ~stuck(o) => g[next(o)] = f[next(o)]
      BY <2>3
    <3>2. o # here => o \in (len - n)..len
      <4>1. here \in Nat /\ len \in Nat /\ here + 1 = len - n /\ o \in here..len
        BY <1>1, <2>2
      <4> HIDE DEF here, len
      <4> QED
        BY <4>1
    <3>3. g[o] = IF o = here THEN (IF stuck(here) THEN <<>> ELSE <<id(here)>> \o f[next(here)])
                 ELSE f[o]
      OBVIOUS
    <3> HIDE DEF g, here
    <3> QED
      BY <2>4, <3>1, <3>2, <3>3
  <2>6. Solves(g, n + 1)
    BY <2>5
  <2> HIDE DEF g, Solves
  <2> QED
    BY <2>6
<1>5. len \in P
  <2> HIDE DEF P, len
  <2> QED
    BY <1>1, <1>3, <1>4, Induction
<1>6. \E f : Solves(f, len)
  BY <1>1, <1>5
<1>7. len - len = 0
  BY <1>1
<1> DEFINE Segments(f) == f = [o \in 0..len |-> IF stuck(o) THEN <<>> ELSE <<id(o)>> \o f[next(o)]]
           from == GreedyFrom(tokens, bytes)
<1>8. Segments(from)
  <2>1. from = CHOOSE f : Segments(f)
    BY DEF GreedyFrom, stuck, id, next
  <2> QED
    BY <1>6, <1>7, <2>1
<1>9. GreedyIds(tokens, bytes) = from[0]
  BY DEF GreedyIds, GreedyFrom
<1> HIDE DEF from
<1>10. \A o \in 0..len : from[o] = IF stuck(o) THEN <<>> ELSE <<id(o)>> \o from[next(o)]
  BY <1>8
<1> HIDE DEF Segments
<1> DEFINE Q == {n \in Nat : \A o \in 0..len : len - o <= n => from[o] \in Seq(IdsOf(tokens))}
<1>11. ASSUME NEW o \in 0..len, ~stuck(o) => from[next(o)] \in Seq(IdsOf(tokens))
       PROVE  from[o] \in Seq(IdsOf(tokens))
  <2>1. ~stuck(o) => <<id(o)>> \in Seq(IdsOf(tokens))
    BY <1>2
  <2>2. from[o] = IF stuck(o) THEN <<>> ELSE <<id(o)>> \o from[next(o)]
    BY <1>10
  <2>3. ~stuck(o) => <<id(o)>> \o from[next(o)] \in Seq(IdsOf(tokens))
    BY <1>11, <2>1, ConcatProperties
  <2> QED
    BY <2>2, <2>3
<1>12. 0 \in Q
  <2> SUFFICES ASSUME NEW o \in 0..len, len - o <= 0 PROVE from[o] \in Seq(IdsOf(tokens))
    OBVIOUS
  <2>1. ~stuck(o) => next(o) \in (o + 1)..len
    BY <1>2
  <2>2. stuck(o)
    BY <1>1, <2>1
  <2> QED
    BY <1>11, <2>2
<1>13. ASSUME NEW n \in Nat, n \in Q PROVE n + 1 \in Q
  <2> SUFFICES ASSUME NEW o \in 0..len, len - o <= n + 1 PROVE from[o] \in Seq(IdsOf(tokens))
    OBVIOUS
  <2>1. ~stuck(o) => next(o) \in (o + 1)..len
    BY <1>2
  <2>2. ~stuck(o) => next(o) \in 0..len /\ len - next(o) <= n
    BY <1>1, <2>1
  <2>3. ~stuck(o) => from[next(o)] \in Seq(IdsOf(tokens))
    BY <1>13, <2>2
  <2> QED
    BY <1>11, <2>3
<1>14. len \in Q
  <2> HIDE DEF Q, len
  <2> QED
    BY <1>1, <1>12, <1>13, Induction
<1>15. ASSUME NEW o \in 0..len PROVE from[o] \in Seq(IdsOf(tokens))
  <2>1. len - o <= len
    BY <1>1
  <2> QED
    BY <1>14, <2>1
<1> QED
  BY <1>2, <1>9, <1>10, <1>15 DEF from, stuck, id, next

\* What is segmented are IDs of the vocabulary.
LEMMA GreedyIdsAreIds ==
  ASSUME NEW tokens \in Seq(Bytes), NEW bytes \in Bytes
  PROVE  GreedyIds(tokens, bytes) \in Seq(IdsOf(tokens))
<1>1. 0 \in 0..Len(bytes)
  BY DEF Bytes
<1> QED
  BY <1>1, GreedyFromFacts
=============================================================================
