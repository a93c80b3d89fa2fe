------------------------- MODULE TokenStream_proofs -------------------------
(***************************************************************************)
(* Proofs about TokenStream: a stream that validate accepts is an ordered  *)
(* partition of the raw bytes, however long it is and whatever was         *)
(* presented.  This is what AlignTokenSpans assumes of its inputs.         *)
(*                                                                         *)
(* The loop invariant, Checked, says of the tokens before `index` what     *)
(* WellFormed says of all of them; it carries their pairwise order, which  *)
(* the code never compares and which follows one token at a time.          *)
(***************************************************************************)
EXTENDS TokenStream, SpanLemmas, SequenceTheorems

Checked ==
  /\ \A i \in 1..(index - 1) :
       /\ stream.tokens[i].byte_start < stream.tokens[i].byte_end
       /\ stream.tokens[i].byte_end <= expected_start
       /\ stream.tokens[i].bytes =
            Slice(raw, stream.tokens[i].byte_start, stream.tokens[i].byte_end)
       /\ i > 1 => stream.tokens[i].byte_start = stream.tokens[i - 1].byte_end
  /\ \A i, j \in 1..(index - 1) :
       i < j => stream.tokens[i].byte_end <= stream.tokens[j].byte_start
  /\ IF index = 1 THEN expected_start = 0
     ELSE /\ stream.tokens[1].byte_start = 0
          /\ stream.tokens[index - 1].byte_end = expected_start

IdentityHolds ==
  pc \in {"tokens", "reconstruct", "valid"} =>
    stream.raw_len = Len(raw) /\ stream.raw_sha256 = Sha256(raw)

LoopEnded ==
  pc \in {"reconstruct", "valid"} =>
    index = Len(stream.tokens) + 1 /\ expected_start = Len(raw)

LoopNotStarted == pc \in {"read_line", "identity"} => index = 1 /\ expected_start = 0

IInv == TypeOK /\ Checked /\ IdentityHolds /\ LoopEnded /\ LoopNotStarted
-----------------------------------------------------------------------------
\* The first state satisfies the loop invariant.
LEMMA InitInvariant == Init => IInv
<1> SUFFICES ASSUME Init PROVE IInv
  OBVIOUS
<1>1. /\ raw \in Bytes /\ lines \in Seq(Line) /\ stream \in TokenizerStream
      /\ pc \in {"read_line", "identity"}
  <2>1. CASE \E i \in Imports : /\ raw = i.raw /\ lines = i.lines
                                /\ stream = NoStream /\ pc = "read_line"
    <3>1. NoStream \in TokenizerStream
      BY DEF NoStream, TokenizerStream, Bytes
    <3> QED
      BY <2>1, <3>1, InputsAssumption
  <2>2. CASE \E p \in Presented : /\ raw = p.raw /\ lines = <<>>
                                  /\ stream = p.stream /\ pc = "identity"
    BY <2>2, InputsAssumption
  <2> QED
    BY <2>1, <2>2 DEF Init
<1>2. Len(raw) \in Nat /\ Len(lines) \in Nat /\ Len(stream.tokens) \in Nat
  BY <1>1 DEF Bytes, TokenizerStream
<1> QED
  BY <1>1, <1>2 DEF Init, IInv, TypeOK, Checked, IdentityHolds, LoopEnded, LoopNotStarted

\* Every step of an import or a validation preserves it.
LEMMA NextInvariant == IInv /\ [Next \/ Terminated]_vars => IInv'
<1> SUFFICES ASSUME IInv, [Next \/ Terminated]_vars PROVE IInv'
  OBVIOUS
<1>1. /\ TypeOK /\ Checked /\ IdentityHolds /\ LoopEnded /\ LoopNotStarted
      /\ Len(raw) \in Nat /\ Len(lines) \in Nat /\ Len(stream.tokens) \in Nat
      /\ stream.tokens \in Seq(NativeToken) /\ expected_start \in Nat
      /\ index \in Nat /\ line_no \in Nat /\ index >= 1 /\ line_no >= 1
  BY DEF IInv, TypeOK, TokenizerStream, Bytes
<1>2. CASE ReadLine
  <2>1. /\ pc = "read_line" /\ line_no \in 1..Len(lines)
        /\ UNCHANGED <<raw, lines, index, expected_start>>
        /\ index = 1 /\ expected_start = 0 /\ line_no' = line_no + 1
    BY <1>1, <1>2 DEF ReadLine, LoopNotStarted
  <2>2. /\ stream' \in TokenizerStream
        /\ pc' \in {"read_line", "failed"}
        /\ (error' = "none") = (pc' # "failed")
    <3>1. lines[line_no] \in Line
      BY <1>1, <2>1 DEF TypeOK
    <3>2. CASE lines[line_no][1] = "record" /\ UNCHANGED <<pc, error>>
               /\ stream' = [stream EXCEPT !.tokens = Append(@, lines[line_no][2])]
      <4>1. lines[line_no][2] \in NativeToken
        BY <3>1, <3>2 DEF Line, BadLine
      <4>2. Append(stream.tokens, lines[line_no][2]) \in Seq(NativeToken)
        BY <1>1, <4>1, AppendProperties
      <4>3. stream' \in TokenizerStream
        BY <1>1, <3>2, <4>2 DEF TypeOK, TokenizerStream
      <4> QED
        BY <1>1, <2>1, <3>2, <4>3 DEF TypeOK
    <3>3. CASE UNCHANGED <<stream, pc, error>>
      BY <1>1, <2>1, <3>3 DEF TypeOK
    <3>4. CASE UNCHANGED stream /\ lines[line_no][1] \in BadLine /\ Fail(lines[line_no][1])
      BY <1>1, <2>1, <3>4 DEF TypeOK, Fail, BadLine
    <3> QED
      BY <1>2, <3>2, <3>3, <3>4 DEF ReadLine
  <2>3. index' \in 1..(Len(stream.tokens)' + 1)
    BY <2>1, <2>2 DEF TokenizerStream
  <2> QED
    BY <1>1, <2>1, <2>2, <2>3 DEF IInv, TypeOK, Checked, IdentityHolds, LoopEnded, LoopNotStarted
<1>3. CASE BuildStream
  <2>1. stream' \in TokenizerStream /\ Len(stream'.tokens) \in Nat
    BY <1>1, <1>3 DEF BuildStream, TypeOK, TokenizerStream, Sha256, Bytes
  <2> QED
    BY <1>1, <1>3, <2>1 DEF BuildStream, IInv, TypeOK, Checked, IdentityHolds, LoopEnded,
       LoopNotStarted
<1>4. CASE CheckIdentity
  BY <1>1, <1>4 DEF CheckIdentity, Fail, IInv, TypeOK, Checked, IdentityHolds, LoopEnded,
     LoopNotStarted
<1>5. CASE CheckToken
  <2> DEFINE t == stream.tokens[index]
  <2>1. /\ pc = "tokens" /\ index \in 1..Len(stream.tokens)
        /\ UNCHANGED <<raw, lines, stream, line_no>>
    BY <1>1, <1>5 DEF CheckToken
  <2>2. t \in NativeToken
    BY <1>1, <2>1
  <2>3. CASE TokenError(t) # "none" /\ Fail(TokenError(t)) /\ UNCHANGED <<expected_start, index>>
    BY <1>1, <2>1, <2>3 DEF Fail, IInv, TypeOK, Checked, IdentityHolds, LoopEnded, LoopNotStarted
  <2>4. CASE TokenError(t) = "none" /\ UNCHANGED <<pc, error>>
             /\ expected_start' = t.byte_end /\ index' = index + 1
    <3>1. /\ t.byte_start = expected_start /\ t.byte_start < t.byte_end
          /\ t.byte_start \in Nat /\ t.byte_end \in Nat /\ t.byte_end <= Len(raw)
          /\ t.bytes = Slice(raw, t.byte_start, t.byte_end)
      BY <1>1, <2>2, <2>4 DEF TokenError, NativeToken
    <3>2. TypeOK' /\ IdentityHolds' /\ LoopEnded' /\ LoopNotStarted'
      BY <1>1, <2>1, <2>4, <3>1 DEF TypeOK, IdentityHolds, LoopEnded, LoopNotStarted
    <3>3. Checked'
      <4>1. ASSUME NEW i \in 1..index
            PROVE  /\ stream.tokens[i].byte_start < stream.tokens[i].byte_end
                   /\ stream.tokens[i].byte_end <= t.byte_end
                   /\ stream.tokens[i].bytes =
                        Slice(raw, stream.tokens[i].byte_start, stream.tokens[i].byte_end)
                   /\ i > 1 => stream.tokens[i].byte_start = stream.tokens[i - 1].byte_end
        <5>1. CASE i = index
          BY <1>1, <3>1, <5>1 DEF Checked
        <5>2. CASE i < index
          <6>1. stream.tokens[i].byte_end \in Nat
            <7>1. stream.tokens[i] \in NativeToken
              BY <1>1, <2>1
            <7> QED
              BY <7>1 DEF NativeToken
          <6>2. i \in 1..(index - 1)
            BY <2>1, <5>2
          <6>3. /\ stream.tokens[i].byte_start < stream.tokens[i].byte_end
                /\ stream.tokens[i].byte_end <= expected_start
                /\ stream.tokens[i].bytes =
                     Slice(raw, stream.tokens[i].byte_start, stream.tokens[i].byte_end)
                /\ i > 1 => stream.tokens[i].byte_start = stream.tokens[i - 1].byte_end
            BY <1>1, <6>2 DEF Checked
          <6>4. stream.tokens[i].byte_end <= t.byte_end
            BY <1>1, <3>1, <6>1, <6>3
          <6> QED
            BY <6>3, <6>4
        <5> QED
          BY <2>1, <5>1, <5>2
      <4>2. ASSUME NEW i \in 1..index, NEW j \in 1..index, i < j
            PROVE  stream.tokens[i].byte_end <= stream.tokens[j].byte_start
        <5>1. i \in 1..(index - 1)
          BY <2>1, <4>2
        <5>2. CASE j = index
          BY <1>1, <3>1, <5>1, <5>2 DEF Checked
        <5>3. CASE j \in 1..(index - 1)
          BY <1>1, <4>2, <5>1, <5>3 DEF Checked
        <5> QED
          BY <2>1, <5>2, <5>3
      <4>3. stream.tokens[1].byte_start = 0
        BY <1>1, <2>1, <3>1 DEF Checked
      <4>4. /\ index' # 1 /\ index' - 1 = index
            /\ expected_start' = t.byte_end /\ stream' = stream /\ raw' = raw
        BY <2>1, <2>4
      <4> QED
        BY <4>1, <4>2, <4>3, <4>4 DEF Checked
    <3> QED
      BY <3>2, <3>3 DEF IInv
  <2> QED
    BY <1>5, <2>3, <2>4 DEF CheckToken
<1>6. CASE CheckEnd
  BY <1>1, <1>6 DEF CheckEnd, Fail, IInv, TypeOK, Checked, IdentityHolds, LoopEnded,
     LoopNotStarted
<1>7. CASE CheckReconstruction
  BY <1>1, <1>7 DEF CheckReconstruction, Fail, IInv, TypeOK, Checked, IdentityHolds, LoopEnded,
     LoopNotStarted
<1>8. CASE UNCHANGED vars
  BY <1>1, <1>8 DEF vars, IInv, TypeOK, Checked, IdentityHolds, LoopEnded, LoopNotStarted
<1> QED
  BY <1>2, <1>3, <1>4, <1>5, <1>6, <1>7, <1>8 DEF Next, Terminated

\* Type correctness: the span that the next check slices never starts beyond
\* the raw bytes, and an error is recorded exactly when the call has failed.
THEOREM TypeCorrect == Spec => []TypeOK
<1>1. IInv => TypeOK
  BY DEF IInv
<1> QED
  BY <1>1, InitInvariant, NextInvariant, PTL DEF Spec

\* A validated stream is an ordered partition of the raw bytes that carries
\* exactly those bytes, for streams and inputs of every length.
THEOREM ValidMeansWellFormed == Spec => []AcceptsOnlyWellFormed
<1>1. IInv => AcceptsOnlyWellFormed
  BY DEF IInv, TypeOK, TokenizerStream, Bytes, Checked, IdentityHolds, LoopEnded,
     AcceptsOnlyWellFormed, WellFormed, Partition, NonEmptySpans, Contiguous, Ordered, Reaches
<1> QED
  BY <1>1, InitInvariant, NextInvariant, PTL DEF Spec
-----------------------------------------------------------------------------
\* The records up to a line are those up to the line before it, and its token
\* if it is a record: the recursion they are defined by has a solution.
LEMMA RecordsStepwise ==
  ASSUME NEW ls, Len(ls) \in Nat
  PROVE  /\ RecordsUpTo(ls)[0] = <<>>
         /\ \A k \in 1..Len(ls) :
              RecordsUpTo(ls)[k] = IF ls[k][1] = "record"
                                   THEN Append(RecordsUpTo(ls)[k - 1], ls[k][2])
                                   ELSE RecordsUpTo(ls)[k - 1]
<1> DEFINE next(tokens, k) == IF ls[k][1] = "record" THEN Append(tokens, ls[k][2]) ELSE tokens
           Solves(f, n) == f = [k \in 0..n |-> IF k = 0 THEN <<>>
                                               ELSE IF ls[k][1] = "record"
                                               THEN Append(f[k - 1], ls[k][2]) ELSE f[k - 1]]
           P == {n \in Nat : \E f : Solves(f, n)}
<1>1. 0 \in P
  <2>1. Solves([k \in 0..0 |-> <<>>], 0)
    OBVIOUS
  <2> QED
    BY <2>1
<1>2. ASSUME NEW n \in Nat, n \in P PROVE n + 1 \in P
  <2>1. PICK f : Solves(f, n)
    BY <1>2
  <2> DEFINE g == [k \in 0..(n + 1) |-> IF k = n + 1 THEN next(f[n], n + 1) ELSE f[k]]
  <2>2. ASSUME NEW k \in 0..(n + 1)
        PROVE  g[k] = IF k = 0 THEN <<>> ELSE next(g[k - 1], k)
    <3>1. CASE k = n + 1
      <4>1. n + 1 \in 0..(n + 1) /\ n \in 0..(n + 1) /\ n + 1 # 0 /\ n # n + 1 /\ (n + 1) - 1 = n
        OBVIOUS
      <4>2. g[n + 1] = next(f[n], n + 1) /\ g[n] = f[n]
        BY <4>1
      <4> QED
        BY <3>1, <4>1, <4>2
    <3>2. CASE k \in 0..n
      <4>1. f[k] = IF k = 0 THEN <<>> ELSE next(f[k - 1], k)
        BY <2>1, <3>2
      <4>2. k # 0 => k - 1 \in 0..n
        BY <3>2
      <4>3. g[k] = f[k] /\ (k # 0 => g[k - 1] = f[k - 1])
        BY <3>2, <4>2
      <4> HIDE DEF next, g
      <4> QED
        BY <4>1, <4>3
    <3> QED
      BY <3>1, <3>2
  <2>3. Solves(g, n + 1)
    BY <2>2
  <2> HIDE DEF g
  <2>4. \E h : Solves(h, n + 1)
    BY <2>3
  <2>5. n + 1 \in Nat
    OBVIOUS
  <2> HIDE DEF Solves
  <2> QED
    BY <2>4, <2>5
<1>3. Len(ls) \in P
  <2> HIDE DEF P
  <2> QED
    BY <1>1, <1>2, Induction
<1>4. \E f : Solves(f, Len(ls))
  BY <1>3
<1> DEFINE upTo == CHOOSE f : Solves(f, Len(ls))
<1>5. Solves(upTo, Len(ls))
  BY <1>4
<1>6. RecordsUpTo(ls) = upTo
  BY DEF RecordsUpTo
<1> HIDE DEF upTo
<1>7. upTo[0] = <<>>
  BY <1>5
<1>8. ASSUME NEW k \in 1..Len(ls)
      PROVE  upTo[k] = IF ls[k][1] = "record" THEN Append(upTo[k - 1], ls[k][2]) ELSE upTo[k - 1]
  <2>1. k \in 0..Len(ls) /\ k # 0
    OBVIOUS
  <2> QED
    BY <1>5, <2>1
<1> QED
  BY <1>6, <1>7, <1>8

\* A slice of the front of some bytes is a slice of the bytes.
LEMMA SliceOfFront ==
  ASSUME NEW bytes \in Bytes, NEW n \in Nat, n <= Len(bytes),
         NEW from \in Nat, NEW to \in Nat, from <= to, to <= n
  PROVE  Slice(Slice(bytes, 0, n), from, to) = Slice(bytes, from, to)
BY DEF Slice, Bytes

\* A token that follows checked ones fits them, in any well-formed stream that
\* begins with these tokens and is of the first bytes of the raw input.
LEMMA NextFits ==
  ASSUME IInv, NEW tokens, NEW n \in Nat, n <= Len(raw), Len(tokens) \in Nat,
         index <= Len(tokens), Len(tokens) <= Len(stream.tokens),
         \A i \in 1..Len(tokens) : tokens[i] = stream.tokens[i],
         Partition(tokens, n),
         \A i \in 1..Len(tokens) :
           tokens[i].bytes = Slice(Slice(raw, 0, n), tokens[i].byte_start, tokens[i].byte_end)
  PROVE  TokenError(stream.tokens[index]) = "none"
<1> DEFINE len == Len(tokens)
           t == stream.tokens[index]
<1>1. /\ raw \in Bytes /\ Len(raw) \in Nat /\ index \in 1..len /\ index \in 1..Len(stream.tokens)
      /\ stream.tokens \in Seq(NativeToken) /\ Checked /\ expected_start \in Nat
  BY DEF IInv, TypeOK, TokenizerStream, Bytes
<1>2. \A i \in 1..len : tokens[i] \in NativeToken
  BY <1>1
<1>3. \A i \in 1..len : tokens[i].byte_start \in Nat /\ tokens[i].byte_end \in Nat
  BY <1>2 DEF NativeToken
<1>4. /\ \A i \in 1..len :
           /\ tokens[i].byte_start < tokens[i].byte_end
           /\ tokens[i].byte_end <= n
           /\ tokens[i].byte_start = IF i = 1 THEN 0 ELSE tokens[i - 1].byte_end
  BY <1>3, PartitionFacts
<1>5. /\ tokens[index] = t /\ (index # 1 => tokens[index - 1] = stream.tokens[index - 1])
  BY <1>1
<1>6. /\ t.byte_start \in Nat /\ t.byte_end \in Nat /\ t.byte_start < t.byte_end
      /\ t.byte_end <= n /\ t.byte_end <= Len(raw)
      /\ t.byte_start = IF index = 1 THEN 0 ELSE stream.tokens[index - 1].byte_end
  <2>1. /\ tokens[index].byte_start \in Nat /\ tokens[index].byte_end \in Nat
        /\ tokens[index].byte_start < tokens[index].byte_end /\ tokens[index].byte_end <= n
        /\ tokens[index].byte_start = IF index = 1 THEN 0 ELSE tokens[index - 1].byte_end
    BY <1>1, <1>3, <1>4
  <2> HIDE DEF t
  <2> QED
    BY <1>1, <1>5, <2>1
<1>7. t.byte_start = expected_start
  BY <1>1, <1>6 DEF Checked
<1>8. t.bytes = Slice(Slice(raw, 0, n), t.byte_start, t.byte_end)
  BY <1>1, <1>5
<1>9. Slice(Slice(raw, 0, n), t.byte_start, t.byte_end) = Slice(raw, t.byte_start, t.byte_end)
  BY <1>1, <1>6, SliceOfFront
<1> QED
  BY <1>1, <1>6, <1>7, <1>8, <1>9 DEF TokenError

\* What has been found when a call has failed.
Found ==
  pc = "failed" =>
    \/ error \in BadLine
    \/ error = "raw_len" /\ stream.raw_len # Len(raw)
    \/ error = "raw_sha256" /\ stream.raw_sha256 # Sha256(raw)
    \/ /\ index <= Len(stream.tokens)
       /\ error = TokenError(stream.tokens[index]) /\ error # "none"
    \/ error = "trailing_gap" /\ index = Len(stream.tokens) + 1 /\ expected_start # Len(raw)
    \/ error = "reconstruction" /\ Reconstruct(stream.tokens) # raw

\* The first n lines of the file have been taken over, whole.
TakenOver(n) ==
  /\ stream.tokens = RecordsUpTo(lines)[n]
  /\ \A i \in 1..n : lines[i][1] \notin BadLine

FileRead ==
  /\ pc = "read_line" => TakenOver(line_no - 1)
  /\ pc # "read_line" /\ error \notin BadLine /\ lines # <<>> => TakenOver(Len(lines))
  /\ error \in BadLine =>
       /\ pc = "failed" /\ line_no > 1
       /\ lines[line_no - 1][1] = error
       /\ \A i \in 1..(line_no - 2) : lines[i][1] \notin BadLine

VerdictInv == Found /\ FileRead

\* Nothing has been found or read at first.
LEMMA InitVerdict == Init => VerdictInv
<1> SUFFICES ASSUME Init PROVE VerdictInv
  OBVIOUS
<1>1. /\ error = "none" /\ "none" \notin BadLine /\ pc \in {"read_line", "identity"} /\ line_no = 1
  BY DEF Init, BadLine
<1>2. pc = "identity" => lines = <<>>
  BY DEF Init
<1>3. pc = "read_line" => stream.tokens = <<>> /\ RecordsUpTo(lines)[0] = <<>>
  <2>1. pc = "read_line" => stream.tokens = <<>>
    BY DEF Init, NoStream
  <2>2. Len(lines) \in Nat
    BY InitInvariant DEF IInv, TypeOK
  <2> QED
    BY <2>1, <2>2, RecordsStepwise
<1> QED
  BY <1>1, <1>2, <1>3 DEF VerdictInv, Found, FileRead, TakenOver

\* A line is taken over, or ends the import.
LEMMA ReadLineVerdict == IInv /\ VerdictInv /\ ReadLine => VerdictInv'
<1> SUFFICES ASSUME IInv, VerdictInv, ReadLine PROVE VerdictInv'
  OBVIOUS
<1> DEFINE line == lines[line_no]
<1>1. /\ pc = "read_line" /\ line_no \in 1..Len(lines) /\ Len(lines) \in Nat /\ error = "none"
      /\ error \notin BadLine
      /\ UNCHANGED <<raw, lines>> /\ line_no' = line_no + 1
  BY DEF ReadLine, IInv, TypeOK, BadLine
<1>2. TakenOver(line_no - 1)
  BY <1>1 DEF VerdictInv, FileRead
<1>3. /\ RecordsUpTo(lines)[line_no] =
           IF line[1] = "record" THEN Append(RecordsUpTo(lines)[line_no - 1], line[2])
           ELSE RecordsUpTo(lines)[line_no - 1]
  BY <1>1, RecordsStepwise
<1>4. "blank" \notin BadLine /\ "record" \notin BadLine /\ "blank" # "record"
  BY DEF BadLine
<1>5. CASE /\ line[1] \in {"blank", "record"} /\ UNCHANGED <<pc, error>>
           /\ stream'.tokens = IF line[1] = "record" THEN Append(stream.tokens, line[2])
                               ELSE stream.tokens
  <2>1. stream'.tokens = RecordsUpTo(lines)[line_no]
    BY <1>2, <1>3, <1>5 DEF TakenOver
  <2>2. \A i \in 1..line_no : lines[i][1] \notin BadLine
    <3> SUFFICES ASSUME NEW i \in 1..line_no PROVE lines[i][1] \notin BadLine
      OBVIOUS
    <3>1. i \in 1..(line_no - 1) \/ i = line_no
      BY <1>1
    <3> QED
      BY <1>2, <1>4, <1>5, <3>1 DEF TakenOver
  <2>3. line_no' - 1 = line_no
    BY <1>1
  <2>4. TakenOver(line_no - 1)'
    BY <1>1, <2>1, <2>2, <2>3 DEF TakenOver
  <2>5. pc' = "read_line" /\ error' \notin BadLine
    BY <1>1, <1>5
  <2> QED
    BY <2>4, <2>5 DEF VerdictInv, Found, FileRead
<1>6. CASE line[1] \in BadLine /\ Fail(line[1])
  <2>1. pc' = "failed" /\ error' = lines[line_no][1] /\ error' \in BadLine
    BY <1>6 DEF Fail
  <2>2. line_no' > 1 /\ line_no' - 1 = line_no /\ line_no' - 2 = line_no - 1
    BY <1>1
  <2>3. \A i \in 1..(line_no - 1) : lines[i][1] \notin BadLine
    BY <1>2 DEF TakenOver
  <2> QED
    BY <1>1, <2>1, <2>2, <2>3 DEF VerdictInv, Found, FileRead
<1> QED
  <2>1. stream \in TokenizerStream
    BY DEF IInv, TypeOK
  <2>2. \A tokens : [stream EXCEPT !.tokens = tokens].tokens = tokens
    BY <2>1 DEF TokenizerStream
  <2>3. CASE line[1] = "record" /\ UNCHANGED <<pc, error>>
             /\ stream' = [stream EXCEPT !.tokens = Append(@, line[2])]
    BY <1>4, <1>5, <2>2, <2>3
  <2>4. CASE line[1] = "blank" /\ UNCHANGED <<stream, pc, error>>
    BY <1>4, <1>5, <2>4
  <2> QED
    BY <1>6, <2>3, <2>4 DEF ReadLine

\* A check of the stream fails for what it has found, and touches no token.
LEMMA CheckVerdict ==
  ASSUME IInv, VerdictInv, UNCHANGED <<raw, lines, line_no>>, stream'.tokens = stream.tokens,
         Len(lines) + 1 = line_no \/ pc # "read_line",
         pc' # "read_line",
         pc = "failed" => UNCHANGED <<pc, error, stream, index, expected_start>>,
         pc # "failed" /\ pc' = "failed" => Found' /\ error' \notin BadLine,
         pc' # "failed" => error' = error
  PROVE  VerdictInv'
<1>1. Len(lines) \in Nat /\ (pc # "failed" => error = "none") /\ "none" \notin BadLine
  BY DEF IInv, TypeOK, BadLine
<1>2. Found'
  BY DEF VerdictInv, Found, TokenError
<1>3. \A n : TakenOver(n)' = TakenOver(n)
  BY DEF TakenOver
<1>4. error' \in BadLine => pc = "failed" /\ UNCHANGED <<pc, error>>
  BY <1>1
<1>5. error' \notin BadLine => error \notin BadLine
  BY <1>1
<1>6. pc' # "read_line" /\ error' \notin BadLine /\ lines' # <<>> => TakenOver(Len(lines))'
  <2>1. CASE pc = "read_line"
    <3>1. TakenOver(line_no - 1) /\ line_no - 1 = Len(lines)
      BY <1>1, <2>1 DEF VerdictInv, FileRead
    <3> QED
      BY <3>1 DEF TakenOver
  <2>2. CASE pc # "read_line"
    BY <1>5, <2>2 DEF VerdictInv, FileRead, TakenOver
  <2> QED
    BY <2>1, <2>2
<1>7. error' \in BadLine =>
        /\ pc' = "failed" /\ line_no' > 1
        /\ lines'[line_no' - 1][1] = error'
        /\ \A i \in 1..(line_no' - 2) : lines'[i][1] \notin BadLine
  BY <1>4 DEF VerdictInv, FileRead
<1> QED
  BY <1>2, <1>6, <1>7 DEF VerdictInv, FileRead

\* Every step records what it has found, and keeps the records in file order.
LEMMA NextVerdict == IInv /\ VerdictInv /\ [Next \/ Terminated]_vars => VerdictInv'
<1> SUFFICES ASSUME IInv, VerdictInv, [Next \/ Terminated]_vars PROVE VerdictInv'
  OBVIOUS
<1>1. /\ stream \in TokenizerStream /\ Len(lines) \in Nat /\ line_no \in 1..(Len(lines) + 1)
      /\ index \in Nat /\ Len(stream.tokens) \in Nat /\ index <= Len(stream.tokens) + 1
      /\ (pc # "failed" => error = "none")
  BY DEF IInv, TypeOK, TokenizerStream
<1>2. CASE ReadLine
  BY <1>2, ReadLineVerdict
<1>3. CASE BuildStream
  <2>1. /\ pc = "read_line" /\ line_no = Len(lines) + 1 /\ pc' = "identity"
        /\ UNCHANGED <<raw, lines, line_no, index, expected_start, error>>
        /\ stream'.tokens = stream.tokens
    BY <1>1, <1>3 DEF BuildStream, TokenizerStream
  <2> QED
    BY <2>1, CheckVerdict
<1>4. CASE CheckIdentity
  <2>1. /\ pc = "identity" /\ pc' \in {"failed", "tokens"}
        /\ UNCHANGED <<raw, lines, stream, line_no, index, expected_start>>
        /\ pc' # "failed" => error' = error
        /\ pc' = "failed" => \/ error' = "raw_len" /\ stream.raw_len # Len(raw)
                             \/ error' = "raw_sha256" /\ stream.raw_sha256 # Sha256(raw)
    BY <1>4 DEF CheckIdentity, Fail
  <2>2. pc' = "failed" => Found' /\ error' \notin BadLine
    BY <2>1 DEF Found, BadLine
  <2> QED
    BY <2>1, <2>2, CheckVerdict
<1>5. CASE CheckToken
  <2> DEFINE t == stream.tokens[index]
  <2>1. /\ pc = "tokens" /\ index <= Len(stream.tokens) /\ UNCHANGED <<raw, lines, stream, line_no>>
        /\ \/ pc' = "tokens" /\ error' = error
           \/ /\ pc' = "failed" /\ error' = TokenError(t) /\ TokenError(t) # "none"
              /\ UNCHANGED <<expected_start, index>>
    BY <1>5 DEF CheckToken, Fail
  <2>2. TokenError(t) \notin BadLine
    BY DEF TokenError, BadLine
  <2>3. pc' = "failed" => Found' /\ error' \notin BadLine
    <3> SUFFICES ASSUME pc' = "failed" PROVE Found' /\ error' \notin BadLine
      OBVIOUS
    <3>1. TokenError(stream.tokens[index])' = TokenError(stream.tokens[index])
      BY <2>1 DEF TokenError
    <3> QED
      BY <2>1, <2>2, <3>1 DEF Found
  <2> QED
    BY <2>1, <2>3, CheckVerdict
<1>6. CASE CheckEnd
  <2>1. /\ pc = "tokens" /\ index = Len(stream.tokens) + 1 /\ pc' \in {"failed", "reconstruct"}
        /\ UNCHANGED <<raw, lines, stream, line_no, index, expected_start>>
        /\ pc' # "failed" => error' = error
        /\ pc' = "failed" => error' = "trailing_gap" /\ expected_start # Len(raw)
    BY <1>1, <1>6 DEF CheckEnd, Fail
  <2>2. pc' = "failed" => Found' /\ error' \notin BadLine
    BY <2>1 DEF Found, BadLine
  <2> QED
    BY <2>1, <2>2, CheckVerdict
<1>7. CASE CheckReconstruction
  <2>1. /\ pc = "reconstruct" /\ pc' \in {"failed", "valid"}
        /\ UNCHANGED <<raw, lines, stream, line_no, index, expected_start>>
        /\ pc' # "failed" => error' = error
        /\ pc' = "failed" => error' = "reconstruction" /\ Reconstruct(stream.tokens) # raw
    BY <1>7 DEF CheckReconstruction, Fail
  <2>2. pc' = "failed" => Found' /\ error' \notin BadLine
    BY <2>1 DEF Found, BadLine
  <2> QED
    BY <2>1, <2>2, CheckVerdict
<1>8. CASE UNCHANGED vars
  BY <1>8 DEF vars, VerdictInv, Found, FileRead, TakenOver, TokenError
<1> QED
  BY <1>2, <1>3, <1>4, <1>5, <1>6, <1>7, <1>8 DEF Next, Terminated

\* The loop invariant and the verdict, together.
LEMMA VerdictInvariant == Spec => [](IInv /\ VerdictInv)
<1> QED
  BY InitInvariant, NextInvariant, InitVerdict, NextVerdict, PTL DEF Spec

\* A validation that failed on a stream refutes that it is a partition of the
\* raw bytes, whichever check it was that failed.
LEMMA TurnedDownIsNoPartition ==
  ASSUME IInv, Found, pc = "failed", error \notin BadLine
  PROVE  ~WellFormed(stream, raw)
<1> SUFFICES ASSUME WellFormed(stream, raw) PROVE FALSE
  OBVIOUS
<1>1. /\ raw \in Bytes /\ stream \in TokenizerStream /\ Len(raw) \in Nat
      /\ Len(stream.tokens) \in Nat /\ index \in Nat
      /\ Checked
  BY DEF IInv, TypeOK, TokenizerStream, Bytes
<1>2. /\ stream.raw_len = Len(raw) /\ stream.raw_sha256 = Sha256(raw)
      /\ Partition(stream.tokens, Len(raw))
      /\ \A i \in 1..Len(stream.tokens) : stream.tokens[i].bytes =
           Slice(raw, stream.tokens[i].byte_start, stream.tokens[i].byte_end)
  BY DEF WellFormed
<1>3. CASE index <= Len(stream.tokens) /\ error = TokenError(stream.tokens[index]) /\ error # "none"
  <2>1. Slice(raw, 0, Len(raw)) = raw
    BY <1>1, SliceWhole
  <2>2. TokenError(stream.tokens[index]) = "none"
    <3> DEFINE tokens == stream.tokens
               n == Len(raw)
    <3>1. /\ n \in Nat /\ n <= Len(raw) /\ Len(tokens) \in Nat /\ index <= Len(tokens)
          /\ Len(tokens) <= Len(stream.tokens)
          /\ \A i \in 1..Len(tokens) : tokens[i] = stream.tokens[i]
          /\ Partition(tokens, n)
          /\ \A i \in 1..Len(tokens) : tokens[i].bytes =
               Slice(Slice(raw, 0, n), tokens[i].byte_start, tokens[i].byte_end)
      BY <1>1, <1>2, <1>3, <2>1
    <3> HIDE DEF tokens, n
    <3> QED
      BY <3>1, NextFits
  <2> QED
    BY <1>3, <2>2
<1>4. CASE index = Len(stream.tokens) + 1 /\ expected_start # Len(raw)
  BY <1>1, <1>2, <1>4 DEF Checked, Partition, Reaches
<1>5. CASE Reconstruct(stream.tokens) # raw
  BY <1>1, <1>5, WellFormedReconstructs
<1> QED
  BY <1>2, <1>3, <1>4, <1>5 DEF Found

\* The verdict is that of the whole file: no record is dropped, repeated or
\* moved between the lines read and the stream judged, a file is turned down
\* only for its first bad line or for being no partition of the raw bytes, and
\* this for files and streams of every length.
THEOREM VerdictOfEveryFile == Spec => []VerdictIsOfTheFile
<1>1. ASSUME IInv, VerdictInv PROVE VerdictIsOfTheFile
  <2> DEFINE presented == IF lines = <<>> THEN stream.tokens ELSE RecordsUpTo(lines)[Len(lines)]
             badLine   == \E i \in 1..Len(lines) : lines[i][1] \in BadLine
  <2>1. /\ stream \in TokenizerStream /\ Len(lines) \in Nat /\ (error = "none") = (pc # "failed")
        /\ Found /\ FileRead
    BY <1>1 DEF IInv, TypeOK, VerdictInv
  <2>2. ASSUME pc # "read_line", error \notin BadLine
        PROVE  ~badLine /\ presented = stream.tokens
    <3>1. CASE lines = <<>>
      BY <3>1
    <3>2. CASE lines # <<>>
      BY <2>1, <2>2, <3>2 DEF FileRead, TakenOver
    <3> QED
      BY <3>1, <3>2
  <2>3. [stream EXCEPT !.tokens = stream.tokens] = stream
    BY <2>1 DEF TokenizerStream
  <2>4. pc = "failed" /\ error \notin BadLine =>
          ~badLine /\ ~WellFormed([stream EXCEPT !.tokens = presented], raw)
    <3> SUFFICES ASSUME pc = "failed", error \notin BadLine
                 PROVE  ~badLine /\ ~WellFormed([stream EXCEPT !.tokens = presented], raw)
      OBVIOUS
    <3>1. ~badLine /\ presented = stream.tokens
      BY <2>2
    <3>2. ~WellFormed(stream, raw)
      BY <1>1, <2>1, TurnedDownIsNoPartition
    <3> HIDE DEF badLine, presented
    <3> QED
      BY <2>3, <3>1, <3>2
  <2>5. pc = "valid" => ~badLine /\ stream.tokens = presented
    <3>1. "none" \notin BadLine
      BY DEF BadLine
    <3> HIDE DEF badLine, presented
    <3> QED
      BY <2>1, <2>2, <3>1
  <2>6. error \in BadLine =>
          /\ lines[line_no - 1][1] = error
          /\ \A i \in 1..(line_no - 2) : lines[i][1] \notin BadLine
    BY <2>1 DEF FileRead
  <2> QED
    BY <2>4, <2>5, <2>6 DEF VerdictIsOfTheFile
<1> QED
  BY <1>1, VerdictInvariant, PTL

\* The tokens before the next one to be checked cut the raw bytes up to
\* expected_start: this holds all through the loop, and whenever it stops.
LEMMA CheckedPrefix ==
  ASSUME IInv
  PROVE  LET before == SubSeq(stream.tokens, 1, index - 1)
             sound  == Slice(raw, 0, expected_start)
         IN  WellFormed([stream EXCEPT !.tokens = before, !.raw_len = expected_start,
                                       !.raw_sha256 = Sha256(sound)], sound)
<1> DEFINE before == SubSeq(stream.tokens, 1, index - 1)
           sound  == Slice(raw, 0, expected_start)
           s == [stream EXCEPT !.tokens = before, !.raw_len = expected_start,
                               !.raw_sha256 = Sha256(sound)]
<1>1. /\ raw \in Bytes /\ stream \in TokenizerStream /\ Len(raw) \in Nat /\ expected_start \in Nat
      /\ stream.tokens \in Seq(NativeToken)
      /\ expected_start <= Len(raw) /\ index \in Nat /\ index >= 1
      /\ Len(stream.tokens) \in Nat /\ index - 1 <= Len(stream.tokens) /\ Checked
  BY DEF IInv, TypeOK, TokenizerStream, Bytes
<1>2. Len(before) = index - 1 /\ \A i \in 1..(index - 1) : before[i] = stream.tokens[i]
  BY <1>1
<1>3. Len(sound) = expected_start
  BY <1>1 DEF Slice, Bytes
<1>4. s.raw_len = expected_start /\ s.raw_sha256 = Sha256(sound) /\ s.tokens = before
  BY <1>1 DEF TokenizerStream
<1>5. \A i \in 1..(index - 1) :
        /\ stream.tokens[i].byte_start \in Nat /\ stream.tokens[i].byte_end \in Nat
        /\ stream.tokens[i].byte_start < stream.tokens[i].byte_end
        /\ stream.tokens[i].byte_end <= expected_start
        /\ stream.tokens[i].bytes =
             Slice(raw, stream.tokens[i].byte_start, stream.tokens[i].byte_end)
  <2> SUFFICES ASSUME NEW i \in 1..(index - 1)
               PROVE  stream.tokens[i].byte_start \in Nat /\ stream.tokens[i].byte_end \in Nat
    BY <1>1 DEF Checked
  <2>1. stream.tokens[i] \in NativeToken
    BY <1>1
  <2> QED
    BY <2>1 DEF NativeToken
<1>6. \A i \in 1..(index - 1) : before[i].bytes = Slice(sound, before[i].byte_start, before[i].byte_end)
  <2> SUFFICES ASSUME NEW i \in 1..(index - 1)
               PROVE  before[i].bytes = Slice(sound, before[i].byte_start, before[i].byte_end)
    OBVIOUS
  <2> DEFINE t == stream.tokens[i]
  <2>1. /\ t.byte_start \in Nat /\ t.byte_end \in Nat /\ t.byte_start <= t.byte_end
        /\ t.byte_end <= expected_start /\ t.bytes = Slice(raw, t.byte_start, t.byte_end)
    BY <1>5
  <2>2. before[i] = t
    BY <1>2
  <2> HIDE DEF t, before
  <2>3. Slice(sound, t.byte_start, t.byte_end) = Slice(raw, t.byte_start, t.byte_end)
    BY <1>1, <2>1, SliceOfFront
  <2> QED
    BY <2>1, <2>2, <2>3
<1> HIDE DEF before, sound, s
<1>7. Partition(before, expected_start)
  <2>1. NonEmptySpans(before)
    BY <1>2, <1>5 DEF NonEmptySpans
  <2>2. Contiguous(before)
    <3> SUFFICES ASSUME NEW i \in 1..(index - 1), i > 1
                 PROVE  before[i].byte_start = before[i - 1].byte_end
      BY <1>2 DEF Contiguous
    <3>1. i - 1 \in 1..(index - 1)
      BY <1>1
    <3> QED
      BY <1>1, <1>2, <3>1 DEF Checked
  <2>3. Ordered(before)
    BY <1>1, <1>2 DEF Ordered, Checked
  <2>4. Reaches(before, expected_start)
    <3>1. index # 1 => index - 1 \in 1..(index - 1) /\ 1 \in 1..(index - 1) /\ index - 1 # 0
      BY <1>1
    <3> QED
      BY <1>1, <1>2, <3>1 DEF Reaches, Checked
  <2> QED
    BY <2>1, <2>2, <2>3, <2>4 DEF Partition
<1>8. WellFormed(s, sound)
  BY <1>2, <1>3, <1>4, <1>6, <1>7 DEF WellFormed
<1> QED
  BY <1>8 DEF s, before, sound

\* The token that a failed validation names is the first faulty one: the tokens
\* before it cut the raw bytes exactly, up to where it should have started, and
\* with it they cut no longer beginning of the raw bytes, for every stream.
THEOREM FaultNamedIsTheFirst == Spec => []DiagnosisNamesFirstFault
<1>1. ASSUME IInv, VerdictInv PROVE DiagnosisNamesFirstFault
  <2> SUFFICES ASSUME pc = "failed",
                      error \in {"overlap", "gap", "reversed", "empty", "beyond", "bytes"},
                      NEW n \in expected_start..Len(raw)
               PROVE  ~WellFormed([stream EXCEPT !.tokens = SubSeq(@, 1, index), !.raw_len = n,
                                                 !.raw_sha256 = Sha256(Slice(raw, 0, n))],
                                  Slice(raw, 0, n))
    BY <1>1, CheckedPrefix DEF DiagnosisNamesFirstFault
  <2> DEFINE tokens == SubSeq(stream.tokens, 1, index)
             s == [stream EXCEPT !.tokens = SubSeq(@, 1, index), !.raw_len = n,
                                 !.raw_sha256 = Sha256(Slice(raw, 0, n))]
  <2> SUFFICES ASSUME WellFormed(s, Slice(raw, 0, n)) PROVE FALSE
    OBVIOUS
  <2>1. /\ raw \in Bytes /\ stream \in TokenizerStream /\ stream.tokens \in Seq(NativeToken)
        /\ Len(stream.tokens) \in Nat /\ index \in Nat /\ index >= 1 /\ Len(raw) \in Nat
        /\ expected_start \in Nat /\ n \in Nat /\ n <= Len(raw)
    BY <1>1 DEF IInv, TypeOK, TokenizerStream, Bytes
  <2>2. index <= Len(stream.tokens) /\ error = TokenError(stream.tokens[index]) /\ error # "none"
    BY <1>1 DEF VerdictInv, Found, BadLine
  <2>3. Len(tokens) = index /\ \A i \in 1..index : tokens[i] = stream.tokens[i]
    BY <2>1, <2>2
  <2>4. s.tokens = tokens
    BY <2>1 DEF TokenizerStream
  <2>5. Len(Slice(raw, 0, n)) = n
    BY <2>1 DEF Slice, Bytes
  <2> HIDE DEF tokens, s
  <2>6. /\ Partition(tokens, n)
        /\ \A i \in 1..Len(tokens) : tokens[i].bytes =
             Slice(Slice(raw, 0, n), tokens[i].byte_start, tokens[i].byte_end)
    BY <2>4, <2>5 DEF WellFormed
  <2>7. TokenError(stream.tokens[index]) = "none"
    BY <1>1, <2>1, <2>2, <2>3, <2>6, NextFits
  <2> QED
    BY <2>2, <2>7
<1> QED
  BY <1>1, VerdictInvariant, PTL
=============================================================================
