------------------------------- MODULE Spans -------------------------------
(***************************************************************************)
(* Token streams as spans of one raw byte sequence.                        *)
(*                                                                         *)
(* A stream is what src/bridge.rs calls a TokenizerStream: the identity    *)
(* of the raw input (its length and its hash) and the tokens in order,     *)
(* each with a half-open byte range and the bytes it stands for.  Token    *)
(* ids are left out: neither validation nor alignment looks at them.       *)
(* Sha256 is the identity: a digest stands for the bytes it was taken of,  *)
(* which assumes no collisions.                                            *)
(*                                                                         *)
(* Rust indices start at 0 and TLA+ sequences at 1, so every token index   *)
(* in these modules is one more than in the code; byte offsets are equal.  *)
(***************************************************************************)
EXTENDS Integers, Sequences, FiniteSets

Bytes == Seq(Nat)

Sha256(bytes) == bytes

NativeToken == [byte_start : Nat, byte_end : Nat, bytes : Bytes]

TokenizerStream == [raw_len : Nat, raw_sha256 : Bytes, tokens : Seq(NativeToken)]

\* The fields of a NativeToken that alignment reads.
Span == [byte_start : Nat, byte_end : Nat]

Slice(bytes, from, to) == SubSeq(bytes, from + 1, to)

SaturatingSub(a, b) == IF a < b THEN 0 ELSE a - b

\* The bytes of the tokens, one after another.
Reconstruct(tokens) ==
  LET upTo[k \in 0..Len(tokens)] ==
        IF k = 0 THEN <<>> ELSE upTo[k - 1] \o tokens[k].bytes
  IN  upTo[Len(tokens)]

\* `tokens` is an ordered, contiguous partition of the bytes 0..raw_len into
\* nonempty spans: what TokenizerStream::validate promises of the spans.
Ordered(tokens) ==
  \A i, j \in 1..Len(tokens) : i < j => tokens[i].byte_end <= tokens[j].byte_start

Contiguous(tokens) ==
  \A i \in 1..Len(tokens) : i > 1 => tokens[i].byte_start = tokens[i - 1].byte_end

NonEmptySpans(tokens) ==
  \A i \in 1..Len(tokens) : tokens[i].byte_start < tokens[i].byte_end

Reaches(tokens, raw_len) ==
  IF Len(tokens) = 0 THEN raw_len = 0
  ELSE tokens[1].byte_start = 0 /\ tokens[Len(tokens)].byte_end = raw_len

Partition(tokens, raw_len) ==
  /\ NonEmptySpans(tokens)
  /\ Contiguous(tokens)
  /\ Ordered(tokens)
  /\ Reaches(tokens, raw_len)

\* A stream that is fit to be aligned: it names these raw bytes, and its tokens
\* cut them into consecutive nonempty pieces and carry exactly those bytes.
WellFormed(s, bytes) ==
  /\ s.raw_len = Len(bytes)
  /\ s.raw_sha256 = Sha256(bytes)
  /\ Partition(s.tokens, Len(bytes))
  /\ \A i \in 1..Len(s.tokens) :
       s.tokens[i].bytes = Slice(bytes, s.tokens[i].byte_start, s.tokens[i].byte_end)

\* The byte offsets at which a stream has a token boundary.
Boundaries(stream) ==
  {stream.tokens[i].byte_start : i \in 1..Len(stream.tokens)} \cup {stream.raw_len}

\* Two spans share a byte.
Intersects(a, b) == a.byte_start < b.byte_end /\ b.byte_start < a.byte_end

\* The tokens of `stream` that share a byte with the span t.
CoveredBy(t, stream) ==
  {j \in 1..Len(stream.tokens) : Intersects(t, stream.tokens[j])}

\* What an alignment must say of the token t: the tokens of `stream` it shares
\* bytes with, and whether its two ends are boundaries there.
Record(t, stream) ==
  [covered |-> CoveredBy(t, stream),
   starts  |-> t.byte_start \in Boundaries(stream),
   ends    |-> t.byte_end \in Boundaries(stream)]

\* Two streams describe the same raw input.
SameRaw(a, b) == a.raw_len = b.raw_len /\ a.raw_sha256 = b.raw_sha256
=============================================================================
