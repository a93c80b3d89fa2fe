------------------------- MODULE MCTokenizerBridge -------------------------
(***************************************************************************)
(* TokenizerBridge on every triple of partitions of raw inputs of up to    *)
(* MaxLen bytes, and on triples in which one stream is malformed: a token  *)
(* left out, a token with the wrong bytes, or another identity; and       *)
(* SpanBench on every pair of them, with up to two rounds and none.        *)
(***************************************************************************)
EXTENDS SpanBench

CONSTANT MaxLen

RawOf(n) == [k \in 1..n |-> k]

Partitions[n \in 0..MaxLen] ==
  IF n = 0 THEN {<<>>}
  ELSE UNION {{Append(p, [byte_start |-> m, byte_end |-> n,
                          bytes |-> Slice(RawOf(n), m, n)]) : p \in Partitions[m]} :
                m \in 0..(n - 1)}

Stream(bytes, tokens) ==
  [raw_len |-> Len(bytes), raw_sha256 |-> Sha256(bytes), tokens |-> tokens]

Good(n) == {Stream(RawOf(n), p) : p \in Partitions[n]}

Bad(n) ==
  {Stream(RawOf(n), Tail(p)) : p \in Partitions[n] \ {<<>>}} \cup
  {Stream(RawOf(n), [p EXCEPT ![1].bytes = <<9>>]) : p \in Partitions[n] \ {<<>>}} \cup
  {[Stream(RawOf(n), p) EXCEPT !.raw_sha256 = Append(RawOf(n), 9)] : p \in Partitions[n]}

Call(n, s, d, t) == [raw |-> RawOf(n), source |-> s, du |-> d, target |-> t]

MCCalls ==
  UNION {{Call(n, s, d, t) : s \in Good(n), d \in Good(n), t \in Good(n)} : n \in 0..MaxLen}
  \cup UNION {{Call(2, b, s, s), Call(2, s, b, s), Call(2, s, s, b), Call(2, b, b, s),
               Call(2, s, b, b)} : b \in Bad(2), s \in Good(2)}

MCJobs == [warmup : 0..1, reps : 0..2, output : {TRUE}]
          \cup {[warmup |-> 0, reps |-> 1, output |-> FALSE]}
=============================================================================
