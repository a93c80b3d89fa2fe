------------------------- MODULE MCAlignTokenSpans -------------------------
(***************************************************************************)
(* AlignTokenSpans on every pair of streams over raw inputs of at most     *)
(* MaxLen bytes and two hashes: equal and different lengths and hashes,    *)
(* the empty input, and every way to cut the input into tokens.            *)
(***************************************************************************)
EXTENDS AlignTokenSpans

CONSTANTS MaxLen,  \* longest raw input
          Hashes   \* the raw_sha256 values

\* Every partition of 0..n into nonempty spans, by the start of its last span.
Partitions[n \in 0..MaxLen] ==
  IF n = 0 THEN {<<>>}
  ELSE UNION {{Append(p, [byte_start |-> m, byte_end |-> n]) : p \in Partitions[m]} :
                m \in 0..(n - 1)}

MCStreams ==
  UNION {{[raw_len |-> n, raw_sha256 |-> h, tokens |-> p] :
            p \in Partitions[n], h \in Hashes} : n \in 0..MaxLen}
=============================================================================
