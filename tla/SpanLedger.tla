----------------------------- MODULE SpanLedger -----------------------------
(***************************************************************************)
(* The span ledger (src/lib.rs): a DU stream and a target stream are       *)
(* loaded up to max_bytes, cut at the bytes that both of them and the raw  *)
(* input have, and every target token within is placed among the DU        *)
(* tokens.                                                                 *)
(*                                                                         *)
(* Loading is taken at its promise (LoadsShortestPrefix of LoadedStream);  *)
(* one action per target token.  IDs are positions, and indices count from *)
(* 0 as in the code.                                                       *)
(***************************************************************************)
EXTENDS ByteBounds

CONSTANTS Cases,     \* [raw, du, target, max_bytes]: the raw bytes, the lexemes of
                     \* the whole DU run and of the whole target run, the limit
          SampleCap  \* how many samples a report keeps: 80

ASSUME CasesAssumption ==
  /\ Cases \subseteq [raw : Bytes, du : Seq(Bytes), target : Seq(Bytes), max_bytes : Nat]
  /\ SampleCap \in Nat

VARIABLES input,
          pc,
          du, target,  \* the loaded streams
          ti,          \* the target token about to be placed
          counts,      \* what the loop counts
          samples,     \* the first tokens that are not exact
          report

vars == <<input, pc, du, target, ti, counts, samples, report>>

NoStream == [ids |-> <<>>, parts |-> <<>>, bounds |-> <<0>>]
NoCounts == [exact |-> 0, cut_or_cross |-> 0, start_inside |-> 0, end_inside |-> 0,
             max_du_span |-> 0]

Init ==
  /\ input \in Cases
  /\ pc = "load"
  /\ du = NoStream /\ target = NoStream
  /\ ti = 0 /\ counts = NoCounts /\ samples = <<>>
  /\ report = [written |-> FALSE]

\* What load_du_stream and load_target_stream return for lexemes they can read.
LoadUpTo(lexemes, max_bytes) ==
  LET reached == {k \in 1..Len(lexemes) : Total(lexemes, k) >= max_bytes}
      n       == IF reached = {} THEN Len(lexemes) ELSE Min(reached)
  IN  MakeLoadedStream([k \in 1..n |-> k - 1], SubSeq(lexemes, 1, n))

Load ==
  /\ pc = "load"
  /\ du' = LoadUpTo(input.du, input.max_bytes)
  /\ target' = LoadUpTo(input.target, input.max_bytes)
  /\ pc' = "scan"
  /\ UNCHANGED <<input, ti, counts, samples, report>>

limit == Min({Len(input.raw), Last(target.bounds), Last(du.bounds), input.max_bytes})

\* How many tokens of a stream end within the limit.
WholeTokens(stream) == SaturatingSub(UpperBound(stream.bounds, limit), 1)

target_count == WholeTokens(target)
du_count == WholeTokens(du)

\* Mutated: the end is searched like the start.
TargetDuSpanUpper(du_bounds, a, b) ==
  LET start == SaturatingSub(UpperBound(du_bounds, a), 1)
      end   == UpperBound(du_bounds, b)
  IN  [start |-> start, end |-> end, count |-> SaturatingSub(end, start),
       starts |-> a \in Range(du_bounds), ends |-> b \in Range(du_bounds)]

\* target_du_span: the DU tokens a target span covers, and whether its ends
\* are DU boundaries (a binary search in sorted bounds finds what is there).
TargetDuSpan(du_bounds, a, b) ==
  LET start == SaturatingSub(UpperBound(du_bounds, a), 1)
      end   == LowerBound(du_bounds, b)
  IN  [start |-> start, end |-> end, count |-> SaturatingSub(end, start),
       starts |-> a \in Range(du_bounds), ends |-> b \in Range(du_bounds)]

Count(span, starts, ends) ==
  [exact        |-> counts.exact + (IF starts /\ ends THEN 1 ELSE 0),
   cut_or_cross |-> counts.cut_or_cross + (IF starts /\ ends THEN 0 ELSE 1),
   start_inside |-> counts.start_inside + (IF starts THEN 0 ELSE 1),
   end_inside   |-> counts.end_inside + (IF ends THEN 0 ELSE 1),
   max_du_span  |-> Max({counts.max_du_span, span.count})]

Sample(span) ==
  [target_pos            |-> ti,
   du_start_pos          |-> span.start,
   du_end_pos_exclusive  |-> span.end,
   context_start         |-> SaturatingSub(span.start, 3),
   context_end           |-> Min({span.end + 3, Len(du.ids)})]

\* Mutated: one sample more than the cap is kept.
RoomForOneMore == Len(samples) <= SampleCap

Room == Len(samples) < SampleCap

\* Place one target token; its ends must also be among the boundaries of the
\* DU tokens within the limit.
ScanToken ==
  /\ pc = "scan"
  /\ ti < target_count
  /\ LET a      == target.bounds[ti + 1]
         b      == target.bounds[ti + 2]
         span   == TargetDuSpan(du.bounds, a, b)
         within == Range(SubSeq(du.bounds, 1, Min({du_count, Len(du.bounds) - 1}) + 1))
         starts == span.starts /\ a \in within
         ends   == span.ends /\ b \in within
     IN  /\ counts' = Count(span, starts, ends)
         /\ samples' = IF ~(starts /\ ends) /\ Room
                       THEN Append(samples, Sample(span)) ELSE samples
  /\ ti' = ti + 1
  /\ UNCHANGED <<input, pc, du, target, report>>

NoMismatch == -1

\* first_mismatch.
FirstMismatch(a, b) ==
  LET shared  == Min({Len(a), Len(b)})
      differs == {k \in 1..shared : a[k] # b[k]}
  IN  CASE differs # {}                   -> Min(differs) - 1
        [] differs = {} /\ Len(a) # Len(b) -> shared
        [] OTHER                          -> NoMismatch

\* Mutated: whole tokens are decoded, up to the last within the limit.
DecodedWhole(stream) == FlattenSeq(SubSeq(stream.parts, 1, WholeTokens(stream)))

Decoded(stream) == Slice(FlattenSeq(stream.parts), 0, limit)

Report ==
  /\ pc = "scan"
  /\ ti >= target_count
  /\ LET target_mismatch == FirstMismatch(Decoded(target), Slice(input.raw, 0, limit))
         du_mismatch     == FirstMismatch(Decoded(du), Slice(input.raw, 0, limit))
     IN  report' = [written                       |-> TRUE,
                    bytes_tested                  |-> limit,
                    target_tokens_tested          |-> target_count,
                    du_tokens_covering_prefix     |-> du_count,
                    target_decode_first_mismatch  |-> target_mismatch,
                    du_decode_first_mismatch      |-> du_mismatch,
                    exact_reconstruction          |-> /\ target_mismatch = NoMismatch
                                                      /\ du_mismatch = NoMismatch]
  /\ pc' = "done"
  /\ UNCHANGED <<input, du, target, ti, counts, samples>>

Next == Load \/ ScanToken \/ Report

Terminated == pc = "done" /\ UNCHANGED vars

Spec == Init /\ [][Next \/ Terminated]_vars
-----------------------------------------------------------------------------
\* The whole runs, as spans: what the report would be about without a limit.
SpansOf(lexemes) ==
  [k \in 1..Len(lexemes) |-> [byte_start |-> Total(lexemes, k - 1),
                              byte_end   |-> Total(lexemes, k)]]
Whole(lexemes) == [tokens |-> SpansOf(lexemes), raw_len |-> Total(lexemes, Len(lexemes))]

\* Cutting both runs off at max_bytes is never seen in the report: the bytes
\* tested are those that both whole runs and the raw input have, the tokens
\* tested are all that end within them (but for empty ones at the very end),
\* and the counts are those of their places among all DU tokens, although
\* lexemes on either side may be empty.
CutOffUnseen ==
  report.written =>
    LET whole_du     == Whole(input.du)
        whole_target == Whole(input.target)
        bytes  == Min({Len(input.raw), whole_target.raw_len, whole_du.raw_len, input.max_bytes})
        tested == 1..report.target_tokens_tested
        place  == [k \in tested |-> Record(whole_target.tokens[k], whole_du)]
        exact  == {k \in tested : place[k].starts /\ place[k].ends}
    IN  /\ report.bytes_tested = bytes
        /\ \A k \in 1..Len(input.target) :
             IF k \in tested THEN whole_target.tokens[k].byte_end <= bytes
             ELSE whole_target.tokens[k].byte_end > bytes
                  \/ whole_target.tokens[k].byte_start = bytes
        /\ counts.exact = Cardinality(exact)
        /\ counts.cut_or_cross = Cardinality(tested \ exact)
        /\ counts.start_inside = Cardinality({k \in tested : ~place[k].starts})
        /\ counts.end_inside = Cardinality({k \in tested : ~place[k].ends})
        /\ counts.max_du_span = Max({0} \cup {Cardinality(place[k].covered) : k \in tested})

\* The samples are the first inexact tokens, in order, as many as are kept, and
\* the context each one shows is a nonempty part of the DU stream that holds
\* the DU tokens it covers: the slice that builds it never fails.
SamplesAreFirstCuts ==
  LET inexact(k) == {target.bounds[k + 1], target.bounds[k + 2]} \cap Range(du.bounds)
                    # {target.bounds[k + 1], target.bounds[k + 2]}
      cuts == {k \in 0..(ti - 1) : inexact(k)}
  IN  /\ Len(samples) = Min({Cardinality(cuts), SampleCap})
      /\ \A i \in 1..Len(samples) :
           LET s == samples[i]
           IN  /\ s.target_pos \in cuts
               /\ Cardinality({k \in cuts : k < s.target_pos}) = i - 1
               /\ s.du_start_pos < s.du_end_pos_exclusive
               /\ s.context_start <= s.du_start_pos
               /\ s.du_end_pos_exclusive <= s.context_end
               /\ s.context_end <= Len(du.ids)

\* Exact reconstruction is claimed exactly when raw input and both whole runs
\* agree on the bytes tested, and a mismatch names their first difference.
ExactMeansSame ==
  report.written =>
    LET n == report.bytes_tested
        same(lexemes, m) == Slice(FlattenSeq(lexemes), 0, m) = Slice(input.raw, 0, m)
        first(lexemes, at) == IF at = NoMismatch THEN same(lexemes, n)
                              ELSE at < n /\ same(lexemes, at) /\ ~same(lexemes, at + 1)
    IN  /\ first(input.target, report.target_decode_first_mismatch)
        /\ first(input.du, report.du_decode_first_mismatch)
        /\ report.exact_reconstruction = (same(input.target, n) /\ same(input.du, n))
=============================================================================
