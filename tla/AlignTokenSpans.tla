-------------------------- MODULE AlignTokenSpans --------------------------
(***************************************************************************)
(* align_token_spans (src/bridge.rs): the two-cursor sweep that aligns the *)
(* tokens of one stream to those of another in a single forward pass.      *)
(*                                                                         *)
(* One action per loop iteration or straight-line segment of the function. *)
(* Its inputs are streams that TokenizerStream::validate has accepted, as  *)
(* its doc comment demands and every caller in src/ arranges; the streams  *)
(* may still be of two different raw inputs, which validate_pair refuses.  *)
(***************************************************************************)
EXTENDS Spans

CONSTANT Streams  \* the validated streams the function may be called with

ASSUME StreamsAssumption ==
  \A s \in Streams :
    /\ s.raw_len \in Nat
    /\ s.tokens \in Seq(Span)
    /\ Partition(s.tokens, s.raw_len)

VARIABLES left, right,  \* the two arguments
          phase,        \* the segment of the function about to run
          right_start,  \* first right token that may still intersect
          right_end,    \* first right token past the intersection
          output        \* one TokenSpanAlignment per left token done

sweepVars == <<left, right, phase, right_start, right_end, output>>

\* The left token the for loop is at.
left_token == left.tokens[Len(output) + 1]

SweepInit ==
  /\ left \in Streams
  /\ right \in Streams
  /\ phase = "validate_pair"
  /\ right_start = 1
  /\ right_end = 1
  /\ output = <<>>

ValidatePair ==
  /\ phase = "validate_pair"
  /\ phase' = IF SameRaw(left, right) THEN "next_token" ELSE "refused"
  /\ UNCHANGED <<left, right, right_start, right_end, output>>

\* Mutated: the loop ends one token early.
NextTokenShort ==
  /\ phase = "next_token"
  /\ phase' = IF Len(output) + 1 < Len(left.tokens) THEN "advance_start" ELSE "done"
  /\ UNCHANGED <<left, right, right_start, right_end, output>>

\* The for loop takes its next token, or ends.
NextToken ==
  /\ phase = "next_token"
  /\ phase' = IF Len(output) < Len(left.tokens) THEN "advance_start" ELSE "done"
  /\ UNCHANGED <<left, right, right_start, right_end, output>>

\* Mutated: a right token that ends where the left one starts is kept.
BehindStartStrict == /\ right_start <= Len(right.tokens)
                     /\ right.tokens[right_start].byte_end < left_token.byte_start

BehindStart == /\ right_start <= Len(right.tokens)
               /\ right.tokens[right_start].byte_end <= left_token.byte_start

\* Mutated: the increment is lost.
AdvanceStartStuck == phase = "advance_start" /\ BehindStart /\ UNCHANGED sweepVars

AdvanceStart ==
  /\ phase = "advance_start"
  /\ BehindStart
  /\ right_start' = right_start + 1
  /\ UNCHANGED <<left, right, phase, right_end, output>>

\* The first while loop ends; right_end never trails right_start.
StartSettled ==
  /\ phase = "advance_start"
  /\ ~BehindStart
  /\ right_end' = IF right_end < right_start THEN right_start ELSE right_end
  /\ phase' = "advance_end"
  /\ UNCHANGED <<left, right, right_start, output>>

BeforeEnd == /\ right_end <= Len(right.tokens)
             /\ right.tokens[right_end].byte_start < left_token.byte_end

AdvanceEnd ==
  /\ phase = "advance_end"
  /\ BeforeEnd
  /\ right_end' = right_end + 1
  /\ UNCHANGED <<left, right, phase, right_start, output>>

StartsOnBoundary == /\ right_start <= Len(right.tokens)
                    /\ right.tokens[right_start].byte_start = left_token.byte_start

EndsOnBoundary == IF right_end <= Len(right.tokens)
                  THEN right.tokens[right_end].byte_start = left_token.byte_end
                  ELSE left_token.byte_end = right.raw_len

TokenSpanAlignment ==
  [right_start_index         |-> right_start,
   right_end_index_exclusive |-> right_end,
   right_token_count         |-> SaturatingSub(right_end, right_start),
   starts_on_right_boundary  |-> StartsOnBoundary,
   ends_on_right_boundary    |-> EndsOnBoundary]

AlignmentRecord == [right_start_index         : Nat,
                    right_end_index_exclusive : Nat,
                    right_token_count         : Nat,
                    starts_on_right_boundary  : BOOLEAN,
                    ends_on_right_boundary    : BOOLEAN]

Push ==
  /\ phase = "advance_end"
  /\ ~BeforeEnd
  /\ output' = Append(output, TokenSpanAlignment)
  /\ phase' = "next_token"
  /\ UNCHANGED <<left, right, right_start, right_end>>

SweepNext == \/ ValidatePair \/ NextToken \/ AdvanceStart \/ StartSettled
             \/ AdvanceEnd \/ Push

SweepTerminated == phase \in {"done", "refused"} /\ UNCHANGED sweepVars

\* The function is one thread of straight-line code: it keeps running.
SweepSpec == SweepInit /\ [][SweepNext \/ SweepTerminated]_sweepVars /\ WF_sweepVars(SweepNext)
-----------------------------------------------------------------------------
TypeOK ==
  /\ left \in Streams
  /\ right \in Streams
  /\ phase \in {"validate_pair", "next_token", "advance_start", "advance_end",
                "done", "refused"}
  /\ right_start \in 1..(Len(right.tokens) + 1)
  /\ right_end \in 1..(Len(right.tokens) + 1)
  /\ output \in Seq(AlignmentRecord)
  /\ Len(output) <= Len(left.tokens)
  /\ phase \in {"advance_start", "advance_end"} => Len(output) < Len(left.tokens)
  /\ phase = "done" => Len(output) = Len(left.tokens)

\* A TokenSpanAlignment seen as the abstract record: the index range becomes
\* the set of right tokens it names.
AsRecord(r) == [covered |-> r.right_start_index .. (r.right_end_index_exclusive - 1),
                starts  |-> r.starts_on_right_boundary,
                ends    |-> r.ends_on_right_boundary]

outcomeBar == CASE phase = "done" -> "aligned"
                [] phase = "refused" -> "refused"
                [] OTHER -> "running"

Promise == INSTANCE SpanAlignment
             WITH alignment <- [i \in 1..Len(output) |-> AsRecord(output[i])],
                  outcome <- outcomeBar

\* Every record pushed relates its left token to exactly the right tokens that
\* share a byte with it, counts them, and flags its ends as the right stream's
\* boundaries do, although neither cursor is ever moved back.
RecordsExact ==
  \A i \in 1..Len(output) :
    /\ AsRecord(output[i]) = Promise!Record(left.tokens[i], right)
    /\ output[i].right_token_count = Cardinality(CoveredBy(left.tokens[i], right))

\* Neighbouring records meet: a right token that a left boundary cuts is in
\* both, and otherwise the second starts where the first stopped.  So no right
\* token is skipped between two left tokens and no other is counted twice.
RecordsMeet ==
  \A i \in 1..Len(output) : i > 1 =>
    LET previous == output[i - 1]
    IN  /\ output[i].starts_on_right_boundary = previous.ends_on_right_boundary
        /\ output[i].right_start_index =
             IF previous.ends_on_right_boundary
             THEN previous.right_end_index_exclusive
             ELSE previous.right_end_index_exclusive - 1

\* A finished sweep has passed over the whole right stream: the records reach
\* its first and its last token, and both outer ends are boundaries.
SweepComplete ==
  phase = "done" /\ Len(output) > 0 =>
    LET last == output[Len(output)]
    IN  /\ output[1].right_start_index = 1
        /\ output[1].starts_on_right_boundary
        /\ last.right_end_index_exclusive = Len(right.tokens) + 1
        /\ last.ends_on_right_boundary

\* "Their cursors therefore only move forward": the sweep is linear because
\* neither cursor ever goes back, by one position at a time except where
\* right_end is lifted to right_start.
CursorsForward ==
  [][/\ right_start' \in {right_start, right_start + 1}
     /\ right_end' >= right_end
     /\ (right_end' > right_end + 1 => right_end' = right_start)]_sweepVars

\* The sweep implements its abstract promise.
Refines == Promise!Spec

\* The sweep always returns.
Terminates == <>(phase \in {"done", "refused"})
=============================================================================
