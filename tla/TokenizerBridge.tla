-------------------------- MODULE TokenizerBridge --------------------------
(***************************************************************************)
(* bridge_tokenizer_streams (src/bridge.rs): validates a source, a DU and  *)
(* a target stream of one raw input, aligns source to DU and DU and target *)
(* to each other, and reports reconstruction and boundary statistics.      *)
(*                                                                         *)
(* The module composes two others through what they promise: a call of     *)
(* validate succeeds exactly on the WellFormed streams (TokenStream), and  *)
(* a call of align_token_spans returns the Record of every left token      *)
(* (SpanAlignment, which AlignTokenSpans implements).                      *)
(***************************************************************************)
EXTENDS Spans, FiniteSetsExt

CONSTANT Calls  \* [raw, source, du, target]: the arguments of a call

ASSUME CallsAssumption ==
  \A c \in Calls : /\ c.raw \in Bytes
                   /\ {c.source, c.du, c.target} \subseteq TokenizerStream

VARIABLES raw, source, du, target,                   \* the arguments
          pc,
          source_to_du, du_to_target, target_to_du,  \* the alignments
          report,                                    \* what is reported
          error                                      \* which call failed

args == <<raw, source, du, target>>
alignments == <<source_to_du, du_to_target, target_to_du>>
vars == <<args, pc, alignments, report, error>>

NoReport == [written |-> FALSE]

Init ==
  /\ \E c \in Calls : /\ raw = c.raw
                      /\ source = c.source
                      /\ du = c.du
                      /\ target = c.target
  /\ pc = "validate_source"
  /\ source_to_du = <<>> /\ du_to_target = <<>> /\ target_to_du = <<>>
  /\ report = NoReport
  /\ error = "none"

Validate(here, stream, next) ==
  /\ pc = here
  /\ IF WellFormed(stream, raw)
     THEN pc' = next /\ UNCHANGED error
     ELSE pc' = "failed" /\ error' = here
  /\ UNCHANGED <<args, alignments, report>>

\* Mutated: the source is validated twice, the DU stream never.
ValidateDuAsSource == Validate("validate_du", source, "validate_target")
ValidateSource == Validate("validate_source", source, "validate_du")
ValidateDu     == Validate("validate_du", du, "validate_target")
ValidateTarget == Validate("validate_target", target, "align")

\* What align_token_spans returns for streams of the same raw input.
Alignment(left, right) ==
  [i \in 1..Len(left.tokens) |-> Record(left.tokens[i], right)]

\* Mutated: the source takes the place of a stream in two of the alignments.
AlignSwapped ==
  /\ pc = "align"
  /\ source_to_du' = Alignment(source, du)
  /\ du_to_target' = Alignment(du, source)
  /\ target_to_du' = Alignment(target, source)
  /\ pc' = "report"
  /\ UNCHANGED <<args, report, error>>

Align ==
  /\ pc = "align"
  /\ IF SameRaw(source, du) /\ SameRaw(du, target)
     THEN /\ source_to_du' = Alignment(source, du)
          /\ du_to_target' = Alignment(du, target)
          /\ target_to_du' = Alignment(target, du)
          /\ pc' = "report"
          /\ UNCHANGED error
     ELSE pc' = "failed" /\ error' = "align" /\ UNCHANGED alignments
  /\ UNCHANGED <<args, report>>

\* BoundaryCrossStats::from_alignments.
Exact(a) == {i \in DOMAIN a : a[i].starts /\ a[i].ends}
BoundaryCrossStats(left, right, a) ==
  [left_token_count  |-> Len(left.tokens),
   right_token_count |-> Len(right.tokens),
   exact             |-> Cardinality(Exact(a)),
   cross_or_cut      |-> Cardinality(DOMAIN a \ Exact(a)),
   start_inside      |-> Cardinality({i \in DOMAIN a : ~a[i].starts}),
   end_inside        |-> Cardinality({i \in DOMAIN a : ~a[i].ends}),
   max_covered       |-> Max({0} \cup {Cardinality(a[i].covered) : i \in DOMAIN a})]

Report ==
  /\ pc = "report"
  /\ report' = [written        |-> TRUE,
                source_exact   |-> Reconstruct(source.tokens) = raw,
                du_exact       |-> Reconstruct(du.tokens) = raw,
                target_exact   |-> Reconstruct(target.tokens) = raw,
                source_to_du   |-> BoundaryCrossStats(source, du, source_to_du),
                du_to_target   |-> BoundaryCrossStats(du, target, du_to_target),
                target_to_du   |-> BoundaryCrossStats(target, du, target_to_du)]
  /\ pc' = "done"
  /\ UNCHANGED <<args, alignments, error>>

Next == ValidateSource \/ ValidateDu \/ ValidateTarget \/ Align \/ Report

Terminated == pc \in {"done", "failed"} /\ UNCHANGED vars

Spec == Init /\ [][Next \/ Terminated]_vars
-----------------------------------------------------------------------------
\* A report exists only for three streams that carry the raw bytes exactly, and
\* it says so: a bridge never reports inexact reconstruction, it fails instead,
\* naming the first stream that is malformed.
ReportsOnlyExact ==
  /\ report.written => /\ report.source_exact /\ report.du_exact /\ report.target_exact
                       /\ \A s \in {source, du, target} : WellFormed(s, raw)
  /\ pc = "failed" =>
       CASE error = "validate_source" -> ~WellFormed(source, raw)
         [] error = "validate_du"     -> WellFormed(source, raw) /\ ~WellFormed(du, raw)
         [] error = "validate_target" -> ~WellFormed(target, raw)
         [] OTHER                     -> FALSE

\* The pairs of overlapping tokens that an alignment names.
Pairs(a) == UNION {{i} \X a[i].covered : i \in DOMAIN a}

\* The three tables balance.  A boundary inside a token of the other stream
\* starts one left token and ends the one before it, so the two "inside" counts
\* of a table agree.  The pairs of overlapping tokens number one for every
\* token of either stream less one for every boundary they share, and the two
\* directions count the same pairs, so the tables of DU and target never
\* disagree.
PairsBalance ==
  report.written =>
    LET pairs(a) == Cardinality(Pairs(a))
        shared(s) == s.left_token_count - s.end_inside
    IN  /\ \A s \in {report.source_to_du, report.du_to_target, report.target_to_du} :
             s.start_inside = s.end_inside /\ s.exact + s.cross_or_cut = s.left_token_count
        /\ pairs(du_to_target) = pairs(target_to_du)
        /\ pairs(du_to_target) = report.du_to_target.left_token_count
                                 + report.du_to_target.right_token_count
                                 - shared(report.du_to_target)
        /\ shared(report.du_to_target) = shared(report.target_to_du)

\* Following source tokens through the DU to the target loses nothing: the
\* target tokens reached are at least those that share a byte with the source
\* token, and they are no others when the token ends on DU boundaries.
ThroughDu ==
  report.written =>
    \A i \in DOMAIN source_to_du :
      LET reached == UNION {du_to_target[d].covered : d \in source_to_du[i].covered}
          direct  == CoveredBy(source.tokens[i], target)
      IN  /\ direct \subseteq reached
          /\ (source_to_du[i].starts /\ source_to_du[i].ends) => reached = direct
=============================================================================
