--------------------------- MODULE SpanAlignment ---------------------------
(***************************************************************************)
(* What align_token_spans promises, without saying how: each left token,   *)
(* in order, is related to the set of right tokens whose byte spans        *)
(* intersect it, and told whether its two ends are boundaries of the right *)
(* stream.  Streams of different raw inputs are refused before any record  *)
(* is produced.                                                            *)
(***************************************************************************)
EXTENDS Spans

VARIABLES left,       \* the stream whose tokens are aligned
          right,      \* the stream they are aligned to
          alignment,  \* the records produced so far, one per left token
          outcome     \* "running", "aligned" or "refused"

absVars == <<left, right, alignment, outcome>>

Init == alignment = <<>> /\ outcome = "running"

Refuse ==
  /\ outcome = "running"
  /\ ~SameRaw(left, right)
  /\ outcome' = "refused"
  /\ UNCHANGED <<left, right, alignment>>

AlignNext ==
  /\ outcome = "running"
  /\ SameRaw(left, right)
  /\ Len(alignment) < Len(left.tokens)
  /\ alignment' = Append(alignment, Record(left.tokens[Len(alignment) + 1], right))
  /\ UNCHANGED <<left, right, outcome>>

Finish ==
  /\ outcome = "running"
  /\ SameRaw(left, right)
  /\ Len(alignment) = Len(left.tokens)
  /\ outcome' = "aligned"
  /\ UNCHANGED <<left, right, alignment>>

Next == Refuse \/ AlignNext \/ Finish

Spec == Init /\ [][Next]_absVars
=============================================================================
