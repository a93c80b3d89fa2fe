--------------------------- MODULE VerifiedRepair ---------------------------
(***************************************************************************)
(* What a Direct-ID fixture promises: it reports success, and leaves a     *)
(* complete receipt, only for a candidate whose IDs are those of the full  *)
(* tokenization, whose IDs decode to the prefix and the delta, and whose   *)
(* repair window was smaller than the two together.  Otherwise it fails,   *)
(* and leaves at the receipt path what it found there, which may be the    *)
(* receipt of an earlier run, or a torn file; never a receipt of its own.  *)
(***************************************************************************)
EXTENDS Integers, Sequences

VARIABLES prefix, delta,  \* the snapshot bytes and the appended bytes
          oracle_ids,     \* the full tokenization, once it is known
          decoded,        \* the bytes the candidate decodes to, once known
          receipt,        \* the receipt file
          outcome         \* "running", "passed" or "failed"

absVars == <<prefix, delta, oracle_ids, decoded, receipt, outcome>>

Init == receipt.file \in {"absent", "older"} /\ outcome = "running"

\* Until the receipt is written the oracle and the decoding may be obtained.
Work ==
  /\ outcome = "running"
  /\ UNCHANGED <<prefix, delta, receipt, outcome>>

Verified(r) ==
  /\ r.ids = oracle_ids
  /\ decoded = prefix \o delta
  /\ r.repair_window_bytes < Len(prefix) + Len(delta)
  /\ r.repair_window_bytes >= Len(delta)

Pass ==
  /\ outcome = "running"
  /\ outcome' = "passed"
  /\ receipt'.file = "complete"
  /\ Verified(receipt')
  /\ UNCHANGED <<prefix, delta, oracle_ids, decoded>>

Fail ==
  /\ outcome = "running"
  /\ outcome' = "failed"
  /\ receipt' = receipt \/ receipt'.file = "truncated"
  /\ UNCHANGED <<prefix, delta>>

Next == Work \/ Pass \/ Fail

Spec == Init /\ [][Next]_absVars
=============================================================================
