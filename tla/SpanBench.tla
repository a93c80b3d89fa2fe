----------------------------- MODULE SpanBench -----------------------------
(***************************************************************************)
(* nereids-bench: two token streams are imported, aligned to each other in *)
(* both directions, several times each, and a receipt is written of the    *)
(* alignments that the last repetition of each direction left.  It uses    *)
(* validation, reconstruction and alignment as TokenizerBridge does; a run *)
(* either bridges three streams or has a job.                              *)
(*                                                                         *)
(* The receipt is truncated before it is written, and may have been there  *)
(* from an earlier run.  Times are left out.                               *)
(***************************************************************************)
EXTENDS TokenizerBridge

CONSTANT Jobs  \* [warmup, reps, output]: the arguments beside the streams

ASSUME JobsAssumption == Jobs \subseteq [warmup : Nat, reps : Nat, output : BOOLEAN]

VARIABLES job,               \* the arguments, or NoJob
          rounds,            \* how often the direction at hand was aligned
          source_to_target,  \* the alignment kept of each direction
          target_to_source,
          receipt            \* the receipt file

kept == <<source_to_target, target_to_source>>
benchVars == <<vars, job, rounds, kept, receipt>>

NoJob == [warmup |-> 0, reps |-> 0, output |-> FALSE]
Benching == job # NoJob

Absent == [file |-> "absent"]
Older == [file |-> "older"]
Torn == [file |-> "torn"]

\* An import gives a stream the identity of the raw bytes.
Imported(stream) == stream.raw_len = Len(raw) /\ stream.raw_sha256 = Sha256(raw)

BenchInit ==
  /\ Init
  /\ job \in {NoJob} \cup {j \in Jobs : Imported(source) /\ Imported(target) /\ du = target}
  /\ rounds = 0
  /\ source_to_target = <<>> /\ target_to_source = <<>>
  /\ receipt \in IF Benching THEN {Absent, Older} ELSE {Absent}

Stop(reason) == pc' = "stopped" /\ error' = reason

CheckReps ==
  /\ Benching /\ pc = "validate_source" /\ job.reps = 0
  /\ Stop("no_reps")
  /\ UNCHANGED <<args, alignments, report, job, rounds, kept, receipt>>

ImportSource ==
  /\ Benching /\ job.reps # 0
  /\ Validate("validate_source", source, "validate_target")
  /\ UNCHANGED <<job, rounds, kept, receipt>>

ImportTarget ==
  /\ Benching
  /\ Validate("validate_target", target, "reconstruct")
  /\ UNCHANGED <<job, rounds, kept, receipt>>

CheckExact ==
  /\ pc = "reconstruct"
  /\ IF Reconstruct(source.tokens) = raw /\ Reconstruct(target.tokens) = raw
     THEN pc' = "align_forward" /\ UNCHANGED error
     ELSE Stop("reconstruct")
  /\ UNCHANGED <<args, alignments, report, job, rounds, kept, receipt>>

\* Mutated: what is kept is the round behind the last, which there is not.
IsLastPast == rounds = job.warmup + job.reps

IsLast == rounds + 1 = job.warmup + job.reps

\* run_direction, one warm-up or repetition.
Round(here, next) ==
  /\ pc = here
  /\ rounds' = (rounds + 1) % (job.warmup + job.reps)
  /\ pc' = IF rounds' = 0 THEN next ELSE here

AlignForward ==
  /\ Round("align_forward", "align_backward")
  /\ source_to_target' = IF IsLast THEN Alignment(source, target) ELSE source_to_target
  /\ UNCHANGED <<args, alignments, report, error, job, target_to_source, receipt>>

AlignBackward ==
  /\ Round("align_backward", "hash_files")
  /\ target_to_source' = IF IsLast THEN Alignment(target, source) ELSE target_to_source
  /\ UNCHANGED <<args, alignments, report, error, job, source_to_target, receipt>>

HashFiles ==
  /\ pc = "hash_files"
  /\ pc' = IF job.output THEN "create_receipt" ELSE "measured"
  /\ UNCHANGED <<args, alignments, report, error, job, rounds, kept, receipt>>

CreateReceipt ==
  /\ pc = "create_receipt"
  /\ receipt' = Torn
  /\ pc' = "write_receipt"
  /\ UNCHANGED <<args, alignments, report, error, job, rounds, kept>>

\* alignment_stats sees the records only.
AlignmentStats(a) ==
  [left_tokens  |-> Len(a),
   exact        |-> Cardinality(Exact(a)),
   cross_or_cut |-> Len(a) - Cardinality(Exact(a)),
   start_inside |-> Cardinality({i \in DOMAIN a : ~a[i].starts}),
   end_inside   |-> Cardinality({i \in DOMAIN a : ~a[i].ends}),
   max_covered  |-> Max({0} \cup {Cardinality(a[i].covered) : i \in DOMAIN a})]

WriteReceipt ==
  /\ pc = "write_receipt"
  /\ receipt' = [file |-> "complete",
                 source_to_target |-> AlignmentStats(source_to_target),
                 target_to_source |-> AlignmentStats(target_to_source)]
  /\ pc' = "measured"
  /\ UNCHANGED <<args, alignments, report, error, job, rounds, kept>>

\* An input cannot be read, the first time or again for its hash, or the receipt
\* cannot be written; the process may also end while it writes.
FileFails ==
  /\ Benching
  /\ \/ pc \in {"validate_source", "validate_target"} /\ job.reps # 0
     \/ pc \in {"hash_files", "create_receipt", "write_receipt"}
  /\ Stop("file")
  /\ UNCHANGED <<args, alignments, report, job, rounds, kept, receipt>>

BenchNext ==
  \/ ~Benching /\ Next /\ UNCHANGED <<job, rounds, kept, receipt>>
  \/ CheckReps \/ ImportSource \/ ImportTarget \/ CheckExact \/ AlignForward
  \/ AlignBackward \/ HashFiles \/ CreateReceipt \/ WriteReceipt \/ FileFails

BenchTerminated == pc \in {"done", "measured", "failed", "stopped"} /\ UNCHANGED benchVars

BenchSpec == BenchInit /\ [][BenchNext \/ BenchTerminated]_benchVars
-----------------------------------------------------------------------------
\* The tables balance: those of a bridge, and those of a complete receipt, which
\* are of all tokens of the two streams.  Both directions of a receipt share the
\* same boundaries and, behind the counts, pair the same tokens; and no stream
\* is measured that is not a partition of the raw bytes.
TablesBalance ==
  /\ PairsBalance
  /\ receipt.file = "complete" =>
       LET forward  == receipt.source_to_target
           backward == receipt.target_to_source
           pairs(a) == Cardinality(Pairs(a))
           shared   == forward.left_tokens - forward.end_inside
       IN  /\ WellFormed(source, raw) /\ WellFormed(target, raw)
           /\ forward.left_tokens = Len(source.tokens) /\ backward.left_tokens = Len(target.tokens)
           /\ \A s \in {forward, backward} : s.start_inside = s.end_inside
           /\ backward.left_tokens - backward.end_inside = shared
           /\ pairs(source_to_target) = pairs(target_to_source)
           /\ pairs(source_to_target) = forward.left_tokens + backward.left_tokens - shared
=============================================================================
