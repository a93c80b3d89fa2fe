-------------------------- MODULE GreedyProjection --------------------------
(***************************************************************************)
(* nereids-target-greedy-bench: a raw input is projected onto the target   *)
(* vocabulary as one piece, several times over, and the IDs of the last    *)
(* pass are decoded, written to a file if one was asked for, and described *)
(* by a receipt.  The vocabulary and its trie are those of DuTargetMap; a  *)
(* run either builds a map or has a job.                                   *)
(*                                                                         *)
(* Both files are truncated before they are written, so that an error or   *)
(* an end of the process in between leaves a torn one; each may have been  *)
(* there from an earlier run.  Times and ratios are left out.              *)
(***************************************************************************)
EXTENDS DuTargetMap

CONSTANT Jobs  \* [raw, max_bytes, warmups, repeats, id_output]

ASSUME JobsAssumption ==
  Jobs \subseteq [raw : Bytes, max_bytes : Nat, warmups : Nat, repeats : Nat, id_output : BOOLEAN]

VARIABLES job,       \* the arguments, or NoJob
          passes,    \* how many passes are over, the warm-ups included
          last_ids,  \* the IDs of the last measured pass
          id_file,   \* the ID file
          receipt    \* the receipt file

result == <<last_ids, id_file, receipt>>
projectionVars == <<vars, job, passes, result>>

NoJob == [raw |-> <<>>, max_bytes |-> 0, warmups |-> 0, repeats |-> 0, id_output |-> FALSE]
Projecting == job # NoJob

Absent == [file |-> "absent"]
Older == [file |-> "older"]
Torn == [file |-> "torn"]

ProjectionInit ==
  /\ Init
  /\ job \in {NoJob} \cup {j \in Jobs : input.du_vocab = <<>>}
  /\ passes = 0 /\ last_ids = <<>>
  /\ id_file \in IF Projecting THEN {Absent, Older} ELSE {Absent}
  /\ receipt = id_file

\* Zero means the complete input.
source == Slice(job.raw, 0, IF job.max_bytes = 0 THEN Len(job.raw)
                            ELSE Min({job.max_bytes, Len(job.raw)}))

\* The arguments are looked at before the vocabulary is loaded.
CheckRepeats ==
  /\ Projecting /\ pc = "insert" /\ id = 0 /\ job.repeats = 0
  /\ Fail("no_repeats")
  /\ UNCHANGED <<input, trie, offset, expansion, map, job, passes, result>>

LoadInput ==
  /\ Projecting /\ pc = "insert" /\ id >= Len(tokens) /\ job.repeats # 0
  /\ IF source = <<>> THEN Fail("empty_input") ELSE pc' = "project" /\ UNCHANGED error
  /\ UNCHANGED <<input, trie, offset, expansion, map, job, passes, result>>

\* The model file, the input, or either output cannot be read or written.
FileFails ==
  /\ Projecting
  /\ \/ pc = "insert" /\ job.repeats # 0 /\ id \in {0, Len(tokens)}
     \/ pc \in {"create_ids", "write_ids", "create_receipt", "write_receipt"}
  /\ Fail("file")
  /\ UNCHANGED <<input, trie, offset, expansion, map, job, passes, result>>

ProjectToken ==
  /\ pc = "project"
  /\ offset < Len(source)
  /\ MatchNext(source)
  /\ UNCHANGED <<input, trie, map, job, passes, result>>

Measured == passes >= job.warmups

\* Mutated: a pass appends its IDs to those of the one before it.
EndPassAppending ==
  /\ pc = "project"
  /\ offset >= Len(source)
  /\ IF passes > job.warmups /\ Len(expansion) # Len(last_ids)
     THEN Fail("id_count") /\ UNCHANGED <<offset, expansion, passes, result>>
     ELSE /\ last_ids' = IF Measured THEN expansion ELSE last_ids
          /\ offset' = 0
          /\ passes' = passes + 1
          /\ pc' = IF passes' = job.warmups + job.repeats THEN "verify" ELSE pc
          /\ UNCHANGED <<expansion, error, id_file, receipt>>
  /\ UNCHANGED <<input, trie, map, job>>

\* Every measured pass must emit as many IDs as the one before it.
EndPass ==
  /\ pc = "project"
  /\ offset >= Len(source)
  /\ IF passes > job.warmups /\ Len(expansion) # Len(last_ids)
     THEN Fail("id_count") /\ UNCHANGED <<offset, expansion, passes, result>>
     ELSE /\ last_ids' = IF Measured THEN expansion ELSE last_ids
          /\ offset' = 0 /\ expansion' = <<>>
          /\ passes' = passes + 1
          /\ pc' = IF passes' = job.warmups + job.repeats THEN "verify" ELSE pc
          /\ UNCHANGED <<error, id_file, receipt>>
  /\ UNCHANGED <<input, trie, map, job>>

\* Decode the last IDs and compare them with the input.
VerifyProjection ==
  /\ pc = "verify"
  /\ IF Decode(tokens, last_ids) # source THEN Fail("changed_bytes")
     ELSE pc' = (IF job.id_output THEN "create_ids" ELSE "create_receipt") /\ UNCHANGED error
  /\ UNCHANGED <<input, trie, offset, expansion, map, job, passes, result>>

\* write_ids: the file is created and then written through a buffer.
CreateIds ==
  /\ pc = "create_ids"
  /\ id_file' = Torn
  /\ pc' = "write_ids"
  /\ UNCHANGED <<input, trie, offset, expansion, map, error, job, passes, last_ids, receipt>>

WriteIds ==
  /\ pc = "write_ids"
  /\ id_file' = [file |-> "complete", ids |-> last_ids]
  /\ pc' = "create_receipt"
  /\ UNCHANGED <<input, trie, offset, expansion, map, error, job, passes, last_ids, receipt>>

CreateReceipt ==
  /\ pc = "create_receipt"
  /\ receipt' = Torn
  /\ pc' = "write_receipt"
  /\ UNCHANGED <<input, trie, offset, expansion, map, error, job, passes, last_ids, id_file>>

WriteReceipt ==
  /\ pc = "write_receipt"
  /\ receipt' = [file |-> "complete", input_sha256 |-> Sha256(source),
                 decoded_sha256 |-> Sha256(Decode(tokens, last_ids)),
                 emitted_target_ids |-> Len(last_ids), target_ids_sha256 |-> last_ids]
  /\ pc' = "projected"
  /\ UNCHANGED <<input, trie, offset, expansion, map, error, job, passes, last_ids, id_file>>

\* The process may end at any point after it began to write.
Crash ==
  /\ pc \in {"create_ids", "write_ids", "create_receipt", "write_receipt"}
  /\ pc' = "crashed"
  /\ UNCHANGED <<input, trie, offset, expansion, map, error, job, passes, result>>

ProjectionNext ==
  \/ Projecting /\ job.repeats # 0 /\ InsertToken /\ UNCHANGED <<job, passes, result>>
  \/ ~Projecting /\ Next /\ UNCHANGED <<job, passes, result>>
  \/ CheckRepeats \/ LoadInput \/ FileFails \/ ProjectToken \/ EndPass \/ VerifyProjection
  \/ CreateIds \/ WriteIds \/ CreateReceipt \/ WriteReceipt \/ Crash

ProjectionTerminated ==
  pc \in {"built", "projected", "failed", "crashed"} /\ UNCHANGED projectionVars

ProjectionSpec == ProjectionInit /\ [][ProjectionNext \/ ProjectionTerminated]_projectionVars
-----------------------------------------------------------------------------
\* A complete receipt describes the greedy IDs of its input, which decode to
\* it, however many passes went before; if an ID file was asked for, it is
\* there, whole, with the IDs whose hash the receipt names.  A run that ends
\* without one, and not for a file, has no token for some byte of the input.
ReceiptNamesIds ==
  /\ receipt.file = "complete" =>
       /\ receipt.target_ids_sha256 = GreedyIds(tokens, source)
       /\ receipt.decoded_sha256 = source /\ receipt.input_sha256 = source
       /\ job.id_output => id_file = [file |-> "complete", ids |-> receipt.target_ids_sha256]
       /\ ~job.id_output => id_file \in {Absent, Older}
  /\ Projecting => error \in {"none", "no_repeats", "empty_input", "file", "no_token"}
  /\ Projecting /\ error = "no_token" =>
       /\ ~Mappable(tokens, source)
       /\ passes = 0 /\ receipt \in {Absent, Older} /\ id_file = receipt
=============================================================================
