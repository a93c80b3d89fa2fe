------------------------------- MODULE DuRemap -------------------------------
(***************************************************************************)
(* nereids-du-remap-bench: a DU run is translated to target IDs through    *)
(* the packed map, without its text ever being put together.  run of the   *)
(* binary hashes the optional raw input, drives translate_du_run           *)
(* (src/du_remap.rs), writes the receipt and then takes the verdict.       *)
(*                                                                         *)
(* The map is taken at the promise of DuTargetMap: the greedy expansion of *)
(* every lexeme, or no map.  Files are read through a buffer, one action   *)
(* per local ID and per target ID written.  A hash is the bytes that were  *)
(* put into it.  Directory listings drop entries that cannot be read.      *)
(***************************************************************************)
EXTENDS TargetVocab

CONSTANTS Cases,     \* [du_vocab, tokens, files, raw, chunk]: see Case
          ReadSizes  \* how many bytes one read may return at most

NoRaw == <<0>>  \* no --raw was given

File == [gmap : Seq(Nat), local_ids : Seq(Nat), odd : BOOLEAN]

Case == [du_vocab : Seq(Bytes), tokens : Seq(Bytes), files : Seq(File),
         raw : Bytes, chunk : Nat]

ASSUME InputsAssumption == Cases \subseteq Case /\ ReadSizes \subseteq Nat \ {0}

VARIABLES input,
          pc,
          files,        \* the local_u16 files as listed
          file_no, pos, \* the file being read and the next local ID in it
          available,    \* bytes in the read buffer
          pending,      \* the target IDs of the current lexeme to be written
          du_hash, target_hash,
          consumed,     \* du_positions_consumed
          chunk_bytes, chunks,
          output,       \* the IDs written
          receipt,
          error

cursor == <<files, file_no, pos, available>>
chunking == <<chunk_bytes, chunks>>
summary == <<du_hash, target_hash, consumed, chunking>>
vars == <<input, pc, cursor, pending, summary, output, receipt, error>>

Init ==
  /\ input \in Cases
  /\ pc = "build_map"
  /\ files = <<>> /\ file_no = 1 /\ pos = 1 /\ available = 0
  /\ pending = <<>>
  /\ du_hash = <<>> /\ target_hash = <<>> /\ consumed = 0
  /\ chunk_bytes = 0 /\ chunks = 0
  /\ output = <<>>
  /\ receipt = [file |-> "absent"]
  /\ error = "none"

Fail(reason) == pc' = "failed" /\ error' = reason

\* A chunk of no bytes is refused.  Loading dictionary and vocabulary, building
\* the map, hashing the raw input and creating the ID file may each fail, and a
\* map exists only for lexemes that can be segmented.
BuildMap ==
  /\ pc = "build_map"
  /\ \/ input.chunk = 0 /\ Fail("zero_chunk")
     \/ input.chunk # 0 /\ Fail("load")
     \/ /\ input.chunk # 0
        /\ \E g \in 1..Len(input.du_vocab) : ~Mappable(input.tokens, input.du_vocab[g])
        /\ Fail("unmappable")
     \/ /\ input.chunk # 0
        /\ \A g \in 1..Len(input.du_vocab) : Mappable(input.tokens, input.du_vocab[g])
        /\ pc' = "list_files"
        /\ UNCHANGED error
  /\ UNCHANGED <<input, cursor, pending, summary, output, receipt>>

\* sorted_u16_files, which passes over entries that cannot be read.
ListFiles ==
  /\ pc = "list_files"
  /\ \/ Fail("missing_directory") /\ UNCHANGED files
     \/ /\ \E n \in 0..Len(input.files) : \E listed \in [1..n -> 1..Len(input.files)] :
             /\ \A i, j \in 1..n : i < j => listed[i] < listed[j]
             /\ files' = [k \in 1..n |-> input.files[listed[k]]]
        /\ pc' = "open"
        /\ UNCHANGED error
  /\ UNCHANGED <<input, file_no, pos, available, pending, summary, output, receipt>>

file == files[file_no]
FileSize == 2 * Len(file.local_ids) + (IF file.odd THEN 1 ELSE 0)
Unread == FileSize - 2 * (pos - 1) - available

\* A chunk that was begun counts.
LastChunk == IF chunk_bytes > 0 THEN chunks + 1 ELSE chunks

OpenFile ==
  /\ pc = "open"
  /\ \/ file_no <= Len(files) /\ Fail("file") /\ UNCHANGED <<pos, chunks>>
     \/ file_no <= Len(files) /\ pc' = "read" /\ pos' = 1 /\ UNCHANGED <<chunks, error>>
     \/ /\ file_no > Len(files)
        /\ chunks' = LastChunk
        /\ pc' = "flush"
        /\ UNCHANGED <<pos, error>>
  /\ UNCHANGED <<input, files, file_no, available, pending, du_hash, target_hash, consumed,
                 chunk_bytes, output, receipt>>

\* fill_buf reads only into an empty buffer: one byte left in it is an odd file.
OddStream == available = 1

FillBuffer ==
  /\ pc = "read"
  /\ \/ /\ OddStream
        /\ Fail("odd")
        /\ UNCHANGED <<file_no, available>>
     \/ available = 0 /\ Fail("file") /\ UNCHANGED <<file_no, available>>
     \/ /\ available = 0 /\ Unread > 0
        /\ \E size \in ReadSizes : available' = Min({size, Unread})
        /\ UNCHANGED <<pc, file_no, error>>
     \/ /\ available = 0 /\ Unread = 0
        /\ file_no' = file_no + 1
        /\ pc' = "open"
        /\ UNCHANGED <<available, error>>
  /\ UNCHANGED <<input, files, pos, pending, summary, output, receipt>>

local_id == file.local_ids[pos]

\* Mutated: the gmap of the first file serves for all.
global_id_first_gmap == files[1].gmap[local_id + 1]

global_id == file.gmap[local_id + 1]
du_lexeme == input.du_vocab[global_id + 1]

\* One local ID: its lexeme is hashed and counted before its expansion is
\* looked up and written.
ConsumeId ==
  /\ pc = "read"
  /\ available >= 2
  /\ ~OddStream
  /\ \/ local_id >= Len(file.gmap) /\ Fail("outside_gmap")
        /\ UNCHANGED <<pending, du_hash, chunk_bytes>>
     \/ local_id < Len(file.gmap) /\ global_id >= Len(input.du_vocab) /\ Fail("outside_dict")
        /\ UNCHANGED <<pending, du_hash, chunk_bytes>>
     \/ /\ local_id < Len(file.gmap) /\ global_id < Len(input.du_vocab)
        /\ du_hash' = du_hash \o du_lexeme
        /\ chunk_bytes' = chunk_bytes + Len(du_lexeme)
        /\ pending' = GreedyIds(input.tokens, du_lexeme)
        /\ pc' = "emit"
        /\ UNCHANGED error
  /\ UNCHANGED <<input, cursor, target_hash, consumed, chunks, output, receipt>>

\* Mutated: target IDs are written but not hashed.
EmitIdUnhashed ==
  /\ pc = "emit"
  /\ pending # <<>>
  /\ output' = Append(output, Head(pending))
  /\ pending' = Tail(pending)
  /\ UNCHANGED <<input, pc, cursor, summary, receipt, error>>

\* One target ID of the expansion: hashed, counted, written.
EmitId ==
  /\ pc = "emit"
  /\ pending # <<>>
  /\ target_hash' = target_hash \o TokenBytes(input.tokens, Head(pending))
  /\ \/ /\ output' = Append(output, Head(pending))
        /\ pending' = Tail(pending)
        /\ UNCHANGED <<pc, error>>
     \/ Fail("write") /\ UNCHANGED <<output, pending>>
  /\ UNCHANGED <<input, cursor, du_hash, consumed, chunking, receipt>>

ChunkFull ==
  IF chunk_bytes >= input.chunk THEN chunks' = chunks + 1 /\ chunk_bytes' = 0
  ELSE UNCHANGED chunking

\* Mutated: the position is not advanced.
EndPositionStuck == pc = "emit" /\ pending = <<>> /\ UNCHANGED vars

EndPosition ==
  /\ pc = "emit"
  /\ pending = <<>>
  /\ consumed' = consumed + 1
  /\ ChunkFull
  /\ pos' = pos + 1 /\ available' = available - 2
  /\ pc' = "read"
  /\ UNCHANGED <<input, files, file_no, pending, du_hash, target_hash, output, receipt, error>>

Flush ==
  /\ pc = "flush"
  /\ \/ pc' = "write_receipt" /\ UNCHANGED error
     \/ Fail("write")
  /\ UNCHANGED <<input, cursor, pending, summary, output, receipt>>

\* Mutated: the raw input is hashed and its hash not compared.
HashMatchUnpaired == du_hash = target_hash

HashMatch == du_hash = target_hash /\ (input.raw = NoRaw \/ Sha256(input.raw) = du_hash)

\* fs::write can fail before or after it has truncated the file.
WriteReceipt ==
  /\ pc = "write_receipt"
  /\ \/ /\ receipt' = [file |-> "complete", all_hashes_exact |-> HashMatch,
                       emitted_target_ids |-> Len(output), chunks_processed |-> chunks,
                       du_positions_consumed |-> consumed]
        /\ pc' = "verdict"
        /\ UNCHANGED error
     \/ receipt' \in {[file |-> "absent"], [file |-> "truncated"]} /\ Fail("receipt")
  /\ UNCHANGED <<input, cursor, pending, summary, output>>

Verdict ==
  /\ pc = "verdict"
  /\ IF HashMatch THEN pc' = "passed" /\ UNCHANGED error ELSE Fail("hash_mismatch")
  /\ UNCHANGED <<input, cursor, pending, summary, output, receipt>>

Next == \/ BuildMap \/ ListFiles \/ OpenFile \/ FillBuffer \/ ConsumeId \/ EmitId
        \/ EndPosition \/ Flush \/ WriteReceipt \/ Verdict

Terminated == pc \in {"passed", "failed"} /\ UNCHANGED vars

\* One thread; reads and writes are assumed to end, with or without error.
Spec == Init /\ [][Next \/ Terminated]_vars /\ WF_vars(Next)
-----------------------------------------------------------------------------
\* The text that was written is the text that was read, at every position: the
\* two hashes differ only while an expansion is being written, by its rest.
HashesKeepPace ==
  /\ Decode(input.tokens, output) = target_hash \/ error = "write"
  /\ pc # "failed" => du_hash = target_hash \o Decode(input.tokens, pending)

\* A run passes only when what it wrote decodes to the raw input it was given,
\* even if the listing dropped a file; and its receipt is the verdict's.
PassMeansRaw ==
  /\ pc = "passed" => /\ receipt.file = "complete" /\ receipt.all_hashes_exact
                      /\ input.raw # NoRaw => Decode(input.tokens, output) = input.raw
                      /\ receipt.emitted_target_ids = Len(output)
  /\ pc = "failed" /\ receipt.file = "complete" =>
       ~receipt.all_hashes_exact /\ input.raw # NoRaw

\* The local IDs of the files as listed, each with its file.
IdsIn(a_file) == [i \in 1..Len(a_file.local_ids) |-> <<a_file, a_file.local_ids[i]>>]
Listed == FlattenSeq([f \in 1..Len(files) |-> IdsIn(files[f])])

\* Such an ID has a lexeme; its translation is that of the lexeme.
Sound(e) == e[2] < Len(e[1].gmap) /\ e[1].gmap[e[2] + 1] < Len(input.du_vocab)
Translation(e) ==
  IF Sound(e) THEN GreedyIds(input.tokens, input.du_vocab[e[1].gmap[e[2] + 1] + 1]) ELSE <<>>
Translated(entries) == FlattenSeq([k \in 1..Len(entries) |-> Translation(entries[k])])

\* What reaches the output, also of a run that fails in the middle, is a prefix
\* of the whole translation in file order, and a finished translation is whole;
\* a file is refused as odd only if it is, and after all its IDs.
OutputIsPrefix ==
  /\ IsPrefix(output, Translated(Listed))
  /\ pc \in {"flush", "write_receipt", "verdict", "passed"} =>
       /\ output = Translated(Listed)
       /\ consumed = Len(Listed)
       /\ \A k \in 1..Len(Listed) : Sound(Listed[k])
  /\ error = "odd" => file.odd /\ pos = Len(file.local_ids) + 1

\* Every run ends.
Terminates == <>(pc \in {"passed", "failed"})
=============================================================================
