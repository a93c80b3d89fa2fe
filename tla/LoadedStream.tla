---------------------------- MODULE LoadedStream ----------------------------
(***************************************************************************)
(* LoadedStream (src/lib.rs): a DU run or a target remap is read from its  *)
(* files, its stream is loaded up to a byte limit, and byte ranges of it   *)
(* are reconstructed, also those that start or end inside a lexeme.        *)
(*                                                                         *)
(* A DU run has a dictionary of lexemes, a list of u16 files of local IDs, *)
(* and for each a gmap from local to global IDs, in words of 24 or of 32   *)
(* bits; a target remap has model.bin and one file of dense IDs.  A stream *)
(* may also be handed over deserialized, when its fields may be anything.  *)
(* Lexemes may be empty.  IDs and bounds keep the code's values, which     *)
(* count from 0; sequences are indexed from 1.                             *)
(***************************************************************************)
EXTENDS ByteBounds, DuLexeme, BinaryFiles

CONSTANTS LoadedRuns,  \* [kind, vocab, gmaps, files, max_bytes]: what is loaded
          Presented,   \* [ids, parts, bounds]: deserialized streams
          Vocabs,      \* vocabularies that some model.bin may be the export of
          MaxOffset    \* ranges are asked for within 0..MaxOffset

\* Of a run: merged.dict as characters or model.bin as bytes, the widths that
\* have a gmap directory, and the files its directory listing yields, in the
\* order of their sorted names.  sorted_files passes an entry over that cannot
\* be read: what is left is another run of LoadedRuns, with fewer files.  A gmap
\* directory holds a file for every list of local IDs, or reading fails.
Octet == 0..255
File == [local : Seq(Octet), gmap24 : Seq(Octet), gmap32 : Seq(Octet)]

Run == [kind : {"du", "target"}, vocab : Seq(Nat), gmaps : SUBSET {24, 32},
        files : Seq(File), max_bytes : Nat]

Stream == [ids : Seq(Nat), parts : Seq(Bytes), bounds : Seq(Nat)]

\* The count of the tokens and the length of each fit a word of model.bin.
FitsWord(n) == n \div 256^3 < 256

Exportable == {v \in Seq(Seq(Octet)) : /\ FitsWord(Len(v))
                                      /\ \A k \in 1..Len(v) : FitsWord(Len(v[k]))}

ASSUME InputsAssumption ==
  /\ LoadedRuns \subseteq Run
  /\ \A r \in LoadedRuns : r.kind = "target" => r.vocab \in Seq(Octet)
  /\ Vocabs \subseteq Exportable
  /\ Presented \subseteq Stream
  /\ MaxOffset \in Nat

VARIABLES run,      \* the run that is loaded, or NoRun
          phase,
          vocab,    \* its vocabulary, as far as it is decoded
          file_no,  \* the file being read
          pos,      \* the next local ID in it
          stream,   \* the LoadedStream, its bounds filled in at the end
          range,    \* the bytes asked for
          index,    \* the part about to be copied
          bytes,    \* the bytes copied so far
          error

loading == <<run, vocab, file_no, pos>>
reading == <<range, index, bytes>>
loadVars == <<loading, phase, stream, reading, error>>

NoRun == [kind |-> "du", vocab |-> <<>>, gmaps |-> {}, files |-> <<>>, max_bytes |-> 0]
Unbuilt == [ids |-> <<>>, parts |-> <<>>, bounds |-> <<>>]

LoadInit ==
  /\ \/ run \in LoadedRuns /\ phase = "load_vocab" /\ stream = Unbuilt
     \/ run = NoRun /\ phase = "loaded" /\ stream \in Presented
  /\ vocab = <<>>
  /\ file_no = 1 /\ pos = 1
  /\ range = <<0, 0>> /\ index = 1 /\ bytes = <<>>
  /\ error = "none"

Fail(reason) == phase' = "failed" /\ error' = reason

Lines == DictLines(run.vocab)

\* load_du_dict: one entry per line, until a line does not decode.
DecodeEntry ==
  /\ phase = "load_vocab" /\ run.kind = "du"
  /\ Len(vocab) < Len(Lines)
  /\ LET entry == DecodeDuLexeme(StripCr(Lines[Len(vocab) + 1]))
     IN  \/ entry = {} /\ Fail("entry") /\ UNCHANGED vocab
         \/ \E lexeme \in entry : vocab' = Append(vocab, lexeme) /\ UNCHANGED <<phase, error>>
  /\ UNCHANGED <<run, file_no, pos, stream, reading>>

DictLoaded ==
  /\ phase = "load_vocab" /\ run.kind = "du"
  /\ Len(vocab) = Len(Lines)
  /\ IF run.gmaps = {} THEN Fail("gmap_directory") ELSE phase' = "open_file" /\ UNCHANGED error
  /\ UNCHANGED <<loading, stream, reading>>

LoadModel ==
  /\ phase = "load_vocab" /\ run.kind = "target"
  /\ LET model == LoadModelBin(run.vocab)
     IN  \/ model = {} /\ Fail("model") /\ UNCHANGED vocab
         \/ vocab' \in model /\ phase' = "open_file" /\ UNCHANGED error
  /\ UNCHANGED <<run, file_no, pos, stream, reading>>

\* A file or a directory that is missing or cannot be read.
ReadFails ==
  /\ \/ phase = "load_vocab" /\ vocab = <<>>
     \/ phase = "open_file" /\ file_no <= Len(run.files)
  /\ Fail("file")
  /\ UNCHANGED <<loading, stream, reading>>

\* A directory of 24-bit gmaps is preferred to one of 32-bit gmaps.
file == run.files[file_no]
Gmap == IF 24 \in run.gmaps THEN Words(file.gmap24, 3) ELSE Words(file.gmap32, 4)
LocalIds == Words(file.local, IF run.kind = "du" THEN 2 ELSE 4)

\* A file that is not a whole number of words ends loading.
OpenFile ==
  /\ phase = "open_file"
  /\ \/ /\ file_no <= Len(run.files)
        /\ IF LocalIds = {} \/ (run.kind = "du" /\ Gmap = {})
           THEN Fail("words") /\ UNCHANGED pos
           ELSE phase' = "next_id" /\ pos' = 1 /\ UNCHANGED error
        /\ UNCHANGED stream
     \/ /\ file_no > Len(run.files)
        /\ stream' = MakeLoadedStream(stream.ids, stream.parts)
        /\ phase' = "loaded"
        /\ UNCHANGED <<pos, error>>
  /\ UNCHANGED <<run, vocab, file_no, reading>>

\* Mutated: loading goes on when the limit is just reached.
ReachedBeyond(parts) == Total(parts, Len(parts)) > run.max_bytes

Reached(parts) == Total(parts, Len(parts)) >= run.max_bytes

\* The word behind the IDs consumed so far, and the ID it is mapped to, if any.
local_ids == CHOOSE words \in LocalIds : TRUE
local_id == local_ids[pos]
GlobalIds ==
  IF run.kind = "target" THEN {local_id}
  ELSE {gmap[local_id + 1] : gmap \in {words \in Gmap : local_id < Len(words)}}

\* One ID: map it, look its lexeme up, and stop when the limit is reached.
NextId ==
  /\ phase = "next_id"
  /\ pos <= Len(local_ids)
  /\ \/ GlobalIds = {} /\ Fail("outside_gmap") /\ UNCHANGED <<stream, pos>>
     \/ \E id \in GlobalIds :
          \/ id >= Len(vocab) /\ Fail("outside_vocab") /\ UNCHANGED <<stream, pos>>
          \/ /\ id < Len(vocab)
             /\ LET ids   == Append(stream.ids, id)
                    parts == Append(stream.parts, vocab[id + 1])
                IN  IF Reached(parts)
                    THEN stream' = MakeLoadedStream(ids, parts) /\ phase' = "loaded"
                    ELSE stream' = [stream EXCEPT !.ids = ids, !.parts = parts] /\ UNCHANGED phase
             /\ pos' = pos + 1
             /\ UNCHANGED error
  /\ UNCHANGED <<run, vocab, file_no, reading>>

EndFile ==
  /\ phase = "next_id"
  /\ pos > Len(local_ids)
  /\ file_no' = file_no + 1
  /\ phase' = "open_file"
  /\ UNCHANGED <<run, vocab, pos, stream, reading, error>>

\* validate_structure.
StructureValid(s) ==
  /\ Len(s.ids) = Len(s.parts)
  /\ Len(s.bounds) = Len(s.parts) + 1
  /\ \A k \in 1..Len(s.bounds) : s.bounds[k] = Total(s.parts, k - 1)

\* Mutated: the part behind the one that holds `start` comes first.
FirstPartPast(start) == UpperBound(stream.bounds, start)

\* The part to start from, counted from 0: the last that starts at or before
\* `start`, however many empty parts start there too.
FirstPart(start) == SaturatingSub(UpperBound(stream.bounds, start), 1)

\* reconstruct_range up to the loop: the structure, then the range.
RequestRange ==
  /\ phase = "loaded"
  /\ \E start, end \in 0..MaxOffset :
       /\ range' = <<start, end>>
       /\ CASE ~StructureValid(stream) -> Fail("structure") /\ UNCHANGED index
            [] StructureValid(stream) /\ (start > end \/ end > Last(stream.bounds)) ->
                 Fail("outside") /\ UNCHANGED index
            [] StructureValid(stream) /\ start = end /\ end <= Last(stream.bounds) ->
                 phase' = "done" /\ UNCHANGED <<index, error>>
            [] OTHER ->
                 phase' = "copy" /\ index' = FirstPart(start) + 1 /\ UNCHANGED error
  /\ UNCHANGED <<loading, stream, bytes>>

Remaining == index <= Len(stream.parts) /\ stream.bounds[index] < range[2]

\* Copy what the part shares with the range.
CopyPart ==
  /\ phase = "copy"
  /\ Remaining
  /\ LET part_start == stream.bounds[index]
         copy_start == SaturatingSub(range[1], part_start)
         copy_end   == Min({range[2], stream.bounds[index + 1]}) - part_start
     IN  bytes' = bytes \o Slice(stream.parts[index], copy_start, copy_end)
  /\ index' = index + 1
  /\ UNCHANGED <<loading, phase, stream, range, error>>

FinishRange ==
  /\ phase = "copy"
  /\ ~Remaining
  /\ IF Len(bytes) # range[2] - range[1] THEN Fail("short") ELSE phase' = "done" /\ UNCHANGED error
  /\ UNCHANGED <<loading, stream, reading>>

LoadNext == \/ DecodeEntry \/ DictLoaded \/ LoadModel \/ ReadFails
        \/ OpenFile \/ NextId \/ EndFile
        \/ RequestRange \/ CopyPart \/ FinishRange

LoadTerminated == phase \in {"done", "failed"} /\ UNCHANGED loadVars

LoadSpec == LoadInit /\ [][LoadNext \/ LoadTerminated]_loadVars
-----------------------------------------------------------------------------
\* The dictionary was read to its end, or the model was.
VocabLoaded == phase = "open_file" /\ file_no = 1

DictAsWritten ==
  LET line(k) == LexemeDenotes(StripCr(Lines[k]))
  IN  run.kind = "du" /\ (phase = "load_vocab" \/ VocabLoaded \/ error = "entry") =>
        /\ \A k \in 1..Len(vocab) : line(k) = {vocab[k]}
        /\ error = "entry" => line(Len(vocab) + 1) = {}
        /\ VocabLoaded => FlattenSeq([k \in 1..Len(vocab) |-> Append(Lines[k], LF)]) \in
                            {run.vocab, Append(run.vocab, LF)}

ModelAsWritten ==
  run.kind = "target" =>
    /\ VocabLoaded => Export(vocab) = run.vocab
    /\ error = "model" => \A v \in Vocabs : Export(v) # run.vocab

\* The vocabulary is what its file says: a dictionary has the lexeme of every
\* line, at the line's place, and a line is turned down exactly if it means
\* nothing (a single carriage return before the line feed is not part of it); a
\* vocabulary is loaded from model.bin exactly if the file is its export.
VocabAsWritten == DictAsWritten /\ ModelAsWritten

\* The words of a run in file order: the file and the word's place in it.
WordSize(r) == IF r.kind = "du" THEN 2 ELSE 4
AllWords(r) == FlattenSeq([f \in 1..Len(r.files) |->
                            [i \in 1..(Len(r.files[f].local) \div WordSize(r)) |-> <<r.files[f], i>>]])

\* The word says that its token is `id`: as written, or by way of the gmap.
Says(r, word, id) ==
  LET at(content, width, k) == Slice(content, width * (k - 1), width * k)
      local == at(word[1].local, WordSize(r), word[2])
  IN  IF r.kind = "target" THEN local = Word(id, 4)
      ELSE \E k \in 1..Len(word[1].gmap24 \o word[1].gmap32) :
             /\ local = Word(k - 1, 2)
             /\ IF 24 \in r.gmaps THEN at(word[1].gmap24, 3, k) = Word(id, 3)
                ELSE at(word[1].gmap32, 4, k) = Word(id, 4)

\* What is loaded is the run's own tokens in file order, up to and including
\* the one that reaches the limit, and all of them only if none does; a bad ID
\* behind the limit is never seen.
LoadsShortestPrefix ==
  run # NoRun =>
    LET n == Len(stream.ids)
    IN  /\ Len(stream.parts) = n /\ n <= Len(AllWords(run))
        /\ \A k \in 1..n : /\ Says(run, AllWords(run)[k], stream.ids[k])
                           /\ stream.parts[k] = vocab[stream.ids[k] + 1]
        /\ n > 1 => Total(stream.parts, n - 1) < run.max_bytes
        /\ phase = "loaded" => n = Len(AllWords(run)) \/ Total(stream.parts, n) >= run.max_bytes
        /\ error \in {"outside_gmap", "outside_vocab"} =>
             n = 0 \/ Total(stream.parts, n) < run.max_bytes

\* A range that is answered is the exact slice of the stream's bytes.  The
\* length check behind the copy loop never fires, a stream that was loaded is
\* never turned down for its structure, and only ranges beyond it are refused.
RangeExact ==
  /\ phase = "done" => /\ Len(stream.ids) = Len(stream.parts)
                    /\ bytes = Slice(FlattenSeq(stream.parts), range[1], range[2])
                    /\ Len(bytes) = range[2] - range[1]
  /\ error # "short"
  /\ error = "structure" => run = NoRun
  /\ error = "outside" => range[1] > range[2] \/ range[2] > Len(FlattenSeq(stream.parts))

\* Mutated: every token ends where it starts.
FromLoadedStreamStarts(s) ==
  [k \in 1..Len(s.ids) |->
     [byte_start |-> s.bounds[k], byte_end |-> s.bounds[k], bytes |-> s.parts[k]]]

\* TokenizerStream::from_loaded_stream: one native token per part.
FromLoadedStream(s) ==
  [k \in 1..Len(s.ids) |->
     [byte_start |-> s.bounds[k], byte_end |-> s.bounds[k + 1], bytes |-> s.parts[k]]]

\* A loaded stream becomes a TokenizerStream of its bytes, which validation
\* accepts unless a lexeme is empty; validate_structure accepts those too.
BridgesUnlessEmpty ==
  phase = "loaded" /\ run # NoRun =>
    LET raw    == FlattenSeq(stream.parts)
        bridge == [raw_len |-> Len(raw), raw_sha256 |-> Sha256(raw),
                   tokens |-> FromLoadedStream(stream)]
    IN  /\ StructureValid(stream)
        /\ WellFormed(bridge, raw) = (\A k \in 1..Len(stream.parts) : stream.parts[k] # <<>>)
=============================================================================
