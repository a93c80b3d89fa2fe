---------------------------- MODULE BinaryFiles ----------------------------
(***************************************************************************)
(* The binary files of a run (src/lib.rs): lists of little-endian words of *)
(* a fixed width (.u16, .gmap24, .gmap32, tokens.u32), and model.bin, the  *)
(* target vocabulary.  A result is a set: the one value there is, or no    *)
(* value, where the code returns an error.                                 *)
(***************************************************************************)
EXTENDS Spans, SequencesExt

LittleEndian(word) == FoldRight(LAMBDA byte, sum : byte + 256 * sum, word, 0)

\* read_fixed_u16, read_fixed_u32 and load_gmap: a whole number of words.
Words(bytes, width) ==
  IF Len(bytes) % width # 0 THEN {}
  ELSE {[k \in 1..(Len(bytes) \div width) |->
           LittleEndian(Slice(bytes, width * (k - 1), width * k))]}

\* load_model_bin: the count, then each token behind its length, and no more;
\* `at` are the tokens left and the offset of the next.
LoadModelBin(bytes) ==
  LET word(offset) == LittleEndian(Slice(bytes, offset, offset + 4))
      Places == (0..word(0)) \X (0..Len(bytes))
      after[at \in Places] ==
        LET start == at[2] + 4
            end   == start + word(at[2])
        IN  IF at[1] = 0 THEN IF at[2] = Len(bytes) THEN {<<>>} ELSE {}
            ELSE IF Len(bytes) < start \/ Len(bytes) < end THEN {}
            ELSE {<<Slice(bytes, start, end)>> \o rest : rest \in after[<<at[1] - 1, end>>]}
  IN  IF Len(bytes) < 4 THEN {} ELSE after[<<word(0), 4>>]
-----------------------------------------------------------------------------
\* The files as they are written: the words of a list, and a vocabulary.
Word(value, width) == [k \in 1..width |-> (value \div 256^(k - 1)) % 256]

Written(values, width) == FlattenSeq([k \in 1..Len(values) |-> Word(values[k], width)])

Export(vocab) ==
  Word(Len(vocab), 4) \o
  FlattenSeq([k \in 1..Len(vocab) |-> Word(Len(vocab[k]), 4) \o vocab[k]])
=============================================================================
