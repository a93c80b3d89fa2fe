---------------------------- MODULE NativeServer ----------------------------
(***************************************************************************)
(* A small native tokenizer server for the model-checking runs: external   *)
(* to this repository, shaped by how the Direct-ID fixtures use it.        *)
(*                                                                         *)
(* Bytes are small numbers: 1 and 2 are one-byte characters, 3 4 is one    *)
(* two-byte character, and 9 stands for the replacement character.  A      *)
(* tokenizer takes the longest piece of its vocabulary at each position;   *)
(* like a byte-level vocabulary it may cut a character in two, and pieces  *)
(* may join bytes across characters.                                       *)
(***************************************************************************)
EXTENDS Spans, SequencesExt

Lead == 3
Trail == 4
Replacement == 9

\* Every lead byte is followed, and every trail byte preceded, by the other.
ValidUtf8(bytes) ==
  \A k \in 1..Len(bytes) :
    /\ bytes[k] = Lead => k < Len(bytes) /\ bytes[k + 1] = Trail
    /\ bytes[k] = Trail => k > 1 /\ bytes[k - 1] = Lead

\* A vocabulary lists its pieces; a token ID is a position in the list.
Qwen    == << <<1>>, <<2>>, <<3>>, <<4>>, <<4, 1>>, <<2, 2, 2>>, <<1, 2>> >>
Mistral == << <<2>>, <<1>>, <<3>>, <<4>>, <<3, 4>>, <<1, 1>> >>

PieceAt(bytes, k, id, vocab) ==
  LET piece == vocab[id]
  IN  k + Len(piece) - 1 <= Len(bytes) /\ SubSeq(bytes, k, k + Len(piece) - 1) = piece

LongestAt(bytes, k, vocab) ==
  CHOOSE id \in DOMAIN vocab :
    /\ PieceAt(bytes, k, id, vocab)
    /\ \A other \in DOMAIN vocab :
         PieceAt(bytes, k, other, vocab) => Len(vocab[other]) <= Len(vocab[id])

Greedy(bytes, vocab) ==
  LET from[k \in 1..(Len(bytes) + 1)] ==
        IF k > Len(bytes) THEN <<>>
        ELSE LET id == LongestAt(bytes, k, vocab)
             IN  <<id>> \o from[k + Len(vocab[id])]
  IN  from[1]

\* The bytes an ID list stands for, and the string a server sends for them:
\* bytes that are not part of a character become replacement characters.
PieceBytes(ids, vocab) ==
  Reconstruct([i \in 1..Len(ids) |-> [bytes |-> vocab[ids[i]]]])

Lossy(bytes) ==
  [k \in 1..Len(bytes) |->
     IF \/ bytes[k] = Lead /\ ~(k < Len(bytes) /\ bytes[k + 1] = Trail)
        \/ bytes[k] = Trail /\ ~(k > 1 /\ bytes[k - 1] = Lead)
     THEN Replacement ELSE bytes[k]]
\* A server is the set of models it may answer from: one, or another at every
\* call.
Faithful == {Qwen}
Swapping == {Qwen, Mistral}
MCServers == {Faithful, Swapping}

MCFaithfulServers == {Faithful}

\* An ID the model does not have stands for nothing.
MCPiece(models, id) ==
  LET model == CHOOSE v \in models : TRUE
  IN  IF id \in DOMAIN model THEN model[id] ELSE <<>>

MCTokenized(models, bytes) == {Greedy(bytes, v) : v \in models}

\* An ID the model does not have is answered with an error.
MCDetokenized(models, list) ==
  {Lossy(PieceBytes(list, v)) : v \in {v \in models : \A i \in DOMAIN list : list[i] \in DOMAIN v}}
=============================================================================
