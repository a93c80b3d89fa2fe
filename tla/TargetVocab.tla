----------------------------- MODULE TargetVocab -----------------------------
(***************************************************************************)
(* A target vocabulary (src/du_remap.rs) and what its greedy segmentation  *)
(* promises, said without the trie that computes it.  Token IDs are        *)
(* positions counted from 0; empty tokens keep their ID and never match.   *)
(***************************************************************************)
EXTENDS Spans, SequencesExt

TokenBytes(tokens, id) == tokens[id + 1]

\* TargetVocab::decode, for IDs of the vocabulary.
Decode(tokens, ids) == FlattenSeq([k \in 1..Len(ids) |-> TokenBytes(tokens, ids[k])])

\* The nonempty tokens that the bytes continue with behind `offset`.
MatchesAt(tokens, bytes, offset) ==
  {id \in 0..(Len(tokens) - 1) :
     LET token == TokenBytes(tokens, id)
     IN  /\ token # <<>>
         /\ offset + Len(token) <= Len(bytes)
         /\ Slice(bytes, offset, offset + Len(token)) = token}

\* The longest of them, and of equal ones the one with the lowest ID.
LongestToken(tokens, bytes, offset) ==
  LET matches == MatchesAt(tokens, bytes, offset)
      longest == {id \in matches : \A other \in matches :
                    Len(TokenBytes(tokens, other)) <= Len(TokenBytes(tokens, id))}
  IN  Min(longest)

\* The IDs of a greedy segmentation, in order, up to the end of the
\* bytes or the first offset where no token matches.
GreedyIds(tokens, bytes) ==
  LET from[offset \in 0..Len(bytes)] ==
        IF MatchesAt(tokens, bytes, offset) = {} THEN <<>>
        ELSE LET id == LongestToken(tokens, bytes, offset)
             IN  <<id>> \o from[offset + Len(TokenBytes(tokens, id))]
  IN  from[0]

Mappable(tokens, bytes) == Decode(tokens, GreedyIds(tokens, bytes)) = bytes
=============================================================================
