----------------------------- MODULE DuTargetMap -----------------------------
(***************************************************************************)
(* PrecomputedDuTargetMap::build (src/du_remap.rs): the target vocabulary  *)
(* is inserted into a byte trie, every lexeme of the DU dictionary is      *)
(* segmented by longest match along the trie, and the expansions are       *)
(* packed behind each other, found again by their offsets.                 *)
(*                                                                         *)
(* A node of the trie is given by the bytes on the path to it; one action  *)
(* per token inserted, per match and per lexeme packed.                    *)
(***************************************************************************)
EXTENDS TargetVocab

CONSTANT Cases  \* [du_vocab, tokens]: a DU dictionary and a target vocabulary

ASSUME CasesAssumption == Cases \subseteq [du_vocab : Seq(Bytes), tokens : Seq(Bytes)]

VARIABLES input,
          pc,
          id,         \* the token about to be inserted
          nodes,      \* the nodes of the trie
          terminal,   \* the IDs at its terminal nodes
          offset,     \* where the next match of the lexeme starts
          expansion,  \* the lexeme's IDs so far
          offsets,    \* of the map: the last one is where the next starts
          ids,        \* of the map: all expansions
          error

trie == <<id, nodes, terminal>>
map == <<offsets, ids>>
vars == <<input, pc, trie, offset, expansion, map, error>>

tokens == input.tokens
gid == Len(offsets) - 1
lexeme == input.du_vocab[gid + 1]

Init ==
  /\ input \in Cases
  /\ pc = "insert"
  /\ id = 0 /\ nodes = {} /\ terminal = <<>>
  /\ offset = 0 /\ expansion = <<>>
  /\ offsets = <<0>> /\ ids = <<>>
  /\ error = "none"

Fail(reason) == pc' = "failed" /\ error' = reason

\* Mutated: the last of equal tokens gives the node its ID.
WithTerminalLast(node, native_id) ==
  [n \in DOMAIN terminal \cup {node} |-> IF n = node THEN native_id ELSE terminal[n]]

\* Of equal tokens the lowest ID stays.
WithTerminal(node, native_id) ==
  IF node \in DOMAIN terminal /\ terminal[node] <= native_id THEN terminal
  ELSE [n \in DOMAIN terminal \cup {node} |-> IF n = node THEN native_id ELSE terminal[n]]

\* from_tokens: insert the next token, unless it is empty.
InsertToken ==
  /\ pc = "insert"
  /\ id < Len(tokens)
  /\ LET token == TokenBytes(tokens, id)
     IN  \/ token = <<>> /\ UNCHANGED <<nodes, terminal>>
         \/ /\ token # <<>>
            /\ nodes' = nodes \cup {Slice(token, 0, n) : n \in 1..Len(token)}
            /\ terminal' = WithTerminal(token, id)
  /\ id' = id + 1
  /\ UNCHANGED <<input, pc, offset, expansion, map, error>>

VocabReady ==
  /\ pc = "insert"
  /\ id >= Len(tokens)
  /\ pc' = "encode"
  /\ UNCHANGED <<input, trie, offset, expansion, map, error>>

\* longest_match: walk down the trie as far as the bytes lead, and take the
\* last terminal node passed; the set is empty if there was none.
LongestMatch(bytes, at) ==
  LET reached(n) == \A m \in 1..n : Slice(bytes, at, at + m) \in nodes
      walked     == {n \in 1..(Len(bytes) - at) : reached(n)}
      terminals  == {n \in walked : Slice(bytes, at, at + n) \in DOMAIN terminal}
  IN  IF terminals = {} THEN {} ELSE {Slice(bytes, at, at + Max(terminals))}

Encoding == pc = "encode" /\ gid < Len(input.du_vocab)

\* greedy_encode, one step: the next ID of the bytes, or an error without one.
MatchNext(bytes) ==
  LET match == LongestMatch(bytes, offset)
  IN  \/ /\ match = {}
         /\ Fail("no_token")
         /\ UNCHANGED <<offset, expansion>>
      \/ \E node \in match :
           /\ expansion' = Append(expansion, terminal[node])
           /\ offset' = offset + Len(node)
           /\ UNCHANGED <<pc, error>>

MatchToken ==
  /\ Encoding
  /\ offset < Len(lexeme)
  /\ MatchNext(lexeme)
  /\ UNCHANGED <<input, trie, map>>

NextOffset == Len(ids) + Len(expansion)

\* The expansion of a whole lexeme is decoded, compared, and packed.
PackLexeme ==
  /\ Encoding
  /\ offset >= Len(lexeme)
  /\ IF Decode(tokens, expansion) # lexeme
     THEN Fail("changed_bytes") /\ UNCHANGED <<offset, expansion, map>>
     ELSE /\ ids' = ids \o expansion
          /\ offsets' = Append(offsets, NextOffset)
          /\ offset' = 0 /\ expansion' = <<>>
          /\ UNCHANGED <<pc, error>>
  /\ UNCHANGED <<input, trie>>

\* validate_packed.
PackedValid ==
  /\ Len(offsets) = Len(input.du_vocab) + 1
  /\ offsets[1] = 0
  /\ \A k \in 1..(Len(offsets) - 1) : offsets[k] <= offsets[k + 1]
  /\ Last(offsets) = Len(ids)

Finish ==
  /\ pc = "encode"
  /\ gid >= Len(input.du_vocab)
  /\ IF PackedValid THEN pc' = "built" /\ UNCHANGED error ELSE Fail("packed")
  /\ UNCHANGED <<input, trie, offset, expansion, map>>

Next == InsertToken \/ VocabReady \/ MatchToken \/ PackLexeme \/ Finish

Terminated == pc \in {"built", "failed"} /\ UNCHANGED vars

Spec == Init /\ [][Next \/ Terminated]_vars
-----------------------------------------------------------------------------
\* PrecomputedDuTargetMap::lookup.
Lookup(g) == Slice(ids, offsets[g + 1], offsets[g + 2])

\* Every packed expansion is the greedy one of its lexeme: longest token first
\* and the lowest ID of equal tokens, wherever it lies in the packed array and
\* in whatever order the vocabulary listed its tokens.  A map is built exactly
\* for the dictionaries whose every lexeme that segmentation covers: it stops at
\* the first that it does not, where no token matches, and neither of the
\* closing checks ever fires.
MapIsGreedy ==
  /\ \A g \in 0..(gid - 1) : Lookup(g) = GreedyIds(tokens, input.du_vocab[g + 1])
  /\ error \notin {"changed_bytes", "packed"}
  /\ error = "no_token" /\ gid < Len(input.du_vocab) =>
       /\ MatchesAt(tokens, lexeme, offset) = {}
       /\ expansion = GreedyIds(tokens, lexeme)
       /\ ~Mappable(tokens, lexeme)
  /\ pc = "built" => \A g \in 1..Len(input.du_vocab) : Mappable(tokens, input.du_vocab[g])
=============================================================================
