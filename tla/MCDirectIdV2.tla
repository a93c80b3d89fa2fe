---------------------------- MODULE MCDirectIdV2 ----------------------------
(***************************************************************************)
(* DirectIdV2 against a small server: one model that answers faithfully,   *)
(* or a server whose model may be another one at every call.  The span     *)
(* file lists the model's own tokens, one token per byte, or a damaged     *)
(* list; the DU streams are those of the files or of other bytes.          *)
(***************************************************************************)
EXTENDS DirectIdV2, NativeServer

CONSTANTS MaxPrefix, MaxDelta,  \* the longest prefix and delta
          MaxDrops,             \* the values of max_drop_tokens
          FixedDrops            \* the values of a fixed drop

\* Texts, and one prefix and one delta that meet inside a character.
Texts(n) == {s \in SeqOf({1, 2, Lead, Trail}, n) : ValidUtf8(s)}
PrefixFiles == Texts(MaxPrefix) \cup {<<1, Lead>>}
DeltaFiles == Texts(MaxDelta) \cup {<<Trail>>}

\* The tokens of an ID list as the span file of the model lists them.
Tokens(list) ==
  LET end(k) == Len(PieceBytes(SubSeq(list, 1, k), Qwen))
  IN  [k \in 1..Len(list) |-> [id |-> list[k], byte_start |-> end(k - 1),
                               byte_end |-> end(k), bytes |-> Qwen[list[k]]]]

SpanFiles(bytes) ==
  {Tokens(Greedy(bytes, Qwen)), Tokens(bytes), Tokens(Append(bytes, 2)),
   Tail(Tokens(bytes \o <<1>>)), <<>>,
   [k \in 1..Len(bytes) |-> [Tokens(bytes)[k] EXCEPT !.bytes = <<9>>]],
   [k \in 1..Len(bytes) |-> [Tokens(bytes)[k] EXCEPT !.id = MaxId + 1]]}

DuStreams(bytes) == {bytes, bytes \o <<1>>}

MCInputs ==
  UNION {{[prefix |-> p, delta |-> d, native |-> n, prefix_du |-> pd, delta_du |-> dd] :
            n \in SpanFiles(p), pd \in DuStreams(p), dd \in DuStreams(d)} :
          p \in PrefixFiles, d \in DeltaFiles}

MCOptions ==
  [drop : {NoDrop}, max_drop_tokens : MaxDrops, server : MCServers] \cup
  [drop : FixedDrops, max_drop_tokens : {0}, server : {Swapping}]

\* "Diagnostic search uses the oracle to select the first exact drop depth": a
\* search that ends without a candidate, the server having answered every call,
\* means that the range holds no exact drop.
SearchFindsExactDrop ==
  Searching /\ server = Faithful /\ error = "not_text" /\ ValidUtf8(prefix) /\ ValidUtf8(full) =>
    \A d \in 0..options.max_drop_tokens : ~ExactDrop(d)
=============================================================================
