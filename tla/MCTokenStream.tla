--------------------------- MODULE MCTokenStream ---------------------------
(***************************************************************************)
(* TokenStream on short raw inputs over two byte values.  Presented streams *)
(* take up to two tokens from a universe of right, wrong, reversed, empty  *)
(* and out-of-range spans, or are a full partition of the longest input    *)
(* with one token left out; their identity may be that of another input.   *)
(***************************************************************************)
EXTENDS TokenStream, SequencesExt

Inputs == {<<>>, <<1>>, <<1, 2>>, <<1, 1, 2>>}

TokenAt(s, e, bytes) == [byte_start |-> s, byte_end |-> e, bytes |-> bytes]

\* Spans within, around and beyond the input, with right and wrong bytes.
Universe(raw_bytes) ==
  UNION {{TokenAt(s, e, b) : b \in {<<2>>, Slice(raw_bytes \o <<1>>, s, e)}} :
           s \in 0..Len(raw_bytes), e \in 0..(Len(raw_bytes) + 1)}

Singles(raw_bytes) ==
  [i \in 1..Len(raw_bytes) |-> TokenAt(i - 1, i, <<raw_bytes[i]>>)]

TokenLists(raw_bytes) ==
  SeqOf(Universe(raw_bytes), 2) \cup {Singles(raw_bytes)} \cup
  {RemoveAt(Singles(raw_bytes), i) : i \in 1..Len(raw_bytes)}

MCPresented ==
  UNION {{[raw |-> r,
           stream |-> [raw_len |-> Len(claimed), raw_sha256 |-> Sha256(claimed),
                       tokens |-> ts]] :
            ts \in TokenLists(r), claimed \in {r, <<2>>, <<2, 2>>}} : r \in Inputs}

Lines(raw_bytes) ==
  {<<"blank", <<>>>>} \cup (BadLine \X {<<>>})
  \cup {<<"record", TokenAt(i - 1, i, <<raw_bytes[i]>>)>> : i \in 1..Len(raw_bytes)}

MCImports ==
  UNION {{[raw |-> r, lines |-> ls] : ls \in SeqOf(Lines(r), 4)} : r \in {<<1>>, <<1, 2>>}}
=============================================================================
