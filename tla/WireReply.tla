----------------------------- MODULE WireReply -----------------------------
(***************************************************************************)
(* The replies of a native tokenizer server as the V0 fixture reads them,  *)
(* with its own search for keys, brackets and quotes.  A reply is a list   *)
(* of symbols, each a kind and a number: the punctuation, under the names  *)
(* JSON gives it, a key, a token ID, and within a string a byte, as it is  *)
(* or escaped, or half of a surrogate pair.  A connection may close before *)
(* the reply is complete.                                                  *)
(*                                                                         *)
(* A result is a set: the one value there is, or no value, where the code  *)
(* returns an error.                                                       *)
(***************************************************************************)
EXTENDS Spans, SequencesExt

CONSTANT LargestId  \* the largest token ID: u32::MAX

Symbol(kind) == <<kind, 0>>
Is(reply, k, kind) == reply[k][1] = kind

\* The place of the first symbol of a kind behind a place, one past the end if
\* there is none.
FindAfter(reply, place, kind) ==
  Min({k \in (place + 1)..Len(reply) : Is(reply, k, kind)} \cup {Len(reply) + 1})

Found(reply, place) == place <= Len(reply)

\* The IDs among the first n symbols of a list.
IdsUpTo(inner) ==
  LET upTo[n \in 0..Len(inner)] ==
        IF n = 0 THEN <<>>
        ELSE IF Is(inner, n, "id") THEN Append(upTo[n - 1], inner[n][2]) ELSE upTo[n - 1]
  IN  upTo

\* Comma-separated IDs that fit 32 bits; empty parts are skipped.
IdList(inner) ==
  IF \A k \in 1..Len(inner) :
       \/ Is(inner, k, "value_separator")
       \/ /\ Is(inner, k, "id") /\ inner[k][2] <= LargestId
          /\ k < Len(inner) => Is(inner, k + 1, "value_separator")
  THEN {IdsUpTo(inner)[Len(inner)]}
  ELSE {}

\* Mutated: a list without its closing bracket ends with the reply.
ParseArrayUnclosed(reply, key) ==
  LET at    == FindAfter(reply, 0, key)
      open  == FindAfter(reply, at, "begin_array")
      close == FindAfter(reply, open, "end_array")
  IN  IF Found(reply, at) /\ Found(reply, open)
      THEN IdList(SubSeq(reply, open + 1, close - 1)) ELSE {}

\* parse_u32_array_after: the first bracketed list behind the key.
ParseArrayAfter(reply, key) ==
  LET at    == FindAfter(reply, 0, key)
      open  == FindAfter(reply, at, "begin_array")
      close == FindAfter(reply, open, "end_array")
  IN  IF Found(reply, at) /\ Found(reply, open) /\ Found(reply, close)
      THEN IdList(SubSeq(reply, open + 1, close - 1)) ELSE {}

ParseTokens(reply) ==
  IF ParseArrayAfter(reply, "tokens") # {} THEN ParseArrayAfter(reply, "tokens")
  ELSE ParseArrayAfter(reply, "ids")

\* parse_json_string_after: the first string behind the key and a colon, up to
\* its closing quote; a lone or paired surrogate is no character of its own.
ParseStringAfter(reply, key) ==
  LET at    == FindAfter(reply, 0, key)
      colon == FindAfter(reply, at, "name_separator")
      open  == FindAfter(reply, colon, "quote")
      close == FindAfter(reply, open, "quote")
      inner == SubSeq(reply, open + 1, close - 1)
  IN  IF /\ Found(reply, at) /\ Found(reply, colon) /\ Found(reply, close)
         /\ \A k \in 1..Len(inner) : ~Is(inner, k, "surrogate")
      THEN {[k \in 1..Len(inner) |-> inner[k][2]]} ELSE {}

ParseContent(reply) ==
  IF ParseStringAfter(reply, "content") # {} THEN ParseStringAfter(reply, "content")
  ELSE ParseStringAfter(reply, "text")
-----------------------------------------------------------------------------
(***************************************************************************)
(* What a server sends: an object with the answer under either key, ASCII  *)
(* escaped or not, the other characters as they are or as escapes.         *)
(***************************************************************************)

Object(key, value) ==
  <<Symbol("begin_object"), Symbol(key), Symbol("name_separator")>> \o value \o
  <<Symbol("end_object")>>

Array(ids) ==
  <<Symbol("begin_array")>> \o
  [k \in 1..(2 * Len(ids) - 1) |->
     IF k % 2 = 0 THEN Symbol("value_separator") ELSE <<"id", ids[(k + 1) \div 2]>>] \o
  <<Symbol("end_array")>>

String(bytes, wide, form) ==
  <<Symbol("quote")>> \o
  [k \in 1..Len(bytes) |-> <<IF bytes[k] \in wide THEN form ELSE "byte", bytes[k]>>] \o
  <<Symbol("quote")>>

TokenReplies(ids) == {Object(key, Array(ids)) : key \in {"tokens", "ids"}}

\* `wide` are the bytes of characters a server may escape as surrogate pairs.
ContentReplies(bytes, wide) ==
  {Object(key, String(bytes, wide, form)) :
     key \in {"content", "text"}, form \in {"byte", "surrogate"}}

\* A reply that arrives whole, or up to some symbol.
Arrivals(replies) == UNION {{SubSeq(reply, 1, n) : n \in 0..Len(reply)} : reply \in replies}
=============================================================================
