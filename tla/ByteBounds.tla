----------------------------- MODULE ByteBounds -----------------------------
(***************************************************************************)
(* The byte boundaries of a loaded stream (src/lib.rs) and the searches in *)
(* them.  Bounds count bytes from 0 and may repeat, where a lexeme is      *)
(* empty; a search returns how many bounds lie before the place it finds,  *)
(* which is the code's index counted from 0.                               *)
(***************************************************************************)
EXTENDS Spans, SequencesExt

\* The length of the first k parts.
Total(parts, k) ==
  LET upTo[n \in 0..k] == IF n = 0 THEN 0 ELSE upTo[n - 1] + Len(parts[n])
  IN  upTo[k]

\* make_loaded_stream: the bounds are the running totals, from 0.
MakeLoadedStream(ids, parts) ==
  [ids |-> ids, parts |-> parts, bounds |-> [k \in 1..(Len(parts) + 1) |-> Total(parts, k - 1)]]

\* upper_bound: how many of the values are at most `needle`, by bisection of
\* the places <<low, high>> between which the answer lies.
UpperBound(values, needle) ==
  LET Places == (0..Len(values)) \X (0..Len(values))
      search[at \in Places] ==
        LET mid == (at[1] + at[2]) \div 2
        IN  CASE at[1] >= at[2]              -> at[1]
              [] at[1] < at[2] /\ values[mid + 1] <= needle -> search[<<mid + 1, at[2]>>]
              [] OTHER                       -> search[<<at[1], mid>>]
  IN  search[<<0, Len(values)>>]

\* lower_bound: how many of the values are less than `needle`.
LowerBound(values, needle) ==
  LET Places == (0..Len(values)) \X (0..Len(values))
      search[at \in Places] ==
        LET mid == (at[1] + at[2]) \div 2
        IN  CASE at[1] >= at[2]              -> at[1]
              [] at[1] < at[2] /\ values[mid + 1] < needle -> search[<<mid + 1, at[2]>>]
              [] OTHER                       -> search[<<at[1], mid>>]
  IN  search[<<0, Len(values)>>]
=============================================================================
