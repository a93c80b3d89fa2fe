---------------------------- MODULE MCDirectIdV1 ----------------------------
(***************************************************************************)
(* DirectIdV1 against a small server that answers from one model, and, on  *)
(* shorter inputs, against one whose model may be another at every call.   *)
(***************************************************************************)
EXTENDS DirectIdV1, NativeServer

CONSTANTS MaxPrefix, MaxDelta,  \* the longest prefix and delta
          MaxDrops              \* the values of max_drop_tokens

Alphabet == {1, 2, Lead, Trail}

MCInputs ==
  [prefix : SeqOf(Alphabet, MaxPrefix), delta : SeqOf(Alphabet, MaxDelta),
   max_drop_tokens : MaxDrops, server : {Faithful}] \cup
  [prefix : SeqOf(Alphabet, MaxPrefix - 1), delta : SeqOf(Alphabet, MaxDelta),
   max_drop_tokens : {Max(MaxDrops)}, server : {Swapping}]
=============================================================================
