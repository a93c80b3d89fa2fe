------------------------------ MODULE DirectId ------------------------------
(***************************************************************************)
(* What the Direct-ID fixtures share: the native tokenizer server they     *)
(* call over HTTP, and the record a repair search keeps of each trial.     *)
(*                                                                         *)
(* The server is outside this repository.  It is given by the answers it   *)
(* may send: one answer for a faithful server, several for one that is     *)
(* restarted with another model between two calls.  Which server a run has *)
(* is one of its inputs.  Any call may fail: no connection, a status other *)
(* than 200 or 201, a body that does not parse.                            *)
(***************************************************************************)
EXTENDS Spans, SequencesExt

CONSTANTS MaxId,              \* the largest token ID: u32::MAX
          IsText(_),          \* the byte strings that are valid UTF-8
          Servers,            \* the servers a run may have
          Tokenized(_, _),    \* the ID lists a server may answer for a text
          Detokenized(_, _),  \* the bytes a server may answer for an ID list
          FaithfulServers,    \* those that answer every call from one model
          Piece(_, _)         \* the bytes an ID stands for in the model of such a server

ASSUME MaxIdAssumption == MaxId \in Nat

ASSUME PieceAssumption == \A s \in FaithfulServers : \A id \in 0..MaxId : Piece(s, id) \in Bytes

Ids == Seq(0..MaxId)

\* tokenize refuses bytes that are not UTF-8 before it calls the server, and
\* an answer that is not a list of unsigned integers of 32 bits.
Tokenize(server, bytes) == IF IsText(bytes) THEN Tokenized(server, bytes) \cap Ids ELSE {}

\* detokenize returns the bytes of a JSON string, which are valid UTF-8.
Detokenize(server, ids) ==
  {bytes \in Detokenized(server, ids) : bytes \in Bytes /\ IsText(bytes)}

\* The bytes an ID list stands for: its pieces, one after another.
BytesOf(server, ids) == FlattenSeq([k \in 1..Len(ids) |-> Piece(server, ids[k])])

\* What makes a server faithful on a text: it tokenizes it in one way, into IDs
\* that stand for its bytes, and decodes the first of these to their bytes
\* whenever they are text, as a JSON string can hold no others.
FaithfulOn(server, text) ==
  \A list \in Tokenize(server, text) :
    /\ Tokenize(server, text) = {list}
    /\ BytesOf(server, list) = text
    /\ \A n \in 0..Len(list) :
         LET bytes == BytesOf(server, SubSeq(list, 1, n))
         IN  IsText(bytes) => Detokenize(server, SubSeq(list, 1, n)) \subseteq {bytes}

\* What a repair looks for, said of the model's own pieces: some IDs are kept
\* and the window behind their bytes, tokenized, completes the tokenization.
ExactSplice(server, kept, text) ==
  /\ kept # <<>>
  /\ \E rest \in Tokenize(server, Slice(text, Len(BytesOf(server, kept)), Len(text))) :
       kept \o rest \in Tokenize(server, text)

\* A RepairTrial: a candidate compared with the oracle, or a rejected drop.
Compared(drop, window, exact) ==
  [drop_tokens |-> drop, repair_window_bytes |-> Len(window),
   ids_exact |-> exact, rejected |-> "none"]
Rejected(drop, reason) ==
  [drop_tokens |-> drop, repair_window_bytes |-> 0,
   ids_exact |-> FALSE, rejected |-> reason]

Rejection == {"drop_exceeds_prefix", "full_window_forbidden", "kept_bytes_not_prefix",
              "repair_start_outside_prefix"}

RepairTrial == [drop_tokens : Nat, repair_window_bytes : Nat,
                ids_exact : BOOLEAN, rejected : {"none"} \cup Rejection]

\* The receipt file before a run: no earlier run wrote it, or one did; and after
\* a failed write, which may have truncated it.
NoReceipt == [file |-> "absent"]
OlderReceipt == [file |-> "older"]
TruncatedReceipt == [file |-> "truncated"]
FoundReceipts == {NoReceipt, OlderReceipt}
=============================================================================
