----------------------------- MODULE DirectIdV2 -----------------------------
(***************************************************************************)
(* nereids-direct-id-du-aware-fixture: the repair of DirectIdV1, with the  *)
(* boundary of the kept IDs read from the native token spans stored in a   *)
(* snapshot, and the snapshot's tail and the delta read from DU streams.   *)
(* The server is asked to decode nothing before a candidate is chosen.     *)
(*                                                                         *)
(* A run has a fixed drop, and then constructs its candidate before the    *)
(* oracle is known, or searches the drops from 0 with the oracle at hand.  *)
(* A loaded DU stream is given by the bytes its lexemes reconstruct to.    *)
(***************************************************************************)
EXTENDS DirectId

CONSTANTS Inputs,  \* [prefix, delta, native, prefix_du, delta_du]: the files of
                   \* a run, the span file by its tokens and their IDs
          Options  \* [drop, max_drop_tokens, server]: its options and its server

NoDrop == -1  \* no --drop-tokens: search

NativeSpan == [id : Nat, byte_start : Nat, byte_end : Nat, bytes : Bytes]

Files == [prefix : Bytes, delta : Bytes, native : Seq(NativeSpan),
          prefix_du : Bytes, delta_du : Bytes]

ASSUME InputsAssumption ==
  /\ Inputs \subseteq Files
  /\ Options \subseteq [drop : Nat \cup {NoDrop}, max_drop_tokens : Nat, server : Servers]

\* A faithful server is faithful on every text a run may put to it.
ASSUME FaithfulAssumption ==
  \A i \in Inputs, s \in {o.server : o \in Options} \cap FaithfulServers :
    LET all == i.prefix \o i.delta
    IN  \A k \in 0..Len(i.prefix) : FaithfulOn(s, Slice(all, k, Len(all)))

VARIABLES input, options,
          pc,
          snapshot,     \* the DirectIdSnapshotV2
          oracle_ids,   \* the full tokenization
          drop_tokens,  \* how many snapshot IDs the current trial drops
          ids,          \* the candidate: kept IDs and repair IDs
          trials,
          decoded,      \* what the candidate decodes to
          receipt,      \* the receipt file
          error

answers == <<oracle_ids, decoded>>
search == <<drop_tokens, ids, trials>>
args == <<input, options>>
vars == <<args, pc, snapshot, answers, search, receipt, error>>

prefix == input.prefix
delta == input.delta
full == prefix \o delta
server == options.server
Searching == options.drop = NoDrop

NoSnapshot == [prefix_len |-> 0, prefix_sha256 |-> <<>>, native_ids |-> <<>>,
               native_spans |-> <<>>, du_state |-> <<>>]

Init ==
  /\ input \in Inputs
  /\ options \in Options
  /\ pc = "start"
  /\ snapshot = NoSnapshot
  /\ oracle_ids = <<>> /\ decoded = <<>>
  /\ drop_tokens = 0 /\ ids = <<>> /\ trials = <<>>
  /\ receipt \in FoundReceipts
  /\ error = "none"

Fail(reason) == pc' = "failed" /\ error' = reason

\* validate_against: every check of the header and of the span loop.
SnapshotValid(s, bytes) ==
  /\ s.prefix_len # 0
  /\ Len(bytes) = s.prefix_len
  /\ Sha256(bytes) = s.prefix_sha256
  /\ s.du_state = bytes
  /\ Len(s.native_ids) = Len(s.native_spans)
  /\ s.native_spans # <<>>
  /\ \A i \in 1..Len(s.native_spans) :
       LET span == s.native_spans[i]
       IN  /\ span.id = s.native_ids[i]
           /\ span.byte_start = IF i = 1 THEN 0 ELSE s.native_spans[i - 1].byte_end
           /\ span.byte_end > span.byte_start
           /\ span.byte_end <= Len(bytes)
           /\ span.bytes = Slice(bytes, span.byte_start, span.byte_end)
  /\ s.native_spans[Len(s.native_spans)].byte_end = s.prefix_len

NativeStream == [raw_len |-> Len(prefix), raw_sha256 |-> Sha256(prefix), tokens |-> input.native]

Snapshot == [prefix_len    |-> Len(prefix),
             prefix_sha256 |-> Sha256(prefix),
             native_ids    |-> [i \in 1..Len(input.native) |-> input.native[i].id],
             native_spans  |-> input.native,
             du_state      |-> input.prefix_du]

\* Mutated: the span file is not validated on import.
ProblemUnvalidated ==
  IF \E i \in 1..Len(input.native) : input.native[i].id > MaxId THEN "id_width"
  ELSE IF ~SnapshotValid(Snapshot, prefix) THEN "snapshot"
  ELSE IF input.delta_du # delta THEN "delta"
  ELSE "none"

\* What is wrong with the files, in the order run looks.
Problem ==
  IF ~WellFormed(NativeStream, prefix) THEN "native_stream"
  ELSE IF \E i \in 1..Len(input.native) : input.native[i].id > MaxId THEN "id_width"
  ELSE IF ~SnapshotValid(Snapshot, prefix) THEN "snapshot"
  ELSE IF input.delta_du # delta THEN "delta"
  ELSE "none"

\* Loading a DU run or the span file may fail.  What loads must be a stream of
\* the prefix (TokenStream), a valid snapshot, and a DU stream of the delta.
Preflight ==
  /\ pc = "start"
  /\ \/ Fail("load") /\ UNCHANGED snapshot
     \/ prefix = <<>> /\ Fail("empty_prefix") /\ UNCHANGED snapshot
     \/ prefix # <<>> /\ Problem # "none" /\ Fail(Problem) /\ UNCHANGED snapshot
     \/ /\ prefix # <<>>
        /\ Problem = "none"
        /\ snapshot' = Snapshot
        /\ pc' = IF Searching THEN "tokenize_oracle" ELSE "validate"
        /\ UNCHANGED error
  /\ UNCHANGED <<args, answers, search, receipt>>

\* The search and the fixed-drop construction revalidate the snapshot against
\* the bytes of its own DU state.
Validate ==
  /\ pc = "validate"
  /\ IF SnapshotValid(snapshot, snapshot.du_state)
     THEN pc' = "construct" /\ UNCHANGED error
     ELSE Fail("invalid_snapshot")
  /\ drop_tokens' = IF Searching THEN 0 ELSE options.drop
  /\ UNCHANGED <<args, snapshot, answers, ids, trials, receipt>>

\* Mutated: the repair starts where the last kept token does.
repair_start_at_token == snapshot.native_spans[Len(snapshot.native_ids) - drop_tokens].byte_start

kept_count == Len(snapshot.native_ids) - drop_tokens
repair_start == snapshot.native_spans[kept_count].byte_end
repair_window ==
  Slice(snapshot.du_state, repair_start, snapshot.prefix_len) \o input.delta_du

\* Mutated: a fixed-drop candidate is built again once the oracle is known.
TokenizeOracleRebuild ==
  /\ pc = "tokenize_oracle"
  /\ oracle_ids' \in Tokenize(server, full)
  /\ pc' = "validate"
  /\ UNCHANGED <<args, snapshot, drop_tokens, ids, trials, decoded, receipt, error>>

TokenizeOracle ==
  /\ pc = "tokenize_oracle"
  /\ oracle_ids' \in Tokenize(server, full)
  /\ \/ /\ Searching
        /\ pc' = "validate"
        /\ UNCHANGED trials
     \/ /\ ~Searching
        /\ trials' = <<Compared(drop_tokens, repair_window, ids = oracle_ids')>>
        /\ pc' = "verify"
  /\ UNCHANGED <<args, snapshot, drop_tokens, ids, decoded, receipt, error>>

\* Why a drop cannot be constructed, in the order the code looks.
RejectedDrop ==
  IF kept_count < 0 THEN "drop_exceeds_prefix"
  ELSE IF kept_count = 0 THEN "full_window_forbidden"
  ELSE IF repair_start = 0 THEN "full_window_forbidden"
  ELSE IF repair_start > snapshot.prefix_len THEN "repair_start_outside_prefix"
  ELSE "none"

\* Mutated: the range of drops excludes its upper end.
ExhaustedEarly == Searching /\ drop_tokens >= options.max_drop_tokens

Exhausted == Searching /\ drop_tokens > options.max_drop_tokens

\* A drop out of the question is a trial of the search and an error otherwise.
Construct ==
  /\ pc = "construct"
  /\ \/ Exhausted /\ Fail("exhausted") /\ UNCHANGED search
     \/ /\ ~Exhausted /\ RejectedDrop # "none" /\ Searching
        /\ trials' = Append(trials, Rejected(drop_tokens, RejectedDrop))
        /\ drop_tokens' = drop_tokens + 1
        /\ UNCHANGED <<pc, ids, error>>
     \/ /\ ~Exhausted /\ RejectedDrop # "none" /\ ~Searching
        /\ Fail(RejectedDrop)
        /\ UNCHANGED search
     \/ /\ ~Exhausted /\ RejectedDrop = "none"
        /\ pc' = "tokenize_window"
        /\ UNCHANGED <<search, error>>
  /\ UNCHANGED <<args, snapshot, answers, receipt>>

TokenizeWindow ==
  /\ pc = "tokenize_window"
  /\ \E repair_ids \in Tokenize(server, repair_window) :
       /\ ids' = SubSeq(snapshot.native_ids, 1, kept_count) \o repair_ids
       /\ \/ /\ ~Searching
             /\ pc' = "tokenize_oracle"
             /\ UNCHANGED <<drop_tokens, trials>>
          \/ /\ Searching
             /\ trials' = Append(trials, Compared(drop_tokens, repair_window, ids' = oracle_ids))
             /\ \/ ids' = oracle_ids /\ pc' = "verify" /\ UNCHANGED drop_tokens
                \/ ids' # oracle_ids /\ pc' = "construct" /\ drop_tokens' = drop_tokens + 1
  /\ UNCHANGED <<args, snapshot, answers, receipt, error>>

\* Mutated: the decoding is obtained but not compared.
VerifyIdsOnly ==
  /\ pc = "verify"
  /\ decoded' \in Detokenize(server, ids)
  /\ IF ids = oracle_ids THEN pc' = "write_receipt" /\ UNCHANGED error ELSE Fail("not_verified")
  /\ UNCHANGED <<args, snapshot, oracle_ids, search, receipt>>

\* Decode the candidate, then make_receipt's checks.
VerifyCandidate ==
  /\ pc = "verify"
  /\ decoded' \in Detokenize(server, ids)
  /\ IF /\ input.delta_du = delta
        /\ repair_start # 0
        /\ ids = oracle_ids
        /\ decoded' = full
     THEN pc' = "write_receipt" /\ UNCHANGED error
     ELSE Fail("not_verified")
  /\ UNCHANGED <<args, snapshot, oracle_ids, search, receipt>>

\* fs::write can fail before or after it has truncated the file.
WriteReceipt ==
  /\ pc = "write_receipt"
  /\ \/ /\ receipt' = [file |-> "complete", ids |-> ids, drop_tokens |-> drop_tokens,
                       repair_window_bytes |-> Len(repair_window), trials |-> trials,
                       oracle_used_for_drop_selection |-> Searching]
        /\ pc' = "passed"
        /\ UNCHANGED error
     \/ receipt' \in {receipt, TruncatedReceipt} /\ Fail("write_receipt")
  /\ UNCHANGED <<args, snapshot, answers, search>>

\* Mutated: a call is repeated until it is answered.
CallRetries == pc \in {"tokenize_oracle", "tokenize_window", "verify"} /\ UNCHANGED vars

\* A call that cannot be made or is not answered ends the run; in the search
\* it is a callback error.
CallFails ==
  /\ pc \in {"tokenize_oracle", "tokenize_window", "verify"}
  /\ Fail(IF \/ pc = "tokenize_oracle" /\ ~IsText(full)
             \/ pc = "tokenize_window" /\ ~IsText(repair_window)
          THEN "not_text" ELSE "server")
  /\ UNCHANGED <<args, snapshot, answers, search, receipt>>

Next == \/ Preflight \/ Validate \/ TokenizeOracle \/ Construct \/ TokenizeWindow
        \/ VerifyCandidate \/ WriteReceipt \/ CallFails

Terminated == pc \in {"passed", "failed"} /\ UNCHANGED vars

\* One thread; a call to the server is assumed to end, with or without answer.
Spec == Init /\ [][Next \/ Terminated]_vars /\ WF_vars(Next)
-----------------------------------------------------------------------------
TypeOK ==
  /\ input \in Files
  /\ options \in Options
  /\ pc \in {"start", "validate", "tokenize_oracle", "construct", "tokenize_window",
             "verify", "write_receipt", "passed", "failed"}
  /\ snapshot \in [prefix_len : Nat, prefix_sha256 : Bytes, native_ids : Ids,
                   native_spans : Seq(NativeSpan), du_state : Bytes]
  /\ oracle_ids \in Ids /\ ids \in Ids /\ decoded \in Bytes
  /\ drop_tokens \in Nat
  /\ trials \in Seq(RepairTrial)
  /\ receipt.file \in {"absent", "older", "truncated", "complete"}
  /\ error \in {"none", "load", "empty_prefix", "native_stream", "id_width", "snapshot",
                "delta", "invalid_snapshot", "not_text", "server", "exhausted",
                "not_verified", "write_receipt"} \cup Rejection
  /\ (error = "none") = (pc # "failed")

\* The stored spans and the DU state agree with the files: the bytes of the
\* kept tokens and the repair window together are the prefix and the delta, and
\* the window leaves out at least one byte of them.
WindowCompletesKeptTokens ==
  pc = "tokenize_window" =>
    /\ Reconstruct(SubSeq(snapshot.native_spans, 1, kept_count)) \o repair_window = full
    /\ Len(repair_window) < Len(full)

\* A snapshot built from a validated stream passes every later check: it is
\* refused only for its DU state, revalidation never fails, and no stored
\* boundary lies outside the prefix or at its start with tokens kept.
ValidatedOnce ==
  /\ error = "snapshot" => input.prefix_du # prefix
  /\ error # "invalid_snapshot"
  /\ \A i \in 1..Len(trials) :
       /\ trials[i].rejected # "repair_start_outside_prefix"
       /\ trials[i].rejected = "full_window_forbidden" =>
            trials[i].drop_tokens = Len(snapshot.native_ids)

\* The span file names the IDs of the server's own pieces.
OwnSpans ==
  \A i \in 1..Len(input.native) : Piece(server, input.native[i].id) = input.native[i].bytes

ExactDrop(d) ==
  /\ d < Len(input.native)
  /\ ExactSplice(server, [k \in 1..(Len(input.native) - d) |-> input.native[k].id], full)

\* With a faithful server, and spans of its own tokens, a searching run that
\* chooses a drop chooses the first exact one of the range, and an exhausted
\* range had none; V1 chooses the same.
ChoosesFirstExactDrop ==
  Searching /\ server \in FaithfulServers /\ OwnSpans =>
    /\ pc \in {"verify", "write_receipt", "passed"} =>
         ExactDrop(drop_tokens) /\ \A d \in 0..(drop_tokens - 1) : ~ExactDrop(d)
    /\ error = "exhausted" => \A d \in 0..options.max_drop_tokens : ~ExactDrop(d)
    /\ error # "not_verified"

\* "Fixed-drop acceptance is oracle-independent through the complete candidate
\* construction": once the oracle is known a fixed-drop candidate is final.
FixedDropIgnoresOracle ==
  [][~Searching /\ ids' # ids => oracle_ids = <<>> /\ oracle_ids' = <<>>]_vars

\* A run implements the promise of a fixture: no receipt without verification.
Promise == INSTANCE VerifiedRepair
             WITH outcome <- IF pc \in {"passed", "failed"} THEN pc ELSE "running"
Refines == Promise!Spec

\* Every run ends, with a fixed drop or in the search.
Terminates == <>(pc \in {"passed", "failed"})
=============================================================================
