----------------------------- MODULE DirectIdV1 -----------------------------
(***************************************************************************)
(* nereids-direct-id-repair-fixture: search_exact_repair of                *)
(* src/direct_id.rs driven by run of the binary.  The snapshot's native    *)
(* IDs are kept but for the last drop_tokens, the bytes behind the kept    *)
(* ones are tokenized again together with the delta, and the first splice  *)
(* that equals the full tokenization is verified and reported.             *)
(*                                                                         *)
(* V1 learns where the kept IDs end by asking the server to decode them.   *)
(* One action per call to the server and per local step between two calls. *)
(***************************************************************************)
EXTENDS DirectId

CONSTANT Inputs  \* [prefix, delta, max_drop_tokens, server]: what a run is given

\* UTF-8 is a prefix code: text cut in two starts with text exactly when it
\* continues with text.
ASSUME InputsAssumption ==
  /\ Inputs \subseteq [prefix : Bytes, delta : Bytes, max_drop_tokens : Nat, server : Servers]
  /\ \A i \in Inputs :
       LET all == i.prefix \o i.delta
       IN  \A k \in 0..Len(all) :
             IsText(all) => (IsText(Slice(all, 0, k)) <=> IsText(Slice(all, k, Len(all))))

\* A faithful server is faithful on every text a run may put to it.
ASSUME FaithfulAssumption ==
  \A i \in Inputs :
    i.server \in FaithfulServers =>
      LET all == i.prefix \o i.delta
      IN  /\ FaithfulOn(i.server, i.prefix)
          /\ \A k \in 0..Len(i.prefix) : FaithfulOn(i.server, Slice(all, k, Len(all)))

VARIABLES prefix, delta, max_drop_tokens, server,
          pc,
          prefix_ids,   \* the snapshot: the prefix's native IDs
          oracle_ids,   \* the full tokenization
          drop_tokens,  \* how many snapshot IDs the current trial drops
          kept_bytes,   \* what the kept IDs decode to
          ids,          \* the candidate: kept IDs and repair IDs
          trials,
          decoded,      \* what the chosen candidate decodes to
          receipt,      \* the receipt file
          error

args == <<prefix, delta, max_drop_tokens, server>>
answers == <<prefix_ids, oracle_ids, decoded>>
search == <<drop_tokens, kept_bytes, ids, trials>>
vars == <<args, pc, answers, search, receipt, error>>

full == prefix \o delta

Init ==
  /\ \E i \in Inputs : /\ prefix = i.prefix
                       /\ delta = i.delta
                       /\ max_drop_tokens = i.max_drop_tokens
                       /\ server = i.server
  /\ pc = "start"
  /\ prefix_ids = <<>> /\ oracle_ids = <<>> /\ decoded = <<>>
  /\ drop_tokens = 0 /\ kept_bytes = <<>> /\ ids = <<>> /\ trials = <<>>
  /\ receipt \in FoundReceipts
  /\ error = "none"

\* Mutated: the reason is lost.
FailUnnamed(reason) == pc' = "failed" /\ UNCHANGED error

Fail(reason) == pc' = "failed" /\ error' = reason

\* Reading a file may fail, and the prefix must not be empty.
Start ==
  /\ pc = "start"
  /\ \/ Fail("load")
     \/ prefix = <<>> /\ Fail("empty_prefix")
     \/ prefix # <<>> /\ pc' = "tokenize_prefix" /\ UNCHANGED error
  /\ UNCHANGED <<args, answers, search, receipt>>

TokenizePrefix ==
  /\ pc = "tokenize_prefix"
  /\ prefix_ids' \in Tokenize(server, prefix)
  /\ pc' = "tokenize_oracle"
  /\ UNCHANGED <<args, oracle_ids, decoded, search, receipt, error>>

TokenizeOracle ==
  /\ pc = "tokenize_oracle"
  /\ oracle_ids' \in Tokenize(server, full)
  /\ pc' = "next_drop"
  /\ UNCHANGED <<args, prefix_ids, decoded, search, receipt, error>>

\* Mutated: a rejected drop leaves no trial.
RejectSilently(reason) ==
  /\ drop_tokens' = drop_tokens + 1
  /\ pc' = "next_drop"
  /\ UNCHANGED <<trials, kept_bytes, ids, error>>

\* The search records a rejected drop and goes on with the next one.
Reject(reason) ==
  /\ trials' = Append(trials, Rejected(drop_tokens, reason))
  /\ drop_tokens' = drop_tokens + 1
  /\ pc' = "next_drop"
  /\ UNCHANGED <<kept_bytes, ids, error>>

\* Mutated: the range of drops excludes its upper end.
ExhaustedEarly == drop_tokens >= max_drop_tokens

Exhausted == drop_tokens > max_drop_tokens

NextDrop ==
  /\ pc = "next_drop"
  /\ \/ Exhausted /\ Fail("exhausted") /\ UNCHANGED search
     \/ ~Exhausted /\ drop_tokens > Len(prefix_ids) /\ Reject("drop_exceeds_prefix")
     \/ /\ ~Exhausted /\ drop_tokens <= Len(prefix_ids)
        /\ pc' = "detokenize_kept"
        /\ UNCHANGED <<search, error>>
  /\ UNCHANGED <<args, answers, receipt>>

kept_ids == SubSeq(prefix_ids, 1, Len(prefix_ids) - drop_tokens)

IsPrefixOf(a, b) == Len(a) <= Len(b) /\ Slice(b, 0, Len(a)) = a

\* Mutated: the snapshot need not retain any bytes.
DetokenizeKeptUnchecked ==
  /\ pc = "detokenize_kept"
  /\ \E bytes \in Detokenize(server, kept_ids) :
       \/ ~IsPrefixOf(bytes, prefix) /\ Reject("kept_bytes_not_prefix")
       \/ /\ IsPrefixOf(bytes, prefix)
          /\ kept_bytes' = bytes
          /\ pc' = "tokenize_window"
          /\ UNCHANGED <<drop_tokens, ids, trials, error>>
  /\ UNCHANGED <<args, answers, receipt>>

DetokenizeKept ==
  /\ pc = "detokenize_kept"
  /\ \E bytes \in Detokenize(server, kept_ids) :
       \/ ~IsPrefixOf(bytes, prefix) /\ Reject("kept_bytes_not_prefix")
       \/ bytes = <<>> /\ Reject("full_window_forbidden")
       \/ /\ IsPrefixOf(bytes, prefix)
          /\ bytes # <<>>
          /\ kept_bytes' = bytes
          /\ pc' = "tokenize_window"
          /\ UNCHANGED <<drop_tokens, ids, trials, error>>
  /\ UNCHANGED <<args, answers, receipt>>

repair_window == Slice(full, Len(kept_bytes), Len(full))

\* Splice and compare: the oracle is looked at only once the IDs are there.
TokenizeWindow ==
  /\ pc = "tokenize_window"
  /\ \E repair_ids \in Tokenize(server, repair_window) :
       /\ ids' = kept_ids \o repair_ids
       /\ trials' = Append(trials, Compared(drop_tokens, repair_window, ids' = oracle_ids))
       /\ \/ ids' = oracle_ids /\ pc' = "verify" /\ UNCHANGED drop_tokens
          \/ ids' # oracle_ids /\ pc' = "next_drop" /\ drop_tokens' = drop_tokens + 1
  /\ UNCHANGED <<args, answers, kept_bytes, receipt, error>>

\* Mutated: the decoding is obtained but not compared.
VerifyIdsOnly ==
  /\ pc = "verify"
  /\ decoded' \in Detokenize(server, ids)
  /\ IF ids = oracle_ids THEN pc' = "write_receipt" /\ UNCHANGED error ELSE Fail("not_verified")
  /\ UNCHANGED <<args, prefix_ids, oracle_ids, search, receipt>>

\* verify_candidate: decode the candidate and check it once more.
VerifyCandidate ==
  /\ pc = "verify"
  /\ decoded' \in Detokenize(server, ids)
  /\ IF kept_bytes # <<>> /\ ids = oracle_ids /\ decoded' = full
     THEN pc' = "write_receipt" /\ UNCHANGED error
     ELSE Fail("not_verified")
  /\ UNCHANGED <<args, prefix_ids, oracle_ids, search, receipt>>

\* fs::write can fail before or after it has truncated the file.
WriteReceipt ==
  /\ pc = "write_receipt"
  /\ \/ /\ receipt' = [file |-> "complete", ids |-> ids,
                       repair_window_bytes |-> Len(repair_window),
                       minimum_exact_drop_tokens |-> drop_tokens, trials |-> trials]
        /\ pc' = "passed"
        /\ UNCHANGED error
     \/ receipt' \in {receipt, TruncatedReceipt} /\ Fail("write_receipt")
  /\ UNCHANGED <<args, answers, search>>

\* Mutated: a call is repeated until it is answered.
CallRetries ==
  /\ pc \in {"tokenize_prefix", "tokenize_oracle", "detokenize_kept", "tokenize_window",
             "verify"}
  /\ UNCHANGED vars

\* A call that cannot be made or is not answered ends the run: at the top it
\* is an error of run, in the search a callback error.
CallFails ==
  /\ pc \in {"tokenize_prefix", "tokenize_oracle", "detokenize_kept", "tokenize_window",
             "verify"}
  /\ Fail(IF \/ pc = "tokenize_prefix" /\ ~IsText(prefix)
             \/ pc = "tokenize_oracle" /\ ~IsText(full)
             \/ pc = "tokenize_window" /\ ~IsText(repair_window)
          THEN "not_text" ELSE "server")
  /\ UNCHANGED <<args, answers, search, receipt>>

Next == \/ Start \/ TokenizePrefix \/ TokenizeOracle
        \/ NextDrop \/ DetokenizeKept \/ TokenizeWindow
        \/ VerifyCandidate \/ WriteReceipt \/ CallFails

Terminated == pc \in {"passed", "failed"} /\ UNCHANGED vars

\* One thread; a call to the server is assumed to end, with or without answer.
Spec == Init /\ [][Next \/ Terminated]_vars /\ WF_vars(Next)
-----------------------------------------------------------------------------
TypeOK ==
  /\ [prefix |-> prefix, delta |-> delta, max_drop_tokens |-> max_drop_tokens,
      server |-> server] \in Inputs
  /\ pc \in {"start", "tokenize_prefix", "tokenize_oracle", "next_drop",
             "detokenize_kept", "tokenize_window", "verify", "write_receipt",
             "passed", "failed"}
  /\ prefix_ids \in Ids /\ oracle_ids \in Ids /\ ids \in Ids
  /\ kept_bytes \in Bytes /\ decoded \in Bytes
  /\ drop_tokens \in 0..(max_drop_tokens + 1)
  /\ trials \in Seq(RepairTrial)
  /\ receipt.file \in {"absent", "older", "truncated", "complete"}
  /\ error \in {"none", "load", "empty_prefix", "not_text", "server", "exhausted", "not_verified",
                "write_receipt"}
  /\ (error = "none") = (pc # "failed")

\* The candidate path never tokenizes prefix || delta: whatever the server
\* answered, a repair window is a proper suffix of it, and it is text, so that
\* no trial can abort the search by asking for an impossible tokenization.
WindowIsProperText ==
  pc = "tokenize_window" =>
    /\ kept_bytes # <<>> /\ IsPrefixOf(kept_bytes, prefix)
    /\ Len(repair_window) < Len(full)
    /\ IsText(repair_window)

\* A complete receipt lists one trial per drop from 0 to the one it calls the
\* minimum exact one, and of these only the last was exact; an exhausted search
\* has tried every drop of the inclusive range and found none exact.
ReceiptAccountsForDrops ==
  /\ \A i \in 1..Len(trials) : trials[i].drop_tokens = i - 1
  /\ receipt.file = "complete" =>
       LET last == receipt.minimum_exact_drop_tokens + 1
       IN  /\ Len(receipt.trials) = last
           /\ \A i \in 1..last : receipt.trials[i].ids_exact = (i = last)
           /\ receipt.trials[last].repair_window_bytes = receipt.repair_window_bytes
  /\ error = "exhausted" =>
       /\ Len(trials) = max_drop_tokens + 1
       /\ \A i \in 1..Len(trials) : ~trials[i].ids_exact

ExactDrop(d) ==
  d < Len(prefix_ids) /\ ExactSplice(server, SubSeq(prefix_ids, 1, Len(prefix_ids) - d), full)

\* With a faithful server the search returns the first exact drop of the range
\* 0..max_drop_tokens, and gives up only if the range has none; nothing but a
\* missing answer, or files that are not text, ends it otherwise.
SelectsFirstExactDrop ==
  server \in FaithfulServers =>
    /\ pc \in {"verify", "write_receipt", "passed"} =>
         ExactDrop(drop_tokens) /\ \A d \in 0..(drop_tokens - 1) : ~ExactDrop(d)
    /\ error = "exhausted" => \A d \in 0..max_drop_tokens : ~ExactDrop(d)
    /\ error = "not_text" => prefix_ids = <<>> \/ oracle_ids = <<>>
    /\ error # "not_verified"

\* A run implements the promise of a fixture: no receipt without verification.
Promise == INSTANCE VerifiedRepair
             WITH outcome <- IF pc \in {"passed", "failed"} THEN pc ELSE "running"
Refines == Promise!Spec

\* Every run ends, however large the drop range.
Terminates == <>(pc \in {"passed", "failed"})
=============================================================================
