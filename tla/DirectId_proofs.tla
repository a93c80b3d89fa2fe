---------------------------- MODULE DirectId_proofs ----------------------------
(***************************************************************************)
(* Proofs about the fixtures V1 and V0.                                    *)
(*                                                                         *)
(* DirectIdV1, for every prefix, delta and drop range and for every        *)
(* server, faithful or not: the window put to the server is always a       *)
(* proper suffix of the input and always text, and a run implements        *)
(* VerifiedRepair.  The invariant follows three facts from the call that   *)
(* establishes them to the step that relies on them: the whole input is    *)
(* text (the oracle was tokenized), the kept bytes are a nonempty text     *)
(* prefix of the snapshot (DetokenizeKept let them through), and from      *)
(* "verify" on the candidate is the oracle.  For a server that answers     *)
(* every call from one model, SelectInv adds that no drop gone past is     *)
(* exact: a trial is exact when the splice of the model's own pieces is,   *)
(* because the lengths of the two fix where the kept bytes end.            *)
(*                                                                         *)
(* DirectIdV0, for every fixture, server and place at which a reply is cut *)
(* off: of a reply only the marks of its value have their kinds, so what   *)
(* is found between them is the whole value, or nothing is found; what is  *)
(* recorded is an answer, and the receipt and the exit code agree.         *)
(***************************************************************************)
EXTENDS DirectIdV0, DirectIdV1, SpanLemmas

Searching == {"next_drop", "detokenize_kept", "tokenize_window"}
Chosen == {"verify", "write_receipt"}

InputIsText == pc \in Searching \cup Chosen => IsText(full)

KeptIsProper ==
  pc \in {"tokenize_window"} \cup Chosen =>
    kept_bytes # <<>> /\ IsPrefixOf(kept_bytes, prefix) /\ IsText(kept_bytes)

ChosenIsOracle ==
  /\ pc \in Chosen => ids = oracle_ids
  /\ pc = "write_receipt" => decoded = full

NotYetWritten == pc \notin {"passed", "failed"} => receipt \in FoundReceipts

DropInRange ==
  pc \in {"detokenize_kept", "tokenize_window"} =>
    drop_tokens <= max_drop_tokens /\ drop_tokens <= Len(prefix_ids)

IInv == TypeOK /\ DropInRange /\ InputIsText /\ KeptIsProper /\ ChosenIsOracle /\ NotYetWritten
-----------------------------------------------------------------------------
\* The arguments of a run are byte strings and a number.
LEMMA ArgFacts ==
  ASSUME TypeOK
  PROVE  /\ prefix \in Bytes /\ delta \in Bytes /\ max_drop_tokens \in Nat
         /\ full \in Bytes /\ Len(full) = Len(prefix) + Len(delta)
         /\ \A k \in 0..Len(full) :
              IsText(full) => (IsText(Slice(full, 0, k)) <=> IsText(Slice(full, k, Len(full))))
<1> DEFINE i == [prefix |-> prefix, delta |-> delta, max_drop_tokens |-> max_drop_tokens,
                 server |-> server]
<1>1. i \in Inputs /\ i.prefix = prefix /\ i.delta = delta /\ i.max_drop_tokens = max_drop_tokens
  BY DEF TypeOK
<1> HIDE DEF i
<1>2. prefix \in Bytes /\ delta \in Bytes /\ max_drop_tokens \in Nat
  BY <1>1, InputsAssumption
<1>3. \A k \in 0..Len(full) :
        IsText(full) => (IsText(Slice(full, 0, k)) <=> IsText(Slice(full, k, Len(full))))
  BY <1>1, InputsAssumption DEF full
<1> QED
  BY <1>2, <1>3 DEF full, Bytes

\* What precedes a position inside the prefix does not depend on the delta.
LEMMA SliceOfPrefix ==
  ASSUME NEW a \in Bytes, NEW b \in Bytes, NEW k \in 0..Len(a)
  PROVE  Slice(a \o b, 0, k) = Slice(a, 0, k)
BY DEF Slice, Bytes

\* The front of a sequence has the elements' type.
LEMMA FrontTyped ==
  ASSUME NEW S, NEW s \in Seq(S), NEW n \in 0..Len(s)
  PROVE  SubSeq(s, 1, n) \in Seq(S)
OBVIOUS

\* A proper, nonempty text prefix of a text leaves a shorter text.
LEMMA WindowFacts ==
  ASSUME TypeOK, IsText(full), IsText(kept_bytes), kept_bytes # <<>>,
         IsPrefixOf(kept_bytes, prefix)
  PROVE  /\ IsText(repair_window)
         /\ Len(repair_window) < Len(full)
         /\ Len(repair_window) >= Len(delta)
<1>1. kept_bytes \in Bytes /\ Len(kept_bytes) \in 1..Len(prefix)
  BY ArgFacts DEF TypeOK, IsPrefixOf, Bytes
<1>2. Slice(full, 0, Len(kept_bytes)) = kept_bytes
  BY <1>1, ArgFacts, SliceOfPrefix DEF IsPrefixOf, full
<1>3. IsText(repair_window)
  BY <1>1, <1>2, ArgFacts DEF repair_window, Bytes
<1>4. Len(repair_window) = Len(full) - Len(kept_bytes)
  BY <1>1, ArgFacts DEF repair_window, Slice, Bytes
<1> QED
  BY <1>1, <1>3, <1>4, ArgFacts, SMTT(30) DEF Bytes
-----------------------------------------------------------------------------
\* The first state satisfies the invariant.
LEMMA InitInvariant == Init => IInv
<1> SUFFICES ASSUME Init PROVE IInv
  OBVIOUS
<1>1. PICK i \in Inputs : /\ prefix = i.prefix
                         /\ delta = i.delta
                         /\ max_drop_tokens = i.max_drop_tokens
                         /\ server = i.server
  BY DEF Init
<1>2. [prefix |-> prefix, delta |-> delta, max_drop_tokens |-> max_drop_tokens,
       server |-> server] = i
      /\ max_drop_tokens \in Nat
  BY <1>1, InputsAssumption
<1>3. TypeOK
  BY <1>2 DEF Init, TypeOK, Ids, Bytes, FoundReceipts, NoReceipt, OlderReceipt
<1> QED
  BY <1>3 DEF Init, IInv, DropInRange, InputIsText, KeptIsProper, ChosenIsOracle, NotYetWritten, Searching,
     Chosen

\* A trial in the range of drops keeps the search's variables typed.
LEMMA RejectTyped ==
  ASSUME TypeOK, drop_tokens <= max_drop_tokens, NEW reason \in Rejection, Reject(reason)
  PROVE  /\ trials' \in Seq(RepairTrial) /\ drop_tokens' \in 0..(max_drop_tokens + 1)
         /\ pc' = "next_drop" /\ UNCHANGED <<kept_bytes, ids, error>>
<1>1. drop_tokens \in Nat
  BY DEF TypeOK
<1>2. Rejected(drop_tokens, reason) \in RepairTrial
  BY <1>1 DEF Rejected, RepairTrial
<1>3. trials' \in Seq(RepairTrial)
  BY <1>2 DEF Reject, TypeOK
<1>4. drop_tokens' \in 0..(max_drop_tokens + 1)
  BY <1>1, ArgFacts DEF Reject
<1> QED
  BY <1>3, <1>4 DEF Reject

\* Every step of the run preserves it.
LEMMA NextInvariant == IInv /\ [Next \/ Terminated]_vars => IInv'
<1> SUFFICES ASSUME IInv, [Next \/ Terminated]_vars PROVE IInv'
  OBVIOUS
<1>1. TypeOK
  BY DEF IInv
<1> USE <1>1 DEF Searching, Chosen
<1>2. CASE Start
  BY <1>2 DEF Start, Fail, args, answers, search, IInv, TypeOK, DropInRange, InputIsText, KeptIsProper,
     ChosenIsOracle, NotYetWritten
<1>3. CASE TokenizePrefix
  BY <1>3 DEF TokenizePrefix, Tokenize, args, search, IInv, TypeOK, DropInRange, InputIsText, KeptIsProper,
     ChosenIsOracle, NotYetWritten
<1>4. CASE TokenizeOracle
  BY <1>4 DEF TokenizeOracle, Tokenize, args, search, full, IInv, TypeOK, DropInRange, InputIsText,
     KeptIsProper, ChosenIsOracle, NotYetWritten
<1>5. CASE NextDrop
  <2>1. pc = "next_drop" /\ UNCHANGED <<args, answers, receipt>>
    BY <1>5 DEF NextDrop
  <2>2. CASE drop_tokens <= max_drop_tokens /\ Reject("drop_exceeds_prefix")
    <3>1. /\ trials' \in Seq(RepairTrial) /\ drop_tokens' \in 0..(max_drop_tokens + 1)
          /\ pc' = "next_drop" /\ UNCHANGED <<kept_bytes, ids, error>>
      BY <2>2, RejectTyped DEF Rejection
    <3> QED
      BY <2>1, <3>1 DEF args, answers, full, IInv, TypeOK, DropInRange, InputIsText,
         KeptIsProper, ChosenIsOracle, NotYetWritten
  <2>3. CASE ~(drop_tokens <= max_drop_tokens /\ Reject("drop_exceeds_prefix"))
    <3>0. drop_tokens \in Nat /\ max_drop_tokens \in Nat /\ Len(prefix_ids) \in Nat
      BY ArgFacts DEF TypeOK, Ids
    <3>1. \/ Fail("exhausted") /\ UNCHANGED search
          \/ /\ drop_tokens <= max_drop_tokens
             /\ drop_tokens <= Len(prefix_ids)
             /\ pc' = "detokenize_kept"
             /\ UNCHANGED <<search, error>>
      BY <1>5, <2>3, <3>0 DEF NextDrop, Exhausted
    <3> QED
      BY <2>1, <3>1 DEF Fail, args, answers, search, full, IInv, TypeOK, DropInRange,
         InputIsText, KeptIsProper, ChosenIsOracle, NotYetWritten
  <2> QED
    BY <2>2, <2>3
<1>6. CASE DetokenizeKept
  <2>1. PICK bytes \in Detokenize(server, kept_ids) :
          \/ ~IsPrefixOf(bytes, prefix) /\ Reject("kept_bytes_not_prefix")
          \/ bytes = <<>> /\ Reject("full_window_forbidden")
          \/ /\ IsPrefixOf(bytes, prefix)
             /\ bytes # <<>>
             /\ kept_bytes' = bytes
             /\ pc' = "tokenize_window"
             /\ UNCHANGED <<drop_tokens, ids, trials, error>>
    BY <1>6 DEF DetokenizeKept
  <2>2. bytes \in Bytes /\ IsText(bytes)
    BY DEF Detokenize
  <2>3. /\ UNCHANGED <<args, answers, receipt>> /\ pc = "detokenize_kept"
    BY <1>6 DEF DetokenizeKept
  <2>4. CASE Reject("kept_bytes_not_prefix") \/ Reject("full_window_forbidden")
    <3>1. drop_tokens <= max_drop_tokens
      BY <2>3 DEF IInv, DropInRange
    <3>2. /\ trials' \in Seq(RepairTrial) /\ drop_tokens' \in 0..(max_drop_tokens + 1)
          /\ pc' = "next_drop" /\ UNCHANGED <<kept_bytes, ids, error>>
      BY <2>4, <3>1, RejectTyped DEF Rejection
    <3> QED
      BY <2>3, <3>2 DEF args, answers, full, IInv, TypeOK, DropInRange, InputIsText,
         KeptIsProper, ChosenIsOracle, NotYetWritten
  <2>5. CASE /\ IsPrefixOf(bytes, prefix)
             /\ bytes # <<>>
             /\ kept_bytes' = bytes
             /\ pc' = "tokenize_window"
             /\ UNCHANGED <<drop_tokens, ids, trials, error>>
    BY <2>2, <2>3, <2>5 DEF args, answers, full, IInv, TypeOK, DropInRange, InputIsText, KeptIsProper,
       ChosenIsOracle, NotYetWritten
  <2> QED
    BY <2>1, <2>4, <2>5
<1>7. CASE TokenizeWindow
  <2>1. PICK repair_ids \in Tokenize(server, repair_window) :
          /\ ids' = kept_ids \o repair_ids
          /\ trials' = Append(trials, Compared(drop_tokens, repair_window, ids' = oracle_ids))
          /\ \/ ids' = oracle_ids /\ pc' = "verify" /\ UNCHANGED drop_tokens
             \/ ids' # oracle_ids /\ pc' = "next_drop" /\ drop_tokens' = drop_tokens + 1
    BY <1>7 DEF TokenizeWindow
  <2>2. /\ UNCHANGED <<args, answers, kept_bytes, receipt, error>> /\ pc = "tokenize_window"
        /\ drop_tokens \in Nat /\ drop_tokens <= max_drop_tokens
        /\ drop_tokens <= Len(prefix_ids)
    BY <1>7 DEF TokenizeWindow, IInv, TypeOK, DropInRange
  <2>3. ids' \in Ids
    <3>1. kept_ids \in Ids
      <4>1. prefix_ids \in Seq(0..MaxId)
        BY DEF TypeOK, Ids
      <4>2. Len(prefix_ids) - drop_tokens \in 0..Len(prefix_ids)
        BY <2>2, <4>1
      <4> QED
        BY <4>1, <4>2, FrontTyped DEF kept_ids, Ids
    <3>2. repair_ids \in Ids
      BY <2>1 DEF Tokenize
    <3> QED
      BY <2>1, <3>1, <3>2 DEF Ids
  <2>4. trials' \in Seq(RepairTrial)
    <3>1. Len(repair_window) \in Nat
      BY ArgFacts, WindowFacts, <2>2 DEF IInv, InputIsText, KeptIsProper, repair_window, Slice,
         Bytes
    <3>2. (ids' = oracle_ids) \in BOOLEAN
      OBVIOUS
    <3>3. Compared(drop_tokens, repair_window, ids' = oracle_ids) \in RepairTrial
      BY <2>2, <3>1, <3>2 DEF Compared, RepairTrial
    <3> QED
      BY <2>1, <3>3 DEF TypeOK
  <2>5. drop_tokens' \in 0..(max_drop_tokens + 1)
    BY <2>1, <2>2, ArgFacts
  <2> QED
    BY <2>1, <2>2, <2>3, <2>4, <2>5 DEF args, answers, full, IInv, TypeOK, DropInRange,
       InputIsText, KeptIsProper, ChosenIsOracle, NotYetWritten
<1>8. CASE VerifyCandidate
  BY <1>8 DEF VerifyCandidate, Detokenize, Fail, args, search, full, IInv, TypeOK,
     DropInRange, InputIsText, KeptIsProper, ChosenIsOracle, NotYetWritten
<1>9. CASE WriteReceipt
  BY <1>9 DEF WriteReceipt, TruncatedReceipt, Fail, args, answers, search, full, IInv,
     TypeOK, DropInRange, InputIsText, KeptIsProper, ChosenIsOracle, NotYetWritten
<1>10. CASE CallFails
  BY <1>10 DEF CallFails, Fail, args, answers, search, full, IInv, TypeOK,
     DropInRange, InputIsText, KeptIsProper, ChosenIsOracle, NotYetWritten
<1>11. CASE UNCHANGED vars
  BY <1>11 DEF vars, args, answers, search, full, IInv, TypeOK, DropInRange, InputIsText, KeptIsProper,
     ChosenIsOracle, NotYetWritten
<1> QED
  BY <1>2, <1>3, <1>4, <1>5, <1>6, <1>7, <1>8, <1>9, <1>10, <1>11 DEF Next, Terminated
-----------------------------------------------------------------------------
\* The invariant holds in every reachable state.
LEMMA Invariant == Spec => []IInv
BY InitInvariant, NextInvariant, PTL DEF Spec

\* The variables keep their types, whatever the server answers.
THEOREM TypeCorrect == Spec => []TypeOK
<1>1. IInv => TypeOK
  BY DEF IInv
<1> QED
  BY <1>1, Invariant, PTL

\* Every window put to the server in the search is a proper suffix of the input
\* and is text: V1 never tokenizes prefix || delta to build a candidate, and no
\* drop can abort the search by cutting a character in two.
THEOREM WindowsAreProperText == Spec => []WindowIsProperText
<1>1. IInv => WindowIsProperText
  BY WindowFacts DEF IInv, InputIsText, KeptIsProper, WindowIsProperText, Searching
<1> QED
  BY <1>1, Invariant, PTL

\* A run implements VerifiedRepair: it passes, and leaves a complete receipt,
\* only for a candidate that equals the oracle, decodes to prefix || delta and
\* was built from a window smaller than that.
THEOREM RepairIsVerified == Spec => Refines
<1>1. Init => Promise!Init
  BY DEF Init, Promise!Init, FoundReceipts, NoReceipt, OlderReceipt
<1>2. IInv /\ [Next \/ Terminated]_vars => [Promise!Next]_(Promise!absVars)
  <2> SUFFICES ASSUME IInv, [Next \/ Terminated]_vars
               PROVE  [Promise!Next]_(Promise!absVars)
    OBVIOUS
  <2>1. ASSUME pc \notin {"passed", "failed"}, pc' \notin {"passed", "failed"},
               UNCHANGED <<args, receipt>>
        PROVE  Promise!Work
    BY <2>1 DEF args, Promise!Work
  <2>2. ASSUME pc \notin {"passed", "failed"}, pc' = "failed", UNCHANGED args,
               receipt' \in {receipt, TruncatedReceipt}
        PROVE  Promise!Fail
    BY <2>2 DEF args, TruncatedReceipt, Promise!Fail
  <2>3. CASE Start \/ TokenizePrefix \/ TokenizeOracle \/ NextDrop \/ VerifyCandidate \/ CallFails
    <3>1. /\ UNCHANGED <<args, receipt>> /\ pc \notin {"passed", "failed"}
          /\ pc' \notin {"passed", "failed"} \/ pc' = "failed"
      BY <2>3 DEF Start, TokenizePrefix, TokenizeOracle, NextDrop, VerifyCandidate, CallFails,
         Fail, Reject
    <3> QED
      BY <2>1, <2>2, <3>1 DEF Promise!Next
  <2>4. CASE DetokenizeKept \/ TokenizeWindow
    <3>1. /\ UNCHANGED <<args, receipt>> /\ pc \notin {"passed", "failed"}
          /\ pc' \notin {"passed", "failed"}
      BY <2>4 DEF DetokenizeKept, TokenizeWindow, Reject
    <3> QED
      BY <2>1, <3>1 DEF Promise!Next
  <2>5. CASE WriteReceipt
    <3>1. CASE receipt' \in {receipt, TruncatedReceipt} /\ Fail("write_receipt")
      BY <2>2, <2>5, <3>1 DEF WriteReceipt, Fail, Promise!Next
    <3>2. CASE ~(receipt' \in {receipt, TruncatedReceipt} /\ Fail("write_receipt"))
      <4>1. /\ pc = "write_receipt" /\ pc' = "passed" /\ UNCHANGED <<args, answers, search>>
            /\ receipt'.file = "complete" /\ receipt'.ids = ids
            /\ receipt'.repair_window_bytes = Len(repair_window)
        BY <2>5, <3>2 DEF WriteReceipt
      <4>2. ids = oracle_ids /\ decoded = full
        BY <4>1 DEF IInv, ChosenIsOracle, Chosen
      <4>3. /\ Len(repair_window) < Len(prefix) + Len(delta)
            /\ Len(repair_window) >= Len(delta)
        BY <4>1, WindowFacts, ArgFacts DEF IInv, InputIsText, KeptIsProper, Chosen
      <4> QED
        BY <4>1, <4>2, <4>3 DEF args, answers, search, full, Promise!Next, Promise!Pass,
           Promise!Verified
    <3> QED
      BY <3>1, <3>2
  <2>6. CASE UNCHANGED vars
    BY <2>6 DEF vars, args, answers, search, Promise!absVars
  <2> QED
    BY <2>3, <2>4, <2>5, <2>6 DEF Next, Terminated
<1> QED
  BY <1>1, <1>2, Invariant, PTL DEF Spec, Refines, Promise!Spec
-----------------------------------------------------------------------------
\* While the search goes on it has one trial for every drop before the current
\* one, none of them exact; the drop it ends with has the last, exact trial.
Accounts ==
  /\ \A i \in 1..Len(trials) : trials[i].drop_tokens = i - 1
  /\ pc \notin Chosen \cup {"passed", "failed"} =>
       Len(trials) = drop_tokens /\ \A i \in 1..Len(trials) : ~trials[i].ids_exact
  /\ pc \in Chosen =>
       LET last == drop_tokens + 1
       IN  /\ Len(trials) = last
           /\ \A i \in 1..last : trials[i].ids_exact = (i = last)
           /\ trials[last].repair_window_bytes = Len(repair_window)

AccountsInv == Accounts /\ ReceiptAccountsForDrops

\* A trial that is not exact is put behind the others.
LEMMA InexactAppended ==
  ASSUME TypeOK, Accounts, pc \notin Chosen \cup {"passed", "failed"},
         NEW trial \in RepairTrial, trial.drop_tokens = drop_tokens, ~trial.ids_exact,
         trials' = Append(trials, trial), drop_tokens' = drop_tokens + 1
  PROVE  /\ \A i \in 1..Len(trials') : trials'[i].drop_tokens = i - 1 /\ ~trials'[i].ids_exact
         /\ Len(trials') = drop_tokens'
<1>1. /\ trials \in Seq(RepairTrial) /\ Len(trials) = drop_tokens /\ Len(trials) \in Nat
      /\ \A i \in 1..Len(trials) : trials[i].drop_tokens = i - 1 /\ ~trials[i].ids_exact
  BY DEF Accounts, TypeOK
<1>2. /\ Len(trials') = Len(trials) + 1 /\ trials'[Len(trials) + 1] = trial
      /\ \A i \in 1..Len(trials) : trials'[i] = trials[i]
  BY <1>1
<1> QED
  BY <1>1, <1>2

\* The first state has no trial and no receipt of its own.
LEMMA InitAccounts == Init => AccountsInv
<1> SUFFICES ASSUME Init PROVE AccountsInv
  OBVIOUS
<1>1. /\ pc = "start" /\ trials = <<>> /\ drop_tokens = 0 /\ error = "none"
      /\ receipt.file # "complete"
  BY DEF Init, FoundReceipts, NoReceipt, OlderReceipt
<1> QED
  BY <1>1 DEF AccountsInv, Accounts, ReceiptAccountsForDrops, Chosen

\* A step outside of the search adds no trial.
LEMMA QuietAccounts ==
  ASSUME AccountsInv, UNCHANGED <<args, search, receipt>>,
         \/ UNCHANGED <<pc, error>>
         \/ /\ error' # "exhausted"
            /\ \/ pc' \in {"passed", "failed"}
               \/ pc \notin Chosen \cup {"passed", "failed"} /\ pc' \notin Chosen
               \/ pc \in Chosen /\ pc' \in Chosen
  PROVE  AccountsInv'
<1>1. UNCHANGED <<prefix, delta, max_drop_tokens, drop_tokens, kept_bytes, trials, receipt>>
      /\ repair_window' = repair_window
  BY DEF args, search, repair_window, full
<1>2. Accounts'
  BY <1>1 DEF AccountsInv, Accounts, Chosen
<1>3. ReceiptAccountsForDrops'
  BY <1>1 DEF AccountsInv, ReceiptAccountsForDrops
<1> QED
  BY <1>2, <1>3 DEF AccountsInv

\* A rejected drop has a trial.
LEMMA RejectAccounts ==
  ASSUME TypeOK, AccountsInv, pc \notin Chosen \cup {"passed", "failed"},
         error = "none", NEW reason \in Rejection, Reject(reason), UNCHANGED <<args, receipt>>
  PROVE  AccountsInv'
<1> DEFINE trial == Rejected(drop_tokens, reason)
<1>1. drop_tokens \in Nat
  BY DEF TypeOK
<1>2. trial \in RepairTrial /\ trial.drop_tokens = drop_tokens /\ ~trial.ids_exact
  BY <1>1 DEF Rejected, RepairTrial
<1>3. trials' = Append(trials, trial) /\ drop_tokens' = drop_tokens + 1
      /\ pc' = "next_drop" /\ UNCHANGED <<error, receipt>>
  BY DEF Reject
<1> HIDE DEF trial
<1>4. /\ \A i \in 1..Len(trials') : trials'[i].drop_tokens = i - 1 /\ ~trials'[i].ids_exact
      /\ Len(trials') = drop_tokens'
  BY <1>2, <1>3, InexactAppended DEF AccountsInv
<1> QED
  BY <1>3, <1>4 DEF AccountsInv, Accounts, ReceiptAccountsForDrops, Chosen

\* Every step accounts for the drops it has gone past.
LEMMA NextAccounts == IInv /\ AccountsInv /\ [Next \/ Terminated]_vars => AccountsInv'
<1> SUFFICES ASSUME IInv, AccountsInv, [Next \/ Terminated]_vars PROVE AccountsInv'
  OBVIOUS
<1>1. TypeOK
  BY DEF IInv
<1>2. CASE Start \/ TokenizePrefix \/ TokenizeOracle \/ VerifyCandidate \/ CallFails
  <2>1. UNCHANGED <<args, search, receipt>> /\ error' # "exhausted"
    BY <1>1, <1>2 DEF Start, TokenizePrefix, TokenizeOracle, VerifyCandidate, CallFails, Fail,
       TypeOK
  <2>2. \/ pc' = "failed"
        \/ pc \notin Chosen \cup {"passed", "failed"} /\ pc' \notin Chosen
        \/ pc \in Chosen /\ pc' \in Chosen
    BY <1>2 DEF Start, TokenizePrefix, TokenizeOracle, VerifyCandidate, CallFails, Fail, Chosen
  <2> QED
    BY <2>1, <2>2, QuietAccounts
<1>3. CASE NextDrop
  <2>1. pc = "next_drop" /\ error = "none" /\ UNCHANGED <<args, receipt>>
    BY <1>1, <1>3 DEF NextDrop, TypeOK
  <2>2. CASE Exhausted /\ Fail("exhausted") /\ UNCHANGED search
    <3>1. /\ UNCHANGED <<max_drop_tokens, drop_tokens, trials, receipt>>
          /\ drop_tokens \in 0..(max_drop_tokens + 1) /\ max_drop_tokens \in Nat
          /\ drop_tokens > max_drop_tokens
          /\ pc' = "failed"
      BY <1>1, <2>1, <2>2, ArgFacts DEF args, search, Fail, Exhausted, TypeOK
    <3>2. drop_tokens = max_drop_tokens + 1
      BY <3>1
    <3>3. Accounts'
      BY <3>1 DEF AccountsInv, Accounts, Chosen
    <3>4. ReceiptAccountsForDrops'
      BY <2>1, <3>1, <3>2 DEF AccountsInv, Accounts, ReceiptAccountsForDrops, Chosen
    <3> QED
      BY <3>3, <3>4 DEF AccountsInv
  <2>3. CASE Reject("drop_exceeds_prefix")
    BY <1>1, <2>1, <2>3, RejectAccounts DEF Rejection, Chosen
  <2>4. CASE pc' = "detokenize_kept" /\ UNCHANGED <<search, error>>
    BY <1>1, <2>1, <2>4, QuietAccounts DEF Chosen
  <2> QED
    BY <1>3, <2>2, <2>3, <2>4 DEF NextDrop
<1>4. CASE DetokenizeKept
  <2>1. /\ pc = "detokenize_kept" /\ error = "none" /\ UNCHANGED <<args, receipt>>
        /\ \/ Reject("kept_bytes_not_prefix")
           \/ Reject("full_window_forbidden")
           \/ pc' = "tokenize_window" /\ UNCHANGED <<drop_tokens, trials, error>>
    BY <1>1, <1>4 DEF DetokenizeKept, TypeOK
  <2>2. CASE Reject("kept_bytes_not_prefix") \/ Reject("full_window_forbidden")
    BY <1>1, <2>1, <2>2, RejectAccounts DEF Rejection, Chosen
  <2>3. CASE pc' = "tokenize_window" /\ UNCHANGED <<drop_tokens, trials, error>>
    <3>1. max_drop_tokens' = max_drop_tokens
      BY <2>1 DEF args
    <3> QED
      BY <2>1, <2>3, <3>1 DEF AccountsInv, Accounts, ReceiptAccountsForDrops, Chosen
  <2> QED
    BY <2>1, <2>2, <2>3
<1>5. CASE TokenizeWindow
  <2> DEFINE exact == ids' = oracle_ids
             trial == Compared(drop_tokens, repair_window, exact)
  <2>1. /\ pc = "tokenize_window" /\ error = "none"
        /\ UNCHANGED <<args, kept_bytes, receipt, error>>
        /\ trials' = Append(trials, trial)
        /\ \/ exact /\ pc' = "verify" /\ UNCHANGED drop_tokens
           \/ ~exact /\ pc' = "next_drop" /\ drop_tokens' = drop_tokens + 1
    BY <1>1, <1>5 DEF TokenizeWindow, TypeOK
  <2>2. drop_tokens \in Nat /\ Len(repair_window) \in Nat /\ exact \in BOOLEAN
    BY <1>1, <2>1, ArgFacts, WindowFacts DEF IInv, InputIsText, KeptIsProper, Searching, TypeOK,
       repair_window, Slice, Bytes
  <2>3. /\ trial \in RepairTrial /\ trial.drop_tokens = drop_tokens /\ trial.ids_exact = exact
        /\ trial.repair_window_bytes = Len(repair_window)
    BY <2>2 DEF Compared, RepairTrial
  <2>4. max_drop_tokens' = max_drop_tokens /\ repair_window' = repair_window
    BY <2>1 DEF args, repair_window, full
  <2> HIDE DEF trial
  <2>5. CASE exact
    <3>1. /\ trials \in Seq(RepairTrial) /\ Len(trials) = drop_tokens /\ Len(trials) \in Nat
          /\ \A i \in 1..Len(trials) : trials[i].drop_tokens = i - 1 /\ ~trials[i].ids_exact
      BY <1>1, <2>1 DEF AccountsInv, Accounts, Chosen, TypeOK
    <3>2. /\ Len(trials') = drop_tokens + 1 /\ trials'[drop_tokens + 1] = trial
          /\ \A i \in 1..drop_tokens : trials'[i] = trials[i]
      BY <2>1, <2>3, <3>1
    <3>3. \A i \in 1..(drop_tokens + 1) : trials'[i].ids_exact \in BOOLEAN
      <4>1. trials' \in Seq(RepairTrial)
        BY <2>1, <2>3, <3>1
      <4>2. \A i \in 1..(drop_tokens + 1) : trials'[i] \in RepairTrial
        BY <3>2, <4>1
      <4> QED
        BY <4>2 DEF RepairTrial
    <3>4. \A i \in 1..(drop_tokens + 1) :
            /\ trials'[i].drop_tokens = i - 1
            /\ trials'[i].ids_exact <=> i = drop_tokens + 1
      <4> SUFFICES ASSUME NEW i \in 1..(drop_tokens + 1)
                   PROVE  /\ trials'[i].drop_tokens = i - 1
                          /\ trials'[i].ids_exact <=> i = drop_tokens + 1
        OBVIOUS
      <4>1. CASE i = drop_tokens + 1
        <5>1. trials'[i] = trial /\ i - 1 = drop_tokens
          BY <2>2, <3>2, <4>1
        <5>2. trial.drop_tokens = drop_tokens /\ trial.ids_exact
          BY <2>3, <2>5
        <5> QED
          BY <4>1, <5>1, <5>2
      <4>2. CASE i # drop_tokens + 1
        <5>1. i \in 1..drop_tokens /\ i \in 1..Len(trials)
          BY <2>2, <3>1, <4>2
        <5> QED
          BY <3>1, <3>2, <4>2, <5>1
      <4> QED
        BY <4>1, <4>2
    <3>5. \A i \in 1..(drop_tokens + 1) : trials'[i].ids_exact = (i = drop_tokens + 1)
      BY <3>3, <3>4
    <3>6. pc' = "verify" /\ drop_tokens' = drop_tokens /\ UNCHANGED <<receipt, error>>
      BY <2>1, <2>5
    <3>7. Accounts'
      BY <2>3, <2>4, <3>2, <3>4, <3>5, <3>6 DEF Accounts, Chosen
    <3>8. ReceiptAccountsForDrops'
      BY <2>1, <3>2, <3>4, <3>6 DEF AccountsInv, ReceiptAccountsForDrops
    <3> QED
      BY <3>7, <3>8 DEF AccountsInv
  <2>6. CASE ~exact
    <3>1. /\ pc' = "next_drop" /\ drop_tokens' = drop_tokens + 1 /\ UNCHANGED <<receipt, error>>
          /\ ~trial.ids_exact
      BY <2>1, <2>3, <2>6
    <3>2. /\ \A i \in 1..Len(trials') : trials'[i].drop_tokens = i - 1 /\ ~trials'[i].ids_exact
          /\ Len(trials') = drop_tokens'
      BY <1>1, <2>1, <2>3, <3>1, InexactAppended DEF AccountsInv, Chosen
    <3> QED
      BY <2>1, <3>1, <3>2 DEF AccountsInv, Accounts, ReceiptAccountsForDrops, Chosen
  <2> QED
    BY <2>5, <2>6
<1>6. CASE WriteReceipt
  <2>1. /\ pc = "write_receipt" /\ UNCHANGED <<args, search>> /\ error' # "exhausted"
        /\ pc' \in {"passed", "failed"}
    BY <1>1, <1>6 DEF WriteReceipt, Fail, TypeOK
  <2>2. UNCHANGED <<max_drop_tokens, drop_tokens, trials>>
    BY <2>1 DEF args, search
  <2>3. LET last == drop_tokens + 1
        IN  /\ Len(trials) = last
            /\ \A i \in 1..last : trials[i].ids_exact = (i = last)
            /\ trials[last].repair_window_bytes = Len(repair_window)
    BY <2>1 DEF AccountsInv, Accounts, Chosen
  <2>4. Accounts'
    BY <2>1, <2>2 DEF AccountsInv, Accounts, Chosen
  <2>5. receipt'.file = "complete" =>
          \/ receipt' = receipt
          \/ /\ receipt'.minimum_exact_drop_tokens = drop_tokens /\ receipt'.trials = trials
             /\ receipt'.repair_window_bytes = Len(repair_window)
    BY <1>6 DEF WriteReceipt, TruncatedReceipt
  <2>6. ReceiptAccountsForDrops'
    BY <2>1, <2>2, <2>3, <2>5 DEF AccountsInv, ReceiptAccountsForDrops
  <2> QED
    BY <2>4, <2>6 DEF AccountsInv
<1>7. CASE UNCHANGED vars
  BY <1>7, QuietAccounts DEF vars
<1> QED
  BY <1>2, <1>3, <1>4, <1>5, <1>6, <1>7 DEF Next, Terminated

\* A complete receipt has one trial per drop up to the one it names, and only
\* the last was exact; an exhausted search tried every drop of the range.
THEOREM ReceiptsAccountForDrops == Spec => []ReceiptAccountsForDrops
<1>1. AccountsInv => ReceiptAccountsForDrops
  BY DEF AccountsInv
<1> QED
  BY <1>1, Invariant, InitAccounts, NextAccounts, PTL DEF Spec
-----------------------------------------------------------------------------
\* Before the search no drop was gone past, and no IDs are there that were not
\* asked for.
EarlyIds ==
  /\ pc \in {"start", "tokenize_prefix"} => prefix_ids = <<>>
  /\ pc \in {"start", "tokenize_prefix", "tokenize_oracle"} =>
       oracle_ids = <<>> /\ drop_tokens = 0

\* What the server answered, and no drop gone past is exact.
AnswersKept ==
  /\ pc = "tokenize_oracle" => prefix_ids \in Tokenize(server, prefix)
  /\ pc \in Searching \cup Chosen \cup {"passed"} =>
       /\ prefix_ids \in Tokenize(server, prefix) /\ oracle_ids \in Tokenize(server, full)
       /\ \A d \in 0..(drop_tokens - 1) : ~ExactDrop(d)
  /\ pc = "tokenize_window" => kept_bytes \in Detokenize(server, kept_ids)

SelectInv == server \in FaithfulServers => EarlyIds /\ AnswersKept /\ SelectsFirstExactDrop

\* The bytes of two ID lists in a row are joined.
LEMMA BytesOfJoin ==
  ASSUME NEW s \in FaithfulServers
  PROVE  /\ BytesOf(s, <<>>) = <<>>
         /\ \A a \in Ids : BytesOf(s, a) \in Bytes
         /\ \A a, b \in Ids : BytesOf(s, a \o b) = BytesOf(s, a) \o BytesOf(s, b)
<1> DEFINE E == 0..MaxId
           h == [id \in E |-> Piece(s, id)]
<1>1. Ids = Seq(E)
  BY DEF Ids
<1>2. h \in [E -> Bytes] /\ \A id \in E : h[id] = Piece(s, id)
  BY PieceAssumption
<1> HIDE DEF E, h
<1>3. \A a \in Seq(E) : BytesOf(s, a) = FlatMap(h, a)
  <2> SUFFICES ASSUME NEW a \in Seq(E) PROVE BytesOf(s, a) = FlatMap(h, a)
    OBVIOUS
  <2>1. \A k \in 1..Len(a) : a[k] \in E
    OBVIOUS
  <2>2. [k \in 1..Len(a) |-> Piece(s, a[k])] = [k \in 1..Len(a) |-> h[a[k]]]
    BY <1>2, <2>1
  <2> QED
    BY <2>2 DEF BytesOf, FlatMap
<1>4. <<>> \in Seq(E) /\ \A a, b \in Seq(E) : a \o b \in Seq(E)
  OBVIOUS
<1>5. /\ FlatMap(h, <<>>) = <<>>
      /\ \A a \in Seq(E) : FlatMap(h, a) \in Bytes
      /\ \A a, b \in Seq(E) : FlatMap(h, a \o b) = FlatMap(h, a) \o FlatMap(h, b)
  BY <1>2, JoinFacts, FlatMapFacts
<1>6. /\ BytesOf(s, <<>>) = <<>>
      /\ \A a \in Seq(E) : BytesOf(s, a) \in Bytes
  BY <1>3, <1>4, <1>5
<1>7. \A a, b \in Seq(E) : BytesOf(s, a \o b) = BytesOf(s, a) \o BytesOf(s, b)
  BY <1>3, <1>4, <1>5
<1> QED
  BY <1>1, <1>6, <1>7

\* The run's server is faithful on the texts the run puts to it.
LEMMA ServerFaithful ==
  ASSUME TypeOK, server \in FaithfulServers
  PROVE  /\ FaithfulOn(server, prefix) /\ FaithfulOn(server, full)
         /\ \A k \in 0..Len(prefix) : FaithfulOn(server, Slice(full, k, Len(full)))
<1> DEFINE i == [prefix |-> prefix, delta |-> delta, max_drop_tokens |-> max_drop_tokens,
                 server |-> server]
<1>1. i \in Inputs /\ i.prefix = prefix /\ i.delta = delta /\ i.server = server
  BY DEF TypeOK
<1> HIDE DEF i
<1>2. /\ FaithfulOn(server, prefix)
      /\ \A k \in 0..Len(prefix) : FaithfulOn(server, Slice(full, k, Len(full)))
  BY <1>1, FaithfulAssumption DEF full
<1>3. Slice(full, 0, Len(full)) = full /\ 0 \in 0..Len(prefix)
  BY ArgFacts, SliceWhole DEF Bytes
<1> QED
  BY <1>2, <1>3

\* A faithful tokenization of the prefix: what the first n of its IDs stand for
\* is the beginning of the prefix and of the whole input.
LEMMA KeptPieces ==
  ASSUME TypeOK, server \in FaithfulServers, prefix_ids \in Tokenize(server, prefix),
         NEW n \in 0..Len(prefix_ids)
  PROVE  LET kept == SubSeq(prefix_ids, 1, n)
             bytes == BytesOf(server, kept)
         IN  /\ kept \in Ids /\ Len(kept) = n
             /\ bytes \in Bytes /\ Len(bytes) \in 0..Len(prefix)
             /\ Slice(full, 0, Len(bytes)) = bytes
             /\ IsText(bytes) => Detokenize(server, kept) \subseteq {bytes}
<1> DEFINE kept == SubSeq(prefix_ids, 1, n)
           rest == SubSeq(prefix_ids, n + 1, Len(prefix_ids))
           bytes == BytesOf(server, kept)
           others == BytesOf(server, rest)
<1>1. prefix_ids \in Seq(0..MaxId)
  BY DEF TypeOK, Ids
<1>2. /\ kept \in Seq(0..MaxId) /\ rest \in Seq(0..MaxId)
      /\ Len(kept) = n /\ prefix_ids = kept \o rest
  BY <1>1, CutAt, ZenonT(40)
<1>3. /\ BytesOf(server, prefix_ids) = prefix
      /\ IsText(bytes) => Detokenize(server, kept) \subseteq {bytes}
  BY ServerFaithful DEF FaithfulOn
<1>4. bytes \in Bytes /\ others \in Bytes /\ prefix = bytes \o others
  <2> HIDE DEF kept, rest
  <2> QED
    BY <1>2, <1>3, BytesOfJoin DEF Ids
<1> HIDE DEF bytes, others, kept, rest
<1>5. /\ Len(bytes) \in 0..Len(prefix) /\ Slice(prefix, 0, Len(bytes)) = bytes
  BY <1>4, SMTT(30) DEF Bytes, Slice
<1>6. Slice(full, 0, Len(bytes)) = bytes
  BY <1>5, ArgFacts, SliceOfPrefix DEF full
<1> QED
  BY <1>2, <1>3, <1>4, <1>5, <1>6 DEF bytes, kept, Ids

\* Two lists in a row are the second alone only if the first is empty.
LEMMA NothingBefore ==
  ASSUME NEW S, NEW a \in Seq(S), NEW b \in Seq(S), a \o b = b
  PROVE  a = <<>>
<1>1. Len(a) + Len(b) = Len(b) /\ Len(a) \in Nat /\ Len(b) \in Nat
  BY SMTT(30)
<1>2. Len(a) = 0
  BY <1>1
<1> QED
  BY <1>2

\* The splice of an exact drop: its kept IDs decode to their bytes, of which
\* there are some, and the window behind them is text.
LEMMA ExactDropFacts ==
  ASSUME TypeOK, server \in FaithfulServers,
         prefix_ids \in Tokenize(server, prefix), oracle_ids \in Tokenize(server, full),
         NEW d \in Nat, ExactDrop(d)
  PROVE  LET kept == SubSeq(prefix_ids, 1, Len(prefix_ids) - d)
             bytes == BytesOf(server, kept)
         IN  /\ Detokenize(server, kept) \subseteq {bytes}
             /\ bytes # <<>> /\ IsPrefixOf(bytes, prefix)
             /\ d < Len(prefix_ids)
             /\ \A rest \in Tokenize(server, Slice(full, Len(bytes), Len(full))) :
                  kept \o rest = oracle_ids
<1> DEFINE n == Len(prefix_ids) - d
           kept == SubSeq(prefix_ids, 1, n)
           bytes == BytesOf(server, kept)
           window == Slice(full, Len(bytes), Len(full))
<1>1. d < Len(prefix_ids) /\ Len(prefix_ids) \in Nat /\ ExactSplice(server, kept, full)
  BY DEF ExactDrop, TypeOK, Ids
<1>2. n \in 0..Len(prefix_ids)
  BY <1>1
<1>3. PICK rest \in Tokenize(server, window) : kept \o rest \in Tokenize(server, full)
  BY <1>1 DEF ExactSplice
<1>4. /\ kept \in Ids /\ kept # <<>>
      /\ bytes \in Bytes /\ Len(bytes) \in 0..Len(prefix) /\ Slice(full, 0, Len(bytes)) = bytes
      /\ IsText(bytes) => Detokenize(server, kept) \subseteq {bytes}
  <2> HIDE DEF n
  <2> QED
    BY <1>1, <1>2, KeptPieces DEF ExactSplice
<1> HIDE DEF kept, bytes
<1>5. IsText(window) /\ IsText(full) /\ rest \in Ids
  BY <1>3 DEF Tokenize
<1>6. Len(bytes) \in 0..Len(full) /\ 0 \in 0..Len(prefix)
  BY <1>4, ArgFacts DEF Bytes
<1>7. IsText(bytes)
  BY <1>4, <1>5, <1>6, ArgFacts
<1>8. FaithfulOn(server, full) /\ FaithfulOn(server, window)
  BY <1>4, ServerFaithful
<1> HIDE DEF window
<1>9. Tokenize(server, full) = {oracle_ids} /\ Tokenize(server, window) = {rest}
  BY <1>3, <1>8 DEF FaithfulOn
<1>10. kept \o rest = oracle_ids
  BY <1>3, <1>9
<1>11. bytes # <<>>
  <2> SUFFICES ASSUME bytes = <<>> PROVE FALSE
    OBVIOUS
  <2>1. window = full
    BY ArgFacts, SliceWhole DEF window
  <2>2. rest = oracle_ids
    BY <1>9, <2>1
  <2>3. kept = <<>>
    BY <1>4, <1>5, <1>10, <2>2, NothingBefore DEF Ids
  <2> QED
    BY <1>4, <2>3
<1>12. IsPrefixOf(bytes, prefix)
  <2>1. Slice(full, 0, Len(bytes)) = Slice(prefix, 0, Len(bytes))
    BY <1>4, ArgFacts, SliceOfPrefix DEF full
  <2> QED
    BY <1>4, <2>1, ArgFacts DEF IsPrefixOf, Bytes
<1>13. \A r \in Tokenize(server, window) : kept \o r = oracle_ids
  BY <1>9, <1>10
<1> QED
  BY <1>1, <1>4, <1>7, <1>11, <1>12, <1>13 DEF bytes, kept, window

\* The trial of a drop is exact when the drop is.
LEMMA TrialDecides ==
  ASSUME IInv, SelectInv, server \in FaithfulServers, pc = "tokenize_window",
         NEW repair_ids \in Tokenize(server, repair_window)
  PROVE  kept_ids \o repair_ids = oracle_ids <=> ExactDrop(drop_tokens)
<1> DEFINE bytes == BytesOf(server, kept_ids)
<1>1. /\ TypeOK /\ drop_tokens \in Nat /\ drop_tokens <= Len(prefix_ids)
      /\ Len(prefix_ids) \in Nat
      /\ kept_bytes # <<>> /\ IsPrefixOf(kept_bytes, prefix) /\ kept_bytes \in Bytes
      /\ prefix_ids \in Tokenize(server, prefix) /\ oracle_ids \in Tokenize(server, full)
      /\ kept_bytes \in Detokenize(server, kept_ids)
  BY DEF IInv, TypeOK, DropInRange, KeptIsProper, SelectInv, AnswersKept, Searching, Ids
<1>2. Len(kept_bytes) \in 1..Len(prefix) /\ Len(prefix) \in Nat /\ Len(full) \in Nat
      /\ Len(full) >= Len(prefix)
  BY <1>1, ArgFacts, SMTT(30) DEF IsPrefixOf, Bytes
<1>3. Len(prefix_ids) - drop_tokens \in 0..Len(prefix_ids)
  BY <1>1
<1>4. kept_ids \in Ids /\ Len(kept_ids) = Len(prefix_ids) - drop_tokens /\ bytes \in Bytes
  BY <1>1, <1>3, KeptPieces DEF kept_ids
<1>5. FaithfulOn(server, full) /\ FaithfulOn(server, repair_window) /\ repair_ids \in Ids
  BY <1>1, <1>2, ServerFaithful DEF repair_window, Tokenize
<1>6. /\ Tokenize(server, full) = {oracle_ids} /\ BytesOf(server, oracle_ids) = full
      /\ Tokenize(server, repair_window) = {repair_ids}
      /\ BytesOf(server, repair_ids) = repair_window
  BY <1>1, <1>5 DEF FaithfulOn
<1>7. ASSUME kept_ids \o repair_ids = oracle_ids
      PROVE  ExactDrop(drop_tokens)
  <2>1. full = bytes \o repair_window /\ repair_window \in Bytes
    BY <1>4, <1>5, <1>6, <1>7, BytesOfJoin
  <2>2. Len(repair_window) = Len(full) - Len(kept_bytes)
    BY <1>1, <1>2, ArgFacts, SMTT(30) DEF repair_window, Slice, Bytes
  <2>3. Len(full) = Len(bytes) + Len(repair_window) /\ Len(bytes) \in Nat
    <3> HIDE DEF bytes
    <3> QED
      BY <1>4, <2>1, SMTT(30) DEF Bytes
  <2>4. Len(bytes) = Len(kept_bytes)
    BY <1>2, <2>2, <2>3
  <2>5. kept_ids # <<>>
    BY <1>2, <2>4, BytesOfJoin
  <2>6. Len(kept_ids) # 0
    BY <1>4, <2>5 DEF Ids
  <2>7. drop_tokens < Len(prefix_ids)
    BY <1>1, <1>4, <2>6
  <2>8. ExactSplice(server, kept_ids, full)
    BY <1>1, <1>7, <2>4, <2>5 DEF ExactSplice, repair_window
  <2> QED
    BY <2>7, <2>8 DEF ExactDrop, kept_ids
<1>8. ASSUME ExactDrop(drop_tokens)
      PROVE  kept_ids \o repair_ids = oracle_ids
  <2>1. /\ Detokenize(server, kept_ids) \subseteq {bytes}
        /\ \A rest \in Tokenize(server, Slice(full, Len(bytes), Len(full))) :
             kept_ids \o rest = oracle_ids
    BY <1>1, <1>8, ExactDropFacts DEF kept_ids
  <2>2. kept_bytes = bytes
    BY <1>1, <2>1
  <2> QED
    BY <2>1, <2>2 DEF repair_window
<1> QED
  BY <1>7, <1>8

\* What is exact does not change once both tokenizations are known.
LEMMA ExactStays ==
  ASSUME UNCHANGED args, UNCHANGED <<prefix_ids>>
  PROVE  \A d : ExactDrop(d)' <=> ExactDrop(d)
BY DEF args, ExactDrop, full

\* A drop that is rejected is not exact.
LEMMA RejectSelects ==
  ASSUME TypeOK, SelectInv, pc \in Searching, error = "none", NEW reason, Reject(reason),
         UNCHANGED <<args, answers, receipt>>,
         server \in FaithfulServers => ~ExactDrop(drop_tokens)
  PROVE  SelectInv'
<1> SUFFICES ASSUME server \in FaithfulServers PROVE (EarlyIds /\ AnswersKept /\ SelectsFirstExactDrop)'
  BY DEF SelectInv, args
<1>1. /\ pc' = "next_drop" /\ drop_tokens' = drop_tokens + 1 /\ error' = "none"
      /\ UNCHANGED <<prefix, delta, max_drop_tokens, server, prefix_ids, oracle_ids, full>>
  BY DEF Reject, args, answers, full
<1>2. /\ prefix_ids \in Tokenize(server, prefix) /\ oracle_ids \in Tokenize(server, full)
      /\ \A d \in 0..(drop_tokens - 1) : ~ExactDrop(d)
  BY DEF SelectInv, AnswersKept
<1>3. \A d \in 0..(drop_tokens' - 1) : ~ExactDrop(d)'
  <2>1. \A d : ExactDrop(d)' <=> ExactDrop(d)
    BY ExactStays DEF answers
  <2>2. \A d \in 0..(drop_tokens + 1 - 1) : d = drop_tokens \/ d \in 0..(drop_tokens - 1)
    BY DEF TypeOK
  <2>3. ~ExactDrop(drop_tokens)
    OBVIOUS
  <2>4. \A d \in 0..(drop_tokens + 1 - 1) : ~ExactDrop(d)
    BY <1>2, <2>2, <2>3
  <2>5. \A d \in 0..(drop_tokens' - 1) : ~ExactDrop(d)
    BY <1>1, <2>4 DEF TypeOK
  <2> QED
    BY <2>1, <2>5
<1>4. EarlyIds' /\ AnswersKept'
  BY <1>1, <1>2, <1>3 DEF EarlyIds, AnswersKept
<1>5. SelectsFirstExactDrop'
  BY <1>1 DEF SelectsFirstExactDrop
<1> QED
  BY <1>4, <1>5

\* The first state has no answer.
LEMMA InitSelects == Init => SelectInv
BY DEF Init, SelectInv, EarlyIds, AnswersKept, SelectsFirstExactDrop, Searching, Chosen

\* Every step keeps the first exact drop ahead of the search, or at it.
LEMMA NextSelects == IInv /\ SelectInv /\ [Next \/ Terminated]_vars => SelectInv'
<1> SUFFICES ASSUME IInv, SelectInv, [Next \/ Terminated]_vars, server \in FaithfulServers,
                    UNCHANGED server
             PROVE  SelectInv'
  <2>1. ASSUME [Next \/ Terminated]_vars PROVE UNCHANGED server
    <3>1. Next => UNCHANGED args
      BY DEF Next, Start, TokenizePrefix, TokenizeOracle, NextDrop, DetokenizeKept,
         TokenizeWindow, VerifyCandidate, WriteReceipt, CallFails
    <3> QED
      BY <2>1, <3>1 DEF Terminated, args, vars
  <2> QED
    BY <2>1 DEF SelectInv
<1>1. TypeOK /\ EarlyIds /\ AnswersKept /\ SelectsFirstExactDrop
  BY DEF IInv, SelectInv
<1>2. \A d : UNCHANGED <<args, prefix_ids>> => (ExactDrop(d)' <=> ExactDrop(d))
  BY ExactStays
<1> USE DEF Searching, Chosen
<1>3. CASE Start
  BY <1>1, <1>3 DEF Start, Fail, args, answers, search, SelectInv, EarlyIds, AnswersKept,
     SelectsFirstExactDrop, TypeOK
<1>4. CASE TokenizePrefix
  BY <1>1, <1>4 DEF TokenizePrefix, args, search, SelectInv, EarlyIds, AnswersKept,
     SelectsFirstExactDrop, TypeOK
<1>5. CASE TokenizeOracle
  <2>1. /\ pc' = "next_drop" /\ drop_tokens' = 0 /\ error' = "none"
        /\ prefix_ids' \in Tokenize(server', prefix') /\ oracle_ids' \in Tokenize(server', full')
    BY <1>1, <1>5 DEF TokenizeOracle, args, search, EarlyIds, AnswersKept, TypeOK, full
  <2> QED
    BY <2>1 DEF SelectInv, EarlyIds, AnswersKept, SelectsFirstExactDrop
<1>6. CASE NextDrop
  <2>1. /\ pc = "next_drop" /\ error = "none" /\ UNCHANGED <<args, answers, receipt>>
        /\ drop_tokens \in Nat /\ Len(prefix_ids) \in Nat /\ max_drop_tokens \in Nat
    BY <1>1, <1>6, ArgFacts DEF NextDrop, TypeOK, Ids
  <2>2. CASE Exhausted /\ Fail("exhausted") /\ UNCHANGED search
    <3>1. \A d \in 0..max_drop_tokens : ~ExactDrop(d)
      <4>1. \A d \in 0..max_drop_tokens : d \in 0..(drop_tokens - 1)
        BY <2>1, <2>2 DEF Exhausted
      <4> QED
        BY <1>1, <2>1, <4>1 DEF AnswersKept
    <3>2. \A d \in 0..max_drop_tokens' : ~ExactDrop(d)'
      BY <1>2, <2>1, <3>1 DEF args, answers
    <3> QED
      BY <2>2, <3>2 DEF Fail, SelectInv, EarlyIds, AnswersKept, SelectsFirstExactDrop
  <2>3. CASE drop_tokens > Len(prefix_ids) /\ Reject("drop_exceeds_prefix")
    <3>1. ~ExactDrop(drop_tokens)
      BY <2>1, <2>3 DEF ExactDrop
    <3> QED
      BY <1>1, <2>1, <2>3, <3>1, RejectSelects
  <2>4. CASE pc' = "detokenize_kept" /\ UNCHANGED <<search, error>>
    BY <1>1, <1>2, <2>1, <2>4 DEF args, answers, search, full, SelectInv, EarlyIds, AnswersKept,
       SelectsFirstExactDrop
  <2> QED
    BY <1>6, <2>2, <2>3, <2>4 DEF NextDrop
<1>7. CASE DetokenizeKept
  <2>1. /\ pc = "detokenize_kept" /\ error = "none" /\ UNCHANGED <<args, answers, receipt>>
        /\ prefix_ids \in Tokenize(server, prefix) /\ oracle_ids \in Tokenize(server, full)
        /\ drop_tokens \in Nat
    BY <1>1, <1>7 DEF DetokenizeKept, AnswersKept, TypeOK
  <2>2. PICK bytes \in Detokenize(server, kept_ids) :
          \/ ~IsPrefixOf(bytes, prefix) /\ Reject("kept_bytes_not_prefix")
          \/ bytes = <<>> /\ Reject("full_window_forbidden")
          \/ /\ IsPrefixOf(bytes, prefix)
             /\ bytes # <<>>
             /\ kept_bytes' = bytes
             /\ pc' = "tokenize_window"
             /\ UNCHANGED <<drop_tokens, ids, trials, error>>
    BY <1>7 DEF DetokenizeKept
  <2>3. ExactDrop(drop_tokens) => IsPrefixOf(bytes, prefix) /\ bytes # <<>>
    <3> SUFFICES ASSUME ExactDrop(drop_tokens) PROVE IsPrefixOf(bytes, prefix) /\ bytes # <<>>
      OBVIOUS
    <3>1. LET pieces == BytesOf(server, kept_ids)
          IN  Detokenize(server, kept_ids) \subseteq {pieces} /\ pieces # <<>> /\ IsPrefixOf(pieces, prefix)
      BY <1>1, <2>1, ExactDropFacts DEF kept_ids
    <3> QED
      BY <2>2, <3>1
  <2>4. CASE ~IsPrefixOf(bytes, prefix) /\ Reject("kept_bytes_not_prefix")
    BY <1>1, <2>1, <2>3, <2>4, RejectSelects
  <2>5. CASE bytes = <<>> /\ Reject("full_window_forbidden")
    BY <1>1, <2>1, <2>3, <2>5, RejectSelects
  <2>6. CASE /\ kept_bytes' = bytes /\ pc' = "tokenize_window"
             /\ UNCHANGED <<drop_tokens, ids, trials, error>>
    <3>1. kept_bytes' \in Detokenize(server', kept_ids')
      BY <2>1, <2>2, <2>6 DEF args, answers, kept_ids
    <3> QED
      BY <1>1, <1>2, <2>1, <2>6, <3>1 DEF args, answers, full, SelectInv, EarlyIds, AnswersKept,
         SelectsFirstExactDrop
  <2> QED
    BY <2>2, <2>4, <2>5, <2>6
<1>8. CASE TokenizeWindow
  <2>1. /\ pc = "tokenize_window" /\ error = "none" /\ UNCHANGED <<args, answers, kept_bytes, error>>
        /\ prefix_ids \in Tokenize(server, prefix) /\ oracle_ids \in Tokenize(server, full)
        /\ drop_tokens \in Nat /\ \A d \in 0..(drop_tokens - 1) : ~ExactDrop(d)
    BY <1>1, <1>8 DEF TokenizeWindow, AnswersKept, TypeOK
  <2>2. PICK repair_ids \in Tokenize(server, repair_window) :
          /\ ids' = kept_ids \o repair_ids
          /\ \/ ids' = oracle_ids /\ pc' = "verify" /\ UNCHANGED drop_tokens
             \/ ids' # oracle_ids /\ pc' = "next_drop" /\ drop_tokens' = drop_tokens + 1
    BY <1>8 DEF TokenizeWindow
  <2>3. ids' = oracle_ids <=> ExactDrop(drop_tokens)
    BY <2>1, <2>2, TrialDecides
  <2>4. CASE ids' = oracle_ids /\ pc' = "verify" /\ UNCHANGED drop_tokens
    BY <1>1, <1>2, <2>1, <2>3, <2>4 DEF args, answers, full, SelectInv, EarlyIds, AnswersKept,
       SelectsFirstExactDrop
  <2>5. CASE ids' # oracle_ids /\ pc' = "next_drop" /\ drop_tokens' = drop_tokens + 1
    <3>1. \A d \in 0..(drop_tokens' - 1) : ~ExactDrop(d)
      <4>1. \A d \in 0..(drop_tokens + 1 - 1) : d = drop_tokens \/ d \in 0..(drop_tokens - 1)
        BY <2>1
      <4> QED
        BY <2>1, <2>3, <2>5, <4>1
    <3> QED
      BY <1>1, <1>2, <2>1, <2>5, <3>1 DEF args, answers, full, SelectInv, EarlyIds, AnswersKept,
         SelectsFirstExactDrop
  <2> QED
    BY <2>2, <2>4, <2>5
<1>9. CASE VerifyCandidate
  <2>1. /\ pc = "verify" /\ UNCHANGED <<args, prefix_ids, oracle_ids, search>>
        /\ decoded' \in Detokenize(server, ids)
        /\ error = "none" /\ kept_bytes # <<>> /\ ids = oracle_ids
        /\ oracle_ids \in Tokenize(server, full) /\ IsText(full) /\ Len(oracle_ids) \in Nat
    BY <1>1, <1>9 DEF VerifyCandidate, IInv, TypeOK, KeptIsProper, ChosenIsOracle, InputIsText,
       AnswersKept, Ids
  <2>2. BytesOf(server, oracle_ids) = full /\ SubSeq(oracle_ids, 1, Len(oracle_ids)) = oracle_ids
    BY <1>1, <2>1, ServerFaithful DEF FaithfulOn, TypeOK, Ids
  <2>3. Detokenize(server, oracle_ids) \subseteq {full}
    <3>1. Len(oracle_ids) \in 0..Len(oracle_ids)
      BY <2>1
    <3>2. LET bytes == BytesOf(server, SubSeq(oracle_ids, 1, Len(oracle_ids)))
          IN  IsText(bytes) => Detokenize(server, SubSeq(oracle_ids, 1, Len(oracle_ids))) \subseteq {bytes}
      BY <1>1, <2>1, <3>1, ServerFaithful DEF FaithfulOn
    <3> QED
      BY <2>1, <2>2, <3>2
  <2>4. pc' = "write_receipt" /\ UNCHANGED error
    BY <1>9, <2>1, <2>3 DEF VerifyCandidate
  <2> QED
    BY <1>1, <1>2, <2>1, <2>4 DEF args, search, full, SelectInv, EarlyIds, AnswersKept,
       SelectsFirstExactDrop
<1>10. CASE WriteReceipt
  <2>1. /\ pc = "write_receipt" /\ UNCHANGED <<args, answers, search>>
        /\ \/ pc' = "passed" /\ error' = error
           \/ pc' = "failed" /\ error' = "write_receipt"
    BY <1>10 DEF WriteReceipt, Fail
  <2> QED
    BY <1>1, <1>2, <2>1 DEF args, answers, search, full, SelectInv, EarlyIds, AnswersKept,
       SelectsFirstExactDrop
<1>11. CASE CallFails
  <2>1. /\ UNCHANGED <<args, answers, search>> /\ pc' = "failed" /\ error' \in {"server", "not_text"}
        /\ error' = "not_text" => \/ pc \in {"tokenize_prefix", "tokenize_oracle"}
                                  \/ pc = "tokenize_window" /\ ~IsText(repair_window)
    BY <1>11 DEF CallFails, Fail
  <2>2. pc = "tokenize_window" => IsText(repair_window)
    BY <1>1, WindowFacts DEF IInv, InputIsText, KeptIsProper
  <2> QED
    BY <1>1, <2>1, <2>2 DEF answers, SelectInv, EarlyIds, AnswersKept, SelectsFirstExactDrop
<1>12. CASE UNCHANGED vars
  BY <1>1, <1>2, <1>12 DEF vars, args, answers, search, full, kept_ids, SelectInv, EarlyIds,
     AnswersKept, SelectsFirstExactDrop
<1> QED
  BY <1>3, <1>4, <1>5, <1>6, <1>7, <1>8, <1>9, <1>10, <1>11, <1>12 DEF Next, Terminated

\* With a server that answers every call from one model, search_exact_repair
\* returns the first drop of the range whose splice equals the full
\* tokenization, and gives up only if there is none; verification then never
\* refuses what it chose.
THEOREM FirstExactDropIsSelected == Spec => []SelectsFirstExactDrop
<1>1. SelectInv => SelectsFirstExactDrop
  BY DEF SelectInv, SelectsFirstExactDrop
<1> QED
  BY <1>1, Invariant, InitSelects, NextSelects, PTL DEF Spec
-----------------------------------------------------------------------------
\* The V0 fixture: a search that finds a symbol finds one of its kind behind
\* the place it starts from.
LEMMA FindFacts ==
  ASSUME NEW reply, Len(reply) \in Nat, NEW place \in Nat, NEW kind
  PROVE  LET p == Wire!FindAfter(reply, place, kind)
         IN  /\ p \in Nat
             /\ p <= Len(reply) => p > place /\ reply[p][1] = kind
<1> DEFINE S == {k \in (place + 1)..Len(reply) : reply[k][1] = kind} \cup {Len(reply) + 1}
<1>1. S \in SUBSET Nat /\ S # {}
  OBVIOUS
<1>2. Wire!FindAfter(reply, place, kind) = Min(S)
  BY DEF Wire!FindAfter, Wire!Is, Wire!Min, Min
<1> HIDE DEF S
<1>3. Min(S) \in S
  BY <1>1, MinFacts
<1> QED
  BY <1>1, <1>2, <1>3 DEF S

\* A part of a sequence behind the first n elements.
Behind(whole, n, part) == \A k \in 1..Len(part) : whole[k + n] = part[k]

\* Where the parts of two joined sequences are.
LEMMA ConcatParts ==
  ASSUME NEW S, NEW s \in Seq(S), NEW t \in Seq(S)
  PROVE  /\ s \o t \in Seq(S) /\ Len(s) \in Nat /\ Len(t) \in Nat
         /\ Len(s \o t) = Len(s) + Len(t)
         /\ Behind(s \o t, 0, s) /\ Behind(s \o t, Len(s), t)
<1>1. /\ \A k \in 1..Len(s) : (s \o t)[k + 0] = s[k]
      /\ \A k \in 1..Len(t) : (s \o t)[k + Len(s)] = t[k]
  OBVIOUS
<1> QED
  BY <1>1 DEF Behind

\* A part that begins behind m of another's elements, which begin behind n,
\* begins behind i.
Within(m, inner, part, n, i) ==
  /\ n \in Nat /\ m \in Nat /\ Len(part) \in Nat /\ Len(inner) \in Nat
  /\ m + Len(inner) <= Len(part) /\ i = m + n

\* A part of a part is a part.
LEMMA PartOfPart ==
  ASSUME NEW whole, NEW n, NEW part, NEW m, NEW inner, NEW i, Within(m, inner, part, n, i),
         Behind(whole, n, part), Behind(part, m, inner)
  PROVE  Behind(whole, i, inner)
<1> SUFFICES ASSUME NEW k \in 1..Len(inner) PROVE whole[k + i] = inner[k]
  BY DEF Behind
<1>1. k + m \in 1..Len(part) /\ (k + m) + n = k + i
  BY DEF Within
<1>2. whole[(k + m) + n] = part[k + m]
  BY <1>1 DEF Behind
<1>3. part[k + m] = inner[k]
  BY DEF Behind
<1> QED
  BY <1>1, <1>2, <1>3

\* Where the parts of an object with one value between two marks are.
LEMMA PartsOfWhole ==
  ASSUME NEW S, NEW a \in S, NEW b \in S, NEW c \in S, NEW d \in S, NEW e \in S, NEW f \in S,
         NEW items \in Seq(S)
  PROVE  LET whole == <<a, b, c>> \o (<<d>> \o items \o <<e>>) \o <<f>>
         IN  /\ whole \in Seq(S) /\ Len(whole) = Len(items) + 6
             /\ whole[1] = a /\ whole[2] = b /\ whole[3] = c /\ whole[4] = d
             /\ \A k \in 1..Len(items) : whole[k + 4] = items[k]
             /\ whole[Len(items) + 5] = e /\ whole[Len(items) + 6] = f
<1> DEFINE head == <<a, b, c>>
           first == <<d>>
           last == <<e>>
           tail == <<f>>
           middle == first \o items
           value == middle \o last
           front == head \o value
           whole == front \o tail
<1>1. head \in Seq(S) /\ Len(head) = 3 /\ head[1] = a /\ head[2] = b /\ head[3] = c
  OBVIOUS
<1>2. /\ first \in Seq(S) /\ Len(first) = 1 /\ first[1] = d
      /\ last \in Seq(S) /\ Len(last) = 1 /\ last[1] = e
      /\ tail \in Seq(S) /\ Len(tail) = 1 /\ tail[1] = f
      /\ items \in Seq(S) /\ Len(items) \in Nat
  OBVIOUS
<1> HIDE DEF head, first, last, tail
<1> DEFINE L == Len(items)
<1> USE ConcatParts
<1>3. middle \in Seq(S) /\ Len(middle) = L + 1 /\ Behind(middle, 0, first) /\ Behind(middle, 1, items)
  <2>1. /\ middle \in Seq(S) /\ Len(middle) = Len(first) + Len(items)
        /\ Behind(middle, 0, first) /\ Behind(middle, Len(first), items)
    BY <1>2, Zenon
  <2> HIDE DEF middle
  <2> QED
    BY <1>2, <2>1
<1> HIDE DEF middle
<1>4. value \in Seq(S) /\ Len(value) = L + 2 /\ Behind(value, 0, middle) /\ Behind(value, L + 1, last)
  <2>1. /\ value \in Seq(S) /\ Len(value) = Len(middle) + Len(last)
        /\ Behind(value, 0, middle) /\ Behind(value, Len(middle), last)
    BY <1>2, <1>3, Zenon
  <2> HIDE DEF value
  <2> QED
    BY <1>2, <1>3, <2>1
<1> HIDE DEF value
<1>5. front \in Seq(S) /\ Len(front) = L + 5 /\ Behind(front, 0, head) /\ Behind(front, 3, value)
  <2>1. /\ front \in Seq(S) /\ Len(front) = Len(head) + Len(value)
        /\ Behind(front, 0, head) /\ Behind(front, Len(head), value)
    BY <1>1, <1>4, Zenon
  <2> HIDE DEF front
  <2> QED
    BY <1>1, <1>2, <1>4, <2>1
<1> HIDE DEF front
<1>6. whole \in Seq(S) /\ Len(whole) = L + 6 /\ Behind(whole, 0, front) /\ Behind(whole, L + 5, tail)
  <2>1. /\ whole \in Seq(S) /\ Len(whole) = Len(front) + Len(tail)
        /\ Behind(whole, 0, front) /\ Behind(whole, Len(front), tail)
    BY <1>2, <1>5, Zenon
  <2> HIDE DEF whole
  <2> QED
    BY <1>2, <1>5, <2>1
<1> HIDE DEF whole
<1>7. L \in Nat /\ L + 1 \in Nat /\ L + 2 \in Nat /\ L + 5 \in Nat
  BY <1>2
<1> HIDE ConcatParts
<1>8. Behind(whole, 0, head) /\ Behind(whole, 3, value)
  <2>1. Within(0, head, front, 0, 0)
    BY <1>1, <1>5, <1>7 DEF Within
  <2>2. Within(3, value, front, 0, 3)
    BY <1>4, <1>5, <1>7 DEF Within
  <2> QED
    BY <1>5, <1>6, <2>1, <2>2, PartOfPart
<1>9. Behind(whole, 3, middle) /\ Behind(whole, L + 4, last)
  <2>1. Within(0, middle, value, 3, 3)
    BY <1>3, <1>4, <1>7 DEF Within
  <2>2. Within(L + 1, last, value, 3, L + 4)
    BY <1>2, <1>4, <1>7 DEF Within
  <2> QED
    BY <1>4, <1>8, <2>1, <2>2, PartOfPart
<1>10. Behind(whole, 3, first) /\ Behind(whole, 4, items)
  <2>1. Within(0, first, middle, 3, 3)
    BY <1>2, <1>3, <1>7 DEF Within
  <2>2. Within(1, items, middle, 3, 4)
    BY <1>2, <1>3, <1>7 DEF Within
  <2> QED
    BY <1>3, <1>9, <2>1, <2>2, PartOfPart
<1>11. /\ whole[1] = a /\ whole[2] = b /\ whole[3] = c /\ whole[4] = d
       /\ \A k \in 1..L : whole[k + 4] = items[k]
       /\ whole[L + 5] = e /\ whole[L + 6] = f
  <2>1. whole[1] = a /\ whole[2] = b /\ whole[3] = c
    BY <1>1, <1>8 DEF Behind
  <2>2. whole[4] = d
    BY <1>2, <1>10 DEF Behind
  <2>3. \A k \in 1..L : whole[k + 4] = items[k]
    BY <1>10 DEF Behind
  <2>4. whole[L + 5] = e /\ whole[L + 6] = f
    BY <1>2, <1>6, <1>7, <1>9 DEF Behind
  <2> QED
    BY <2>1, <2>2, <2>3, <2>4
<1> QED
  BY <1>6, <1>11, Zenon DEF whole, front, value, middle, head, first, last, tail, L

\* What lies between two marks of what arrived is the items of a value.
BetweenMarks(reply, Marks, items) ==
  \A p, q \in 1..Len(reply) :
    p < q /\ reply[p] \in Marks /\ reply[q] \in Marks => SubSeq(reply, p + 1, q - 1) = items

\* A value that is found in what arrived of an object is the whole value: its
\* marks are where it begins and ends, as no other symbol is one of them.
LEMMA ValueIsWhole ==
  ASSUME NEW S, NEW a \in S, NEW b \in S, NEW c \in S, NEW d \in S, NEW e \in S, NEW f \in S,
         NEW items \in Seq(S), NEW n \in Nat, NEW Marks,
         n <= Len(items) + 6,
         a \notin Marks, b \notin Marks, c \notin Marks, f \notin Marks,
         \A k \in 1..Len(items) : items[k] \notin Marks
  PROVE  LET reply == SubSeq(<<a, b, c>> \o (<<d>> \o items \o <<e>>) \o <<f>>, 1, n)
         IN  reply \in Seq(S) /\ Len(reply) = n /\ BetweenMarks(reply, Marks, items)
<1> DEFINE whole == <<a, b, c>> \o (<<d>> \o items \o <<e>>) \o <<f>>
           reply == SubSeq(whole, 1, n)
           L == Len(items)
<1>1. /\ whole \in Seq(S) /\ Len(whole) = L + 6 /\ L \in Nat
      /\ whole[1] = a /\ whole[2] = b /\ whole[3] = c /\ whole[4] = d
      /\ \A k \in 1..L : whole[k + 4] = items[k]
      /\ whole[L + 5] = e /\ whole[L + 6] = f
  BY PartsOfWhole
<1> HIDE DEF whole
<1>3. /\ reply \in Seq(S) /\ Len(reply) = n
      /\ \A p \in 1..n : reply[p] = whole[p] 
  BY <1>1
<1> HIDE DEF reply
<1>4. ASSUME NEW p \in 1..n, NEW q \in 1..n, p < q, reply[p] \in Marks, reply[q] \in Marks
      PROVE  SubSeq(reply, p + 1, q - 1) = items
  <2>1. p \in 1..(L + 6) /\ q \in 1..(L + 6) /\ whole[p] \in Marks /\ whole[q] \in Marks
    BY <1>1, <1>3, <1>4
  <2>2. \A r \in 1..(L + 6) : whole[r] \in Marks => r = 4 \/ r = L + 5
    <3> SUFFICES ASSUME NEW r \in 1..(L + 6), r # 4, r # L + 5 PROVE whole[r] \notin Marks
      OBVIOUS
    <3>1. CASE r \in 1..3
      <4>1. r = 1 \/ r = 2 \/ r = 3
        BY <3>1
      <4> QED
        BY <1>1, <4>1
    <3>2. CASE r = L + 6
      BY <1>1, <3>2
    <3>3. CASE r \in 5..(L + 4)
      <4> DEFINE k == r - 4
      <4>1. k \in 1..L /\ k + 4 = r
        BY <1>1, <3>3
      <4> HIDE DEF k
      <4>2. whole[r] = items[k]
        BY <1>1, <4>1
      <4> QED
        BY <4>1, <4>2
    <3> QED
      BY <1>1, <3>1, <3>2, <3>3
  <2>3. p = 4 /\ q = L + 5
    <3>1. (p = 4 \/ p = L + 5) /\ (q = 4 \/ q = L + 5)
      BY <2>1, <2>2
    <3> QED
      BY <1>1, <1>4, <3>1
  <2>4. p + 1 = 5 /\ q - 1 = L + 4 /\ L + 5 <= n
    BY <1>1, <2>3
  <2> DEFINE part == SubSeq(reply, 5, L + 4)
  <2>5. part \in Seq(S) /\ Len(part) = L /\ \A k \in 1..L : part[k] = reply[k + 4]
    <3>1. Len(reply) = n /\ L + 5 <= n /\ L \in Nat /\ reply \in Seq(S)
      BY <1>1, <1>3, <2>4
    <3> HIDE DEF L
    <3> QED
      BY <3>1
  <2>6. \A k \in 1..L : k + 4 \in 1..n
    BY <1>1, <2>4
  <2>7. \A k \in 1..L : reply[k + 4] = items[k]
    BY <1>1, <1>3, <2>6
  <2> HIDE DEF part, L
  <2>8. part \in Seq(S) /\ Len(part) = Len(items) /\ \A k \in 1..Len(items) : part[k] = items[k]
    BY <2>5, <2>7 DEF L
  <2>9. part = items
    BY <2>8
  <2> QED
    BY <2>4, <2>9 DEF part
<1> QED
  BY <1>3, <1>4 DEF BetweenMarks, reply, whole

\* What a server writes between the brackets of an ID list.
ListItems(list) ==
  [k \in 1..(2 * Len(list) - 1) |->
     IF k % 2 = 0 THEN Wire!Symbol("value_separator") ELSE <<"id", list[(k + 1) \div 2]>>]

\* The fronts of a list grow by an ID at every odd place of its items, and stay
\* at every separator.
LEMMA FrontsGrow ==
  ASSUME NEW list \in Seq(Nat), NEW n \in 1..(2 * Len(list) - 1)
  PROVE  LET front(k) == SubSeq(list, 1, (k + 1) \div 2)
         IN  /\ Wire!Is(ListItems(list), n, "id") => front(n) = Append(front(n - 1), ListItems(list)[n][2])
             /\ ~Wire!Is(ListItems(list), n, "id") => front(n) = front(n - 1)
<1> DEFINE front(k) == SubSeq(list, 1, (k + 1) \div 2)
           m == (n + 1) \div 2
<1>1. Len(list) \in Nat
  OBVIOUS
<1>2. CASE n % 2 = 0
  <2>1. ListItems(list)[n][1] = "value_separator"
    BY <1>2 DEF ListItems, Wire!Symbol
  <2>2. (n + 1) \div 2 = ((n - 1) + 1) \div 2
    BY <1>1, <1>2
  <2> QED
    BY <2>1, <2>2 DEF Wire!Is
<1>3. CASE n % 2 # 0
  <2>1. ListItems(list)[n] = <<"id", list[m]>>
    BY <1>3 DEF ListItems
  <2>2. m \in 1..Len(list) /\ ((n - 1) + 1) \div 2 = m - 1
    BY <1>1, <1>3
  <2> HIDE DEF m
  <2>3. SubSeq(list, 1, m) = Append(SubSeq(list, 1, m - 1), list[m])
    BY <2>2
  <2>4. front(n) = SubSeq(list, 1, m) /\ front(n - 1) = SubSeq(list, 1, m - 1)
    BY <2>2 DEF m
  <2>5. ListItems(list)[n][1] = "id" /\ ListItems(list)[n][2] = list[m]
    BY <2>1
  <2> QED
    BY <2>3, <2>4, <2>5 DEF Wire!Is
<1> QED
  BY <1>2, <1>3

\* So the IDs among the items of a list are the list.
LEMMA IdsOfItems ==
  ASSUME NEW list \in Seq(Nat)
  PROVE  Wire!IdsUpTo(ListItems(list))[Len(ListItems(list))] = list
<1> DEFINE items == ListItems(list)
           len == Len(items)
           front(k) == SubSeq(list, 1, (k + 1) \div 2)
           Body(f, n) == IF n = 0 THEN <<>>
                         ELSE IF Wire!Is(items, n, "id") THEN Append(f[n - 1], items[n][2]) ELSE f[n - 1]
           Solves(f) == f = [n \in 0..len |-> Body(f, n)]
           upTo == CHOOSE f : Solves(f)
           fronts == [n \in 0..len |-> front(n)]
<1>1. /\ len \in Nat /\ (Len(list) = 0 => len = 0)
      /\ Len(list) # 0 => len = 2 * Len(list) - 1
      /\ \A n \in 1..len : n \in 1..(2 * Len(list) - 1)
  <2>1. Len(list) \in Nat
    OBVIOUS
  <2>2. CASE Len(list) = 0
    <3>1. 1..(2 * Len(list) - 1) = 1..0
      BY <2>2
    <3>2. items = [k \in 1..0 |-> items[k]]
      BY <3>1 DEF ListItems
    <3> HIDE DEF items
    <3>3. len = 0
      BY <3>2
    <3> QED
      BY <2>2, <3>3
  <2>3. CASE Len(list) # 0
    <3>1. 2 * Len(list) - 1 \in Nat
      BY <2>1, <2>3
    <3>2. len = 2 * Len(list) - 1
      BY <3>1 DEF ListItems
    <3> QED
      BY <2>3, <3>1, <3>2
  <2> QED
    BY <2>2, <2>3
<1>2. Wire!IdsUpTo(items) = upTo
  BY DEF Wire!IdsUpTo
<1> HIDE DEF items, len
<1>3. front(0) = <<>>
  OBVIOUS
<1>4. \A n \in 1..len : n # 0 /\ n - 1 \in 0..len /\ n \in 0..len
  BY <1>1
<1>5. \A n \in 1..len :
        /\ Wire!Is(items, n, "id") => front(n) = Append(front(n - 1), items[n][2])
        /\ ~Wire!Is(items, n, "id") => front(n) = front(n - 1)
  BY <1>1, FrontsGrow DEF items
<1> HIDE DEF front
<1>6. \A n \in 0..len : fronts[n] = Body(fronts, n)
  <2>1. \A n \in 0..len : n = 0 \/ n \in 1..len
    BY <1>1
  <2>2. \A n \in 1..len : fronts[n] = front(n) /\ fronts[n - 1] = front(n - 1)
    BY <1>4
  <2>3. \A n \in 1..len : fronts[n] = Body(fronts, n)
    BY <1>4, <1>5, <2>2
  <2>4. 0 \in 0..len
    BY <1>1
  <2>5. fronts[0] = Body(fronts, 0)
    BY <1>3, <2>4
  <2> QED
    BY <2>1, <2>3, <2>5
<1>7. Solves(fronts)
  <2> HIDE DEF Body
  <2> QED
    BY <1>6
<1>8. Solves(upTo)
  <2> HIDE DEF Solves, fronts
  <2> QED
    BY <1>7, Zenon
<1> HIDE DEF upTo
<1>9. upTo[0] = front(0)
  BY <1>1, <1>3, <1>8
<1>10. \A n \in 1..len : upTo[n - 1] = fronts[n - 1] => upTo[n] = fronts[n]
  <2> SUFFICES ASSUME NEW n \in 1..len, upTo[n - 1] = fronts[n - 1] PROVE upTo[n] = fronts[n]
    OBVIOUS
  <2>1. upTo[n] = Body(upTo, n) /\ fronts[n] = Body(fronts, n)
    <3> HIDE DEF Body, fronts
    <3> QED
      BY <1>4, <1>6, <1>8
  <2> HIDE DEF fronts
  <2> QED
    BY <1>4, <2>1
<1>11. \A n \in 0..len : upTo[n] = fronts[n]
  <2>1. upTo[0] = fronts[0]
    BY <1>1, <1>9
  <2> HIDE DEF fronts
  <2> QED
    BY <1>1, <1>10, <2>1, JoinsAgree, ZenonT(60)
<1>12. upTo[len] = front(len)
  BY <1>1, <1>11
<1>13. front(len) = list
  <2>1. CASE Len(list) = 0
    <3>1. list = <<>>
      BY <2>1
    <3> QED
      BY <1>1, <1>3, <2>1, <3>1
  <2>2. CASE Len(list) # 0
    <3>1. (len + 1) \div 2 = Len(list)
      BY <1>1, <2>2
    <3>2. SubSeq(list, 1, Len(list)) = list
      OBVIOUS
    <3> QED
      BY <3>1, <3>2 DEF front
  <2> QED
    BY <2>1, <2>2
<1> QED
  BY <1>2, <1>12, <1>13 DEF items, len

\* A list is read only if its IDs fit 32 bits.
LEMMA ListOfItems ==
  ASSUME NEW list \in Seq(Nat)
  PROVE  Wire!IdList(ListItems(list)) \subseteq {list} \cap Ids
<1> DEFINE items == ListItems(list)
<1>1. Wire!IdList(items) \subseteq {list}
  BY IdsOfItems DEF Wire!IdList
<1>2. SUFFICES ASSUME Wire!IdList(items) # {} PROVE list \in Ids
  BY <1>1
<1>3. \A k \in 1..Len(items) : items[k][1] = "id" => items[k][2] <= MaxId
  <2>1. \A k \in 1..Len(items) : Wire!Is(items, k, "value_separator") \/ items[k][2] <= MaxId
    BY <1>2 DEF Wire!IdList
  <2> HIDE DEF items
  <2> QED
    BY <2>1 DEF Wire!Is
<1>4. ASSUME NEW j \in 1..Len(list) PROVE list[j] \in 0..MaxId
  <2> DEFINE k == 2 * j - 1
             last == 2 * Len(list) - 1
  <2>1. last \in Nat /\ k \in 1..last /\ k % 2 # 0 /\ (k + 1) \div 2 = j
    BY <1>4
  <2>2. items[k] = <<"id", list[(k + 1) \div 2]>> /\ Len(items) = last
    BY <2>1 DEF ListItems
  <2>3. items[k][1] = "id" /\ items[k][2] = list[j] /\ k \in 1..Len(items)
    BY <2>1, <2>2
  <2>4. list[j] <= MaxId
    BY <1>3, <2>3
  <2> QED
    BY <2>4, MaxIdAssumption
<1> DEFINE T == 0..MaxId
<1>5. \A j \in 1..Len(list) : list[j] \in T
  BY <1>4
<1> HIDE DEF T
<1>6. list = [j \in 1..Len(list) |-> list[j]] /\ Len(list) \in Nat
  OBVIOUS
<1>7. list \in Seq(T)
  BY <1>5, <1>6
<1> QED
  BY <1>7 DEF Ids, T

\* If the closing place is found, the items are what lies between the places.
ReadsBetween(reply, from, to, items) ==
  Wire!Found(reply, to) => SubSeq(reply, from + 1, to - 1) = items

\* A value whose closing mark is found behind its opening mark is read whole, in
\* what arrived of a reply: neither mark is the kind of any other symbol.
LEMMA ValueFound ==
  ASSUME NEW S, NEW a \in S, NEW b \in S, NEW c \in S, NEW d \in S, NEW e \in S, NEW f \in S,
         NEW items \in Seq(S), NEW n \in Nat, NEW open, NEW close, NEW place \in Nat,
         n <= Len(items) + 6,
         a[1] \notin {open, close}, b[1] \notin {open, close},
         c[1] \notin {open, close}, f[1] \notin {open, close},
         \A k \in 1..Len(items) : items[k][1] \notin {open, close}
  PROVE  LET reply == SubSeq(<<a, b, c>> \o (<<d>> \o items \o <<e>>) \o <<f>>, 1, n)
             from  == Wire!FindAfter(reply, place, open)
             to    == Wire!FindAfter(reply, from, close)
         IN  Len(reply) \in Nat /\ ReadsBetween(reply, from, to, items)
<1> DEFINE reply == SubSeq(<<a, b, c>> \o (<<d>> \o items \o <<e>>) \o <<f>>, 1, n)
           from == Wire!FindAfter(reply, place, open)
           to == Wire!FindAfter(reply, from, close)
           Marks == {s \in S : s[1] \in {open, close}}
<1>1. a \notin Marks /\ b \notin Marks /\ c \notin Marks /\ f \notin Marks
  OBVIOUS
<1>2. \A k \in 1..Len(items) : items[k] \notin Marks
  OBVIOUS
<1> HIDE DEF Marks
<1>3. reply \in Seq(S) /\ Len(reply) = n /\ BetweenMarks(reply, Marks, items)
  BY <1>1, <1>2, ValueIsWhole
<1> HIDE DEF reply
<1>4. from \in Nat /\ (from <= n => from > place /\ reply[from][1] = open)
  BY <1>3, FindFacts
<1> HIDE DEF from
<1>5. to \in Nat /\ (to <= n => to > from /\ reply[to][1] = close)
  BY <1>3, <1>4, FindFacts
<1> HIDE DEF to
<1>6. ASSUME to <= n PROVE SubSeq(reply, from + 1, to - 1) = items
  <2>1. from \in 1..n /\ to \in 1..n /\ from < to /\ reply[from][1] = open /\ reply[to][1] = close
    BY <1>4, <1>5, <1>6
  <2>2. reply[from] \in Marks /\ reply[to] \in Marks
    BY <1>3, <2>1 DEF Marks
  <2> QED
    BY <1>3, <2>1, <2>2 DEF BetweenMarks
<1>7. Wire!Found(reply, to) => to <= n
  BY <1>3 DEF Wire!Found
<1> QED
  BY <1>3, <1>6, <1>7 DEF ReadsBetween, from, to, reply

\* The items of a list are IDs and separators.
LEMMA ItemsTyped ==
  ASSUME NEW list \in Seq(Nat)
  PROVE  LET items == ListItems(list)
         IN  /\ items \in Seq({items[k] : k \in 1..Len(items)})
             /\ \A k \in 1..Len(items) : items[k][1] \in {"id", "value_separator"}
<1> DEFINE items == ListItems(list)
           last == 2 * Len(list) - 1
<1>1. Len(list) \in Nat
  OBVIOUS
<1>2. CASE Len(list) = 0
  <2>1. 1..last = 1..0
    BY <1>2
  <2>2. items = [k \in 1..0 |-> items[k]]
    BY <2>1 DEF ListItems
  <2> HIDE DEF items
  <2>3. Len(items) = 0
    BY <2>2
  <2>4. items \in Seq({items[k] : k \in 1..Len(items)})
    BY <2>2, <2>3
  <2> QED
    BY <2>3, <2>4 DEF items
<1>3. CASE Len(list) # 0
  <2>1. last \in Nat
    BY <1>1, <1>3
  <2>2. /\ items = [k \in 1..last |-> items[k]]
        /\ \A k \in 1..last : items[k][1] \in {"id", "value_separator"}
    BY DEF ListItems, Wire!Symbol
  <2> HIDE DEF items, last
  <2>3. Len(items) = last
    BY <2>1, <2>2
  <2>4. items \in Seq({items[k] : k \in 1..Len(items)})
    BY <2>1, <2>2, <2>3
  <2> QED
    BY <2>2, <2>3, <2>4 DEF items
<1> QED
  BY <1>2, <1>3

\* A list that is read from what arrived of a server's reply, under whichever
\* key, is the list the server sent, and its IDs fit 32 bits.
LEMMA ListIsRead ==
  ASSUME NEW list \in Seq(Nat), NEW key \in {"tokens", "ids"}, NEW name,
         NEW n \in 0..Len(Wire!Object(key, Wire!Array(list)))
  PROVE  Wire!ParseArrayAfter(SubSeq(Wire!Object(key, Wire!Array(list)), 1, n), name)
           \subseteq {list} \cap Ids
<1> DEFINE items == ListItems(list)
           a == Wire!Symbol("begin_object")
           b == Wire!Symbol(key)
           c == Wire!Symbol("name_separator")
           d == Wire!Symbol("begin_array")
           e == Wire!Symbol("end_array")
           f == Wire!Symbol("end_object")
           S == {a, b, c, d, e, f} \cup {items[k] : k \in 1..Len(items)}
           whole == <<a, b, c>> \o (<<d>> \o items \o <<e>>) \o <<f>>
           reply == SubSeq(whole, 1, n)
<1>1. whole = Wire!Object(key, Wire!Array(list))
  BY DEF Wire!Object, Wire!Array, ListItems
<1>2. /\ items \in Seq({items[k] : k \in 1..Len(items)})
      /\ \A k \in 1..Len(items) : items[k][1] \in {"id", "value_separator"}
  BY ItemsTyped
<1>3. a[1] = "begin_object" /\ b[1] = key /\ c[1] = "name_separator" /\ f[1] = "end_object"
  BY DEF Wire!Symbol
<1> HIDE DEF items, a, b, c, d, e, f
<1>4. items \in Seq(S) /\ Len(items) \in Nat
  BY <1>2
<1>5. a \in S /\ b \in S /\ c \in S /\ d \in S /\ e \in S /\ f \in S
  OBVIOUS
<1>6. /\ a[1] \notin {"begin_array", "end_array"} /\ b[1] \notin {"begin_array", "end_array"}
      /\ c[1] \notin {"begin_array", "end_array"} /\ f[1] \notin {"begin_array", "end_array"}
      /\ \A k \in 1..Len(items) : items[k][1] \notin {"begin_array", "end_array"}
  BY <1>2, <1>3
<1> HIDE DEF S
<1>7. Len(whole) = Len(items) + 6
  BY <1>4, <1>5, PartsOfWhole
<1>8. n \in Nat /\ n <= Len(items) + 6
  BY <1>1, <1>4, <1>7
<1> DEFINE at == Wire!FindAfter(reply, 0, name)
           from == Wire!FindAfter(reply, at, "begin_array")
           to == Wire!FindAfter(reply, from, "end_array")
<1>9. Len(reply) \in Nat
  BY <1>4, <1>5, <1>6, <1>8, ValueFound
<1>10. at \in Nat
  <2> HIDE DEF reply
  <2> QED
    BY <1>9, FindFacts
<1> HIDE DEF at
<1>11. ReadsBetween(reply, from, to, items)
  BY <1>4, <1>5, <1>6, <1>8, <1>10, ValueFound
<1> HIDE DEF reply, from, to
<1>12. Wire!ParseArrayAfter(reply, name) # {} =>
         /\ Wire!Found(reply, to)
         /\ Wire!ParseArrayAfter(reply, name) = Wire!IdList(SubSeq(reply, from + 1, to - 1))
  BY DEF Wire!ParseArrayAfter, at, from, to
<1>13. Wire!IdList(items) \subseteq {list} \cap Ids
  BY ListOfItems DEF items
<1>14. Wire!ParseArrayAfter(reply, name) \subseteq {list} \cap Ids
  BY <1>11, <1>12, <1>13 DEF ReadsBetween
<1> QED
  BY <1>1, <1>14 DEF reply

\* What a server writes between the quotes of a string.
StringItems(text, wide, form) ==
  [k \in 1..Len(text) |-> <<IF text[k] \in wide THEN form ELSE "byte", text[k]>>]

\* A string that is read from what arrived of a server's reply, under whichever
\* key, is the string the server sent.
LEMMA StringIsRead ==
  ASSUME NEW text \in Bytes, NEW wide, NEW form \in {"byte", "surrogate"},
         NEW key \in {"content", "text"}, NEW name,
         NEW n \in 0..Len(Wire!Object(key, Wire!String(text, wide, form)))
  PROVE  Wire!ParseStringAfter(SubSeq(Wire!Object(key, Wire!String(text, wide, form)), 1, n), name)
           \subseteq {text}
<1> DEFINE items == StringItems(text, wide, form)
           a == Wire!Symbol("begin_object")
           b == Wire!Symbol(key)
           c == Wire!Symbol("name_separator")
           d == Wire!Symbol("quote")
           f == Wire!Symbol("end_object")
           S == {a, b, c, d, f} \cup {items[k] : k \in 1..Len(text)}
           whole == <<a, b, c>> \o (<<d>> \o items \o <<d>>) \o <<f>>
           reply == SubSeq(whole, 1, n)
<1>1. whole = Wire!Object(key, Wire!String(text, wide, form))
  BY DEF Wire!Object, Wire!String, StringItems
<1>2. text = [k \in 1..Len(text) |-> text[k]] /\ Len(text) \in Nat
  BY DEF Bytes
<1>3. \A k \in 1..Len(text) : items[k][1] \in {"byte", "surrogate"} /\ items[k][2] = text[k]
  BY DEF StringItems
<1>4. items = [k \in 1..Len(text) |-> items[k]]
  BY DEF StringItems
<1>5. a[1] = "begin_object" /\ b[1] = key /\ c[1] = "name_separator" /\ f[1] = "end_object"
  BY DEF Wire!Symbol
<1> HIDE DEF items, a, b, c, d, f
<1>6. items \in Seq(S) /\ Len(items) = Len(text)
  <2>1. \A k \in 1..Len(text) : items[k] \in S
    OBVIOUS
  <2> HIDE DEF S
  <2> QED
    BY <1>2, <1>4, <2>1
<1>7. a \in S /\ b \in S /\ c \in S /\ d \in S /\ f \in S
  OBVIOUS
<1>8. /\ a[1] \notin {"quote", "quote"} /\ b[1] \notin {"quote", "quote"}
      /\ c[1] \notin {"quote", "quote"} /\ f[1] \notin {"quote", "quote"}
      /\ \A k \in 1..Len(items) : items[k][1] \notin {"quote", "quote"}
  BY <1>3, <1>5, <1>6
<1> HIDE DEF S
<1>9. Len(whole) = Len(items) + 6
  BY <1>6, <1>7, PartsOfWhole
<1>10. n \in Nat /\ n <= Len(items) + 6
  BY <1>1, <1>2, <1>6, <1>9
<1> DEFINE at == Wire!FindAfter(reply, 0, name)
           colon == Wire!FindAfter(reply, at, "name_separator")
           from == Wire!FindAfter(reply, colon, "quote")
           to == Wire!FindAfter(reply, from, "quote")
<1>11. Len(reply) \in Nat
  <2>1. 0 \in Nat
    OBVIOUS
  <2> QED
    BY <1>6, <1>7, <1>8, <1>10, <2>1, ValueFound
<1>12. colon \in Nat
  <2> HIDE DEF reply
  <2>1. at \in Nat
    BY <1>11, FindFacts
  <2> HIDE DEF at
  <2> QED
    BY <1>11, <2>1, FindFacts
<1> HIDE DEF colon
<1>13. ReadsBetween(reply, from, to, items)
  BY <1>6, <1>7, <1>8, <1>10, <1>12, ValueFound
<1> HIDE DEF reply, from, to
<1> DEFINE inner == SubSeq(reply, from + 1, to - 1)
<1>14. Wire!ParseStringAfter(reply, name) # {} =>
         /\ Wire!Found(reply, to)
         /\ Wire!ParseStringAfter(reply, name) = {[k \in 1..Len(inner) |-> inner[k][2]]}
  BY DEF Wire!ParseStringAfter, at, colon, from, to
<1> HIDE DEF inner
<1>15. Wire!Found(reply, to) => inner = items
  BY <1>13 DEF ReadsBetween, inner
<1>16. [k \in 1..Len(items) |-> items[k][2]] = text
  <2>1. \A k \in 1..Len(text) : items[k][2] = text[k]
    BY <1>3
  <2> QED
    BY <1>2, <1>6, <2>1
<1>17. Wire!ParseStringAfter(reply, name) \subseteq {text}
  BY <1>14, <1>15, <1>16
<1> QED
  BY <1>1, <1>17 DEF reply
-----------------------------------------------------------------------------
\* What is read as the tokenization of a text is one the server answered.
LEMMA IdsAreAnswered ==
  ASSUME NEW text \in Bytes
  PROVE  ReadIds(text) \subseteq Tokenized(native_server, text) \cap Ids
<1> SUFFICES ASSUME NEW list \in Tokenized(native_server, text) \cap Seq(Nat),
                    NEW reply \in Wire!Arrivals(Wire!TokenReplies(list))
             PROVE  Wire!ParseTokens(reply) \subseteq {list} \cap Ids
  BY DEF ReadIds
<1>1. PICK key \in {"tokens", "ids"} :
        \E n \in 0..Len(Wire!Object(key, Wire!Array(list))) :
          reply = SubSeq(Wire!Object(key, Wire!Array(list)), 1, n)
  BY DEF Wire!Arrivals, Wire!TokenReplies
<1>2. \A name : Wire!ParseArrayAfter(reply, name) \subseteq {list} \cap Ids
  BY <1>1, ListIsRead
<1> QED
  BY <1>2 DEF Wire!ParseTokens

\* A decoding that was had compares the fixture with bytes the server answered.
LEMMA DecodingIsAnswered ==
  ASSUME NEW list, NEW decode \in Decoded(list)
  PROVE  /\ decode \in {"unavailable", "exact", "different"}
         /\ decode = "exact" => fixture \in Detokenize(native_server, list)
         /\ decode = "different" => Detokenize(native_server, list) \ {fixture} # {}
<1> SUFFICES ASSUME decode # "unavailable"
             PROVE  /\ decode \in {"exact", "different"}
                    /\ decode = "exact" => fixture \in Detokenize(native_server, list)
                    /\ decode = "different" => Detokenize(native_server, list) \ {fixture} # {}
  OBVIOUS
<1>1. PICK text \in Detokenize(native_server, list) :
        \E reply \in Wire!Arrivals(Wire!ContentReplies(text, Wide)) :
          \E read \in Wire!ParseContent(reply) :
            decode = IF read = fixture THEN "exact" ELSE "different"
  BY DEF Decoded
<1>2. text \in Bytes
  BY DEF Detokenize
<1>3. PICK reply \in Wire!Arrivals(Wire!ContentReplies(text, Wide)) :
        \E read \in Wire!ParseContent(reply) :
          decode = IF read = fixture THEN "exact" ELSE "different"
  BY <1>1
<1>4. PICK key \in {"content", "text"}, form \in {"byte", "surrogate"} :
        \E n \in 0..Len(Wire!Object(key, Wire!String(text, Wide, form))) :
          reply = SubSeq(Wire!Object(key, Wire!String(text, Wide, form)), 1, n)
  BY DEF Wire!Arrivals, Wire!ContentReplies
<1>5. \A name : Wire!ParseStringAfter(reply, name) \subseteq {text}
  BY <1>2, <1>4, StringIsRead
<1>6. Wire!ParseContent(reply) \subseteq {text}
  BY <1>5 DEF Wire!ParseContent
<1>7. decode = IF text = fixture THEN "exact" ELSE "different"
  BY <1>3, <1>6
<1> QED
  BY <1>7

-----------------------------------------------------------------------------
\* No divergence is named of two ID lists exactly when they are equal.
LEMMA DivergenceOfEqual ==
  ASSUME NEW x \in Ids, NEW y \in Ids
  PROVE  FirstDivergence(x, y) = 0 <=> x = y
<1> DEFINE there(list, i) == IF i <= Len(list) THEN {list[i]} ELSE {}
           longest == Max({Len(x), Len(y)})
           differ == {i \in 1..longest : there(x, i) # there(y, i)}
<1>1. Len(x) \in Nat /\ Len(y) \in Nat
  BY DEF Ids
<1>2. longest \in Nat /\ longest >= Len(x) /\ longest >= Len(y)
  <2> DEFINE most == IF Len(x) >= Len(y) THEN Len(x) ELSE Len(y)
  <2>1. most \in {Len(x), Len(y)} /\ \A i \in {Len(x), Len(y)} : most >= i
    BY <1>1
  <2>2. longest \in {Len(x), Len(y)} /\ \A i \in {Len(x), Len(y)} : longest >= i
    <3> HIDE DEF most
    <3> QED
      BY <2>1 DEF Max
  <2> HIDE DEF longest
  <2> QED
    BY <1>1, <2>2
<1>3. FirstDivergence(x, y) = IF differ = {} THEN 0 ELSE Min(differ)
  BY DEF FirstDivergence
<1> HIDE DEF longest
<1>4. differ # {} => Min(differ) # 0 /\ x # y
  <2>1. ASSUME differ # {} PROVE Min(differ) # 0
    <3>1. differ \in SUBSET Nat /\ 0 \notin differ
      BY <1>2
    <3> HIDE DEF differ
    <3> QED
      BY <2>1, <3>1, MinFacts
  <2> QED
    BY <2>1
<1>5. ASSUME differ = {} PROVE x = y
  <2>1. \A i \in 1..longest : there(x, i) = there(y, i)
    BY <1>5
  <2>2. Len(x) = Len(y)
    <3>1. ~(Len(x) < Len(y))
      <4> SUFFICES ASSUME Len(x) < Len(y) PROVE FALSE
        OBVIOUS
      <4>1. Len(y) \in 1..longest
        BY <1>1, <1>2
      <4>2. there(x, Len(y)) = {} /\ there(y, Len(y)) = {y[Len(y)]}
        BY <1>1
      <4> QED
        BY <2>1, <4>1, <4>2
    <3>2. ~(Len(y) < Len(x))
      <4> SUFFICES ASSUME Len(y) < Len(x) PROVE FALSE
        OBVIOUS
      <4>1. Len(x) \in 1..longest
        BY <1>1, <1>2
      <4>2. there(y, Len(x)) = {} /\ there(x, Len(x)) = {x[Len(x)]}
        BY <1>1
      <4> QED
        BY <2>1, <4>1, <4>2
    <3> QED
      BY <1>1, <3>1, <3>2
  <2>3. \A i \in 1..Len(x) : x[i] = y[i]
    <3> SUFFICES ASSUME NEW i \in 1..Len(x) PROVE x[i] = y[i]
      OBVIOUS
    <3>1. i \in 1..longest /\ i <= Len(x) /\ i <= Len(y)
      BY <1>1, <1>2, <2>2
    <3>2. there(x, i) = {x[i]} /\ there(y, i) = {y[i]}
      BY <3>1
    <3>3. {x[i]} = {y[i]}
      BY <2>1, <3>1, <3>2
    <3> QED
      BY <3>3
  <2> QED
    BY <2>2, <2>3 DEF Ids
<1> HIDE DEF differ
<1> QED
  BY <1>3, <1>4, <1>5
-----------------------------------------------------------------------------
(***************************************************************************)
(* The invariant of the V0 fixture.                                        *)
(***************************************************************************)
ToTokenize == {"tokenize_native", "tokenize_nereids"}
ToDecode == ToTokenize \cup {"hash_ids", "decode_native"}

\* What a run was given is bytes, and is known to be text from the first call on.
GivenInv ==
  /\ fixture \in Bytes /\ restored \in Bytes
  /\ stage \notin {"tokenize_native", "exited"} => IsText(fixture) /\ IsText(restored)

\* The ID lists are lists of IDs, and answers once they were asked for.
ListsInv ==
  /\ native_ids \in Ids /\ nereids_ids \in Ids
  /\ stage \notin {"tokenize_native", "exited"} => native_ids \in Tokenize(native_server, fixture)
  /\ stage \notin ToTokenize \cup {"exited"} => nereids_ids \in Tokenize(native_server, restored)

\* A decoding is unknown until it is asked for, and then one of its ID list.
Decoding(list, decode) ==
  /\ decode = "exact" => fixture \in Detokenize(native_server, list)
  /\ decode = "different" => Detokenize(native_server, list) \ {fixture} # {}

DecodesInv ==
  /\ stage \in ToDecode => native_decode = "unavailable"
  /\ stage \in ToDecode \cup {"decode_nereids"} => nereids_decode = "unavailable"
  /\ Decoding(native_ids, native_decode) /\ Decoding(nereids_ids, nereids_decode)

\* The receipt is not written before it is complete, and the verdict follows it.
ReceiptInv ==
  /\ stage \notin {"verdict", "exited"} => v0_receipt \in FoundReceipts
  /\ stage = "verdict" =>
       /\ v0_receipt.file = "complete"
       /\ v0_receipt.du_restore_exact = RestoreExact
       /\ v0_receipt.ids_exact = IdsExact
       /\ v0_receipt.first_divergence = FirstDivergence(native_ids, nereids_ids)

FixtureInv == GivenInv /\ ListsInv /\ DecodesInv /\ ReceiptInv /\ VerdictMatchesReceipt

LEMMA FixtureInitInv == FixtureInit => FixtureInv
<1> SUFFICES ASSUME FixtureInit PROVE FixtureInv
  OBVIOUS
<1> USE DEF FixtureInit
<1>1. GivenInv
  BY FixturesAssumption DEF GivenInv
<1>2. ListsInv
  BY DEF ListsInv, Ids, ToTokenize
<1>3. DecodesInv
  BY DEF DecodesInv, Decoding
<1>4. ReceiptInv /\ VerdictMatchesReceipt
  BY DEF ReceiptInv, VerdictMatchesReceipt
<1> QED
  BY <1>1, <1>2, <1>3, <1>4 DEF FixtureInv

LEMMA FixtureNextInv == FixtureInv /\ [FixtureNext \/ FixtureEnded]_fixtureVars => FixtureInv'
<1> SUFFICES ASSUME FixtureInv, [FixtureNext \/ FixtureEnded]_fixtureVars PROVE FixtureInv'
  OBVIOUS
<1> USE DEF FixtureInv, given, tokens, decodes, ToTokenize, ToDecode
<1>1. CASE TokenizeNative
  <2> USE <1>1 DEF TokenizeNative
  <2>1. native_ids' \in Tokenize(native_server, fixture) /\ native_ids' \in Ids
    BY IdsAreAnswered DEF GivenInv, Tokenize
  <2>2. GivenInv'
    BY DEF GivenInv
  <2>3. ListsInv'
    BY <2>1 DEF ListsInv
  <2>4. DecodesInv'
    BY DEF DecodesInv, Decoding
  <2>5. ReceiptInv' /\ VerdictMatchesReceipt'
    BY DEF ReceiptInv, VerdictMatchesReceipt
  <2> QED
    BY <2>2, <2>3, <2>4, <2>5
<1>2. CASE TokenizeNereids
  <2> USE <1>2 DEF TokenizeNereids
  <2>1. nereids_ids' \in Tokenize(native_server, restored) /\ nereids_ids' \in Ids
    BY IdsAreAnswered DEF GivenInv, Tokenize
  <2>2. GivenInv'
    BY DEF GivenInv
  <2>3. ListsInv'
    BY <2>1 DEF ListsInv
  <2>4. DecodesInv'
    BY DEF DecodesInv, Decoding
  <2>5. ReceiptInv' /\ VerdictMatchesReceipt'
    BY DEF ReceiptInv, VerdictMatchesReceipt
  <2> QED
    BY <2>2, <2>3, <2>4, <2>5
<1>3. CASE HashIds
  <2> USE <1>3 DEF HashIds
  <2>1. GivenInv' /\ ListsInv'
    BY DEF GivenInv, ListsInv
  <2>2. DecodesInv'
    BY DEF DecodesInv, Decoding
  <2>3. ReceiptInv' /\ VerdictMatchesReceipt'
    BY DEF ReceiptInv, VerdictMatchesReceipt
  <2> QED
    BY <2>1, <2>2, <2>3
<1>4. CASE CallOrHashFails
  <2> USE <1>4 DEF CallOrHashFails, Exit
  <2>1. GivenInv' /\ ListsInv'
    BY DEF GivenInv, ListsInv
  <2>2. DecodesInv'
    BY DEF DecodesInv, Decoding
  <2>3. v0_receipt \in FoundReceipts
    BY DEF ReceiptInv
  <2>4. v0_receipt.file # "complete"
    BY <2>3 DEF FoundReceipts, NoReceipt, OlderReceipt
  <2>5. ReceiptInv' /\ VerdictMatchesReceipt'
    BY <2>4 DEF ReceiptInv, VerdictMatchesReceipt
  <2> QED
    BY <2>1, <2>2, <2>5
<1>5. CASE DecodeNative
  <2> USE <1>5 DEF DecodeNative
  <2>1. Decoding(native_ids, native_decode')
    BY DecodingIsAnswered DEF Decoding
  <2>2. GivenInv' /\ ListsInv'
    BY DEF GivenInv, ListsInv
  <2>3. DecodesInv'
    BY <2>1 DEF DecodesInv, Decoding
  <2>4. ReceiptInv' /\ VerdictMatchesReceipt'
    BY DEF ReceiptInv, VerdictMatchesReceipt
  <2> QED
    BY <2>2, <2>3, <2>4
<1>6. CASE DecodeNereids
  <2> USE <1>6 DEF DecodeNereids
  <2>1. Decoding(nereids_ids, nereids_decode')
    BY DecodingIsAnswered DEF Decoding
  <2>2. GivenInv' /\ ListsInv'
    BY DEF GivenInv, ListsInv
  <2>3. DecodesInv'
    BY <2>1 DEF DecodesInv, Decoding
  <2>4. ReceiptInv' /\ VerdictMatchesReceipt'
    BY DEF ReceiptInv, VerdictMatchesReceipt
  <2> QED
    BY <2>2, <2>3, <2>4
<1>7. CASE WriteV0Receipt
  <2> USE <1>7 DEF WriteV0Receipt, Exit
  <2>1. stage' \in {"verdict", "exited"}
    OBVIOUS
  <2>2. GivenInv' /\ ListsInv'
    BY <2>1 DEF GivenInv, ListsInv
  <2>3. DecodesInv'
    BY <2>1 DEF DecodesInv, Decoding
  <2>4. CASE stage' = "verdict"
    <3>1. /\ v0_receipt'.file = "complete"
          /\ v0_receipt'.du_restore_exact = RestoreExact
          /\ v0_receipt'.ids_exact = IdsExact
          /\ v0_receipt'.first_divergence = FirstDivergence(native_ids, nereids_ids)
      BY <2>4
    <3>2. RestoreExact' = RestoreExact /\ IdsExact' = IdsExact
      BY DEF RestoreExact, IdsExact
    <3>3. FirstDivergence(native_ids, nereids_ids)' = FirstDivergence(native_ids, nereids_ids)
      OBVIOUS
    <3> QED
      BY <2>2, <2>3, <2>4, <3>1, <3>2, <3>3 DEF ReceiptInv, VerdictMatchesReceipt
  <2>5. CASE stage' = "exited"
    <3>1. v0_receipt' \in {v0_receipt, TruncatedReceipt} /\ exit_code' = 1
      BY <2>5
    <3>2. v0_receipt \in FoundReceipts
      BY DEF ReceiptInv
    <3>3. v0_receipt'.file # "complete"
      BY <3>1, <3>2 DEF FoundReceipts, NoReceipt, OlderReceipt, TruncatedReceipt
    <3> QED
      BY <2>2, <2>3, <2>5, <3>1, <3>3 DEF ReceiptInv, VerdictMatchesReceipt
  <2> QED
    BY <2>1, <2>4, <2>5
<1>8. CASE Verdict
  <2> USE <1>8 DEF Verdict, Exit
  <2>1. GivenInv' /\ ListsInv'
    BY DEF GivenInv, ListsInv
  <2>2. DecodesInv'
    BY DEF DecodesInv, Decoding
  <2>3. FirstDivergence(native_ids, nereids_ids) = 0 <=> native_ids = nereids_ids
    BY DivergenceOfEqual DEF ListsInv
  <2>4. /\ v0_receipt.file = "complete"
        /\ v0_receipt.du_restore_exact = RestoreExact
        /\ v0_receipt.ids_exact = IdsExact
        /\ v0_receipt.first_divergence = FirstDivergence(native_ids, nereids_ids)
    BY DEF ReceiptInv
  <2>5. /\ exit_code' = (IF RestoreExact /\ IdsExact THEN 0 ELSE 2)
        /\ v0_receipt' = v0_receipt /\ stage' = "exited"
    OBVIOUS
  <2>6. VerdictMatchesReceipt'
    <3>1. exit_code' # 1
      BY <2>5
    <3>2. (exit_code' = 0) = (RestoreExact /\ IdsExact)
      BY <2>5
    <3>3. v0_receipt.ids_exact = (v0_receipt.first_divergence = 0)
      BY <2>3, <2>4 DEF IdsExact
    <3> QED
      BY <2>4, <2>5, <3>1, <3>2, <3>3 DEF VerdictMatchesReceipt
  <2>7. ReceiptInv'
    BY DEF ReceiptInv
  <2> QED
    BY <2>1, <2>2, <2>6, <2>7
<1>9. CASE UNCHANGED fixtureVars
  <2> USE <1>9 DEF fixtureVars
  <2>1. GivenInv' /\ ListsInv'
    BY DEF GivenInv, ListsInv
  <2>2. DecodesInv'
    BY DEF DecodesInv, Decoding
  <2>3. ReceiptInv'
    BY DEF ReceiptInv, RestoreExact, IdsExact
  <2>4. VerdictMatchesReceipt'
    BY DEF VerdictMatchesReceipt
  <2> QED
    BY <2>1, <2>2, <2>3, <2>4
<1> QED
  BY <1>1, <1>2, <1>3, <1>4, <1>5, <1>6, <1>7, <1>8, <1>9 DEF FixtureNext, FixtureEnded

LEMMA FixtureInvariant == FixtureSpec => []FixtureInv
BY FixtureInitInv, FixtureNextInv, PTL DEF FixtureSpec

\* The exit code of nereids-direct-id-fixture and its receipt tell the same
\* story: an error leaves no complete receipt, and a verdict one that agrees
\* with it, whose divergence is named exactly when the IDs differ.
THEOREM VerdictIsInReceipt == FixtureSpec => []VerdictMatchesReceipt
<1>1. FixtureInv => VerdictMatchesReceipt
  BY DEF FixtureInv
<1> QED
  BY <1>1, FixtureInvariant, PTL

\* Whatever nereids-direct-id-fixture records is an answer of the server, whole,
\* wherever a connection cut a reply off: its own search for keys, brackets and
\* quotes never makes another list or another text of it.
THEOREM AnswersAreRecorded == FixtureSpec => []RecordsOwnAnswers
<1>1. FixtureInv => RecordsOwnAnswers
  BY DEF FixtureInv, ListsInv, DecodesInv, Decoding, ToTokenize, RecordsOwnAnswers
<1> QED
  BY <1>1, FixtureInvariant, PTL
=============================================================================
