------------------------- MODULE DirectIdV2_proofs -------------------------
(***************************************************************************)
(* Proofs about DirectIdV2, for every span file, DU stream, drop and       *)
(* server: a snapshot that loads is never refused again, the window put to *)
(* the server completes the kept tokens, a fixed-drop candidate is final   *)
(* once the oracle is known, and a run implements VerifiedRepair.          *)
(*                                                                         *)
(* The invariant keeps what the preflight found out of the files (Loaded)  *)
(* for every later step, and the place of the boundary it gives to the     *)
(* kept tokens (KeptOK).                                                   *)
(*                                                                         *)
(* For a server that answers every call from one model, SelectInv adds     *)
(* that no drop gone past is exact: the pieces of the kept tokens end      *)
(* where the stored boundary says, so that a trial is exact when the       *)
(* splice of the model's own pieces is.                                    *)
(***************************************************************************)
EXTENDS DirectIdV2, SpanLemmas, SequenceTheorems

\* The files are in order and the snapshot is of them.
Loaded == prefix # <<>> /\ Problem = "none" /\ snapshot = Snapshot

LoadedOK ==
  /\ pc \notin {"start", "failed"} \/ trials # <<>> => Loaded
  /\ pc = "start" => trials = <<>>

\* A boundary has been read of at least one kept token.
KeptOK ==
  pc \in {"tokenize_window", "verify", "write_receipt"} \/ (pc = "tokenize_oracle" /\ ~Searching) =>
    kept_count \in 1..Len(snapshot.native_ids)

ChosenOK ==
  pc = "write_receipt" => ids = oracle_ids /\ decoded = full

\* No oracle is known while a fixed-drop candidate is constructed.
OracleOK ==
  ~Searching /\ pc \in {"start", "validate", "construct", "tokenize_window"} => oracle_ids = <<>>

IInv == TypeOK /\ LoadedOK /\ KeptOK /\ ChosenOK /\ OracleOK /\ ValidatedOnce
-----------------------------------------------------------------------------
\* The files and options of a run, by their parts.
LEMMA ArgFacts ==
  ASSUME TypeOK
  PROVE  /\ prefix \in Bytes /\ delta \in Bytes /\ full \in Bytes
         /\ Len(prefix) \in Nat /\ Len(delta) \in Nat /\ Len(full) = Len(prefix) + Len(delta)
         /\ input.native \in Seq(NativeSpan) /\ Len(input.native) \in Nat
         /\ input.prefix_du \in Bytes /\ input.delta_du \in Bytes
         /\ options.drop \in Nat \cup {NoDrop}
<1>1. input \in Files
  BY DEF TypeOK
<1>2. prefix \in Bytes /\ delta \in Bytes /\ input.native \in Seq(NativeSpan)
      /\ input.prefix_du \in Bytes /\ input.delta_du \in Bytes
  BY <1>1 DEF Files, prefix, delta
<1>3. options.drop \in Nat \cup {NoDrop}
  <2>1. options \in [drop : Nat \cup {NoDrop}, max_drop_tokens : Nat, server : Servers]
    BY InputsAssumption DEF TypeOK
  <2> QED
    BY <2>1
<1> QED
  BY <1>2, <1>3 DEF full, Bytes

\* The tokens of the span file have numbers for their ends.
LEMMA SpanTyped ==
  ASSUME TypeOK, NEW i \in 1..Len(input.native)
  PROVE  /\ input.native[i].byte_start \in Nat /\ input.native[i].byte_end \in Nat
         /\ input.native[i].id \in Nat
<1>1. input.native[i] \in NativeSpan
  BY ArgFacts
<1> QED
  BY <1>1 DEF NativeSpan

\* Files in order are a partition of the prefix that the snapshot's own check
\* accepts whenever the DU state is of the prefix.
LEMMA PreflightChecks ==
  ASSUME TypeOK, prefix # <<>>, WellFormed(NativeStream, prefix), input.prefix_du = prefix
  PROVE  SnapshotValid(Snapshot, prefix)
<1> DEFINE tokens == input.native
           len == Len(input.native)
           raw_len == Len(prefix)
<1>1. /\ raw_len \in Nat /\ len \in Nat /\ raw_len # 0
      /\ \A i \in 1..len : tokens[i].byte_start \in Nat /\ tokens[i].byte_end \in Nat
  BY ArgFacts, SpanTyped, SMTT(30) DEF Bytes
<1>2. /\ Partition(tokens, raw_len)
      /\ \A i \in 1..len :
           tokens[i].bytes = Slice(prefix, tokens[i].byte_start, tokens[i].byte_end)
  BY DEF WellFormed, NativeStream
<1>3. /\ \A i \in 1..len :
           /\ tokens[i].byte_start < tokens[i].byte_end
           /\ tokens[i].byte_end <= raw_len
           /\ tokens[i].byte_start = IF i = 1 THEN 0 ELSE tokens[i - 1].byte_end
      /\ raw_len = IF len = 0 THEN 0 ELSE tokens[len].byte_end
  <2>1. Len(tokens) \in Nat /\ len = Len(tokens)
    BY <1>1
  <2> HIDE DEF tokens, len, raw_len
  <2> QED
    BY <1>1, <1>2, <2>1, PartitionFacts
<1>4. len # 0 /\ tokens # <<>> /\ tokens[len].byte_end = raw_len
  BY <1>1, <1>3
<1>5. /\ Snapshot.prefix_len = raw_len /\ Snapshot.prefix_sha256 = Sha256(prefix)
      /\ Snapshot.native_spans = tokens /\ Snapshot.du_state = prefix
      /\ Len(Snapshot.native_ids) = len
      /\ \A i \in 1..len : Snapshot.native_ids[i] = tokens[i].id
  BY <1>1 DEF Snapshot
<1> HIDE DEF tokens, raw_len, len
<1>6. len = Len(tokens)
  BY DEF tokens, len
<1> QED
  BY <1>1, <1>2, <1>3, <1>4, <1>5, <1>6 DEF SnapshotValid, raw_len

\* What the preflight found out, as the later steps use it: the snapshot is a
\* partition of the prefix, and the DU streams hold the prefix and the delta.
LEMMA SnapshotFacts ==
  ASSUME TypeOK, Loaded
  PROVE  /\ snapshot.prefix_len = Len(prefix) /\ snapshot.du_state = prefix
         /\ input.delta_du = delta
         /\ snapshot.native_spans = input.native
         /\ snapshot.native_ids \in Ids /\ Len(snapshot.native_ids) = Len(input.native)
         /\ Len(input.native) \in Nat /\ Len(input.native) # 0
         /\ \A i \in 1..Len(input.native) :
              /\ input.native[i].byte_start \in Nat /\ input.native[i].byte_end \in Nat
              /\ input.native[i].byte_start < input.native[i].byte_end
              /\ input.native[i].byte_end <= Len(prefix)
              /\ input.native[i].byte_start = IF i = 1 THEN 0 ELSE input.native[i - 1].byte_end
              /\ input.native[i].bytes =
                   Slice(prefix, input.native[i].byte_start, input.native[i].byte_end)
         /\ SnapshotValid(snapshot, snapshot.du_state)
<1> DEFINE tokens == input.native
           len == Len(input.native)
<1>1. /\ \A i \in 1..len : tokens[i].id <= MaxId
      /\ SnapshotValid(Snapshot, prefix) /\ input.delta_du = delta
  <2>1. Problem = "none"
    BY DEF Loaded
  <2>2. SnapshotValid(Snapshot, prefix) /\ input.delta_du = delta
        /\ ~ \E i \in 1..len : tokens[i].id > MaxId
    BY <2>1, Zenon DEF Problem
  <2>3. \A i \in 1..len : tokens[i].id \in Nat
    BY SpanTyped
  <2> QED
    BY <2>2, <2>3, MaxIdAssumption
<1>2. /\ snapshot = Snapshot
      /\ Snapshot.prefix_len = Len(prefix) /\ Snapshot.prefix_sha256 = Sha256(prefix)
      /\ Snapshot.native_spans = tokens /\ Snapshot.du_state = input.prefix_du
      /\ Snapshot.native_ids = [i \in 1..len |-> tokens[i].id]
  BY DEF Loaded, Snapshot
<1>3. len \in Nat /\ \A i \in 1..len : tokens[i].id \in 0..MaxId
  BY <1>1, ArgFacts, SpanTyped, MaxIdAssumption
<1>4. Snapshot.native_ids \in Ids /\ Len(Snapshot.native_ids) = len
  BY <1>2, <1>3 DEF Ids
<1>5. input.prefix_du = prefix /\ tokens # <<>>
  BY <1>1, <1>2 DEF SnapshotValid
<1>6. len # 0
  BY <1>5, ArgFacts
<1>7. \A i \in 1..len :
        /\ tokens[i].byte_start = IF i = 1 THEN 0 ELSE tokens[i - 1].byte_end
        /\ tokens[i].byte_end > tokens[i].byte_start
        /\ tokens[i].byte_end <= Len(prefix)
        /\ tokens[i].bytes = Slice(prefix, tokens[i].byte_start, tokens[i].byte_end)
  BY <1>1, <1>2, ZenonT(40) DEF SnapshotValid
<1>8. \A i \in 1..len : tokens[i].byte_start \in Nat /\ tokens[i].byte_end \in Nat
  BY SpanTyped
<1>9. SnapshotValid(snapshot, snapshot.du_state)
  BY <1>1, <1>2, <1>5
<1>10. \A i \in 1..len : tokens[i].byte_start < tokens[i].byte_end
  BY <1>7, <1>8
<1> QED
  BY <1>1, <1>2, <1>3, <1>4, <1>5, <1>6, <1>7, <1>8, <1>9, <1>10

\* A boundary read of a kept token lies behind the start of the prefix and no
\* further than its end.
LEMMA BoundaryFacts ==
  ASSUME TypeOK, Loaded, kept_count \in 1..Len(snapshot.native_ids)
  PROVE  /\ repair_start = input.native[kept_count].byte_end
         /\ repair_start \in Nat /\ repair_start # 0 /\ repair_start <= Len(prefix)
<1>1. kept_count \in 1..Len(input.native)
  BY SnapshotFacts
<1>2. repair_start = input.native[kept_count].byte_end
  BY SnapshotFacts DEF repair_start
<1>3. /\ input.native[kept_count].byte_start \in Nat /\ input.native[kept_count].byte_end \in Nat
      /\ input.native[kept_count].byte_start < input.native[kept_count].byte_end
      /\ input.native[kept_count].byte_end <= Len(prefix)
  BY <1>1, SnapshotFacts
<1> QED
  BY <1>2, <1>3

\* A drop is refused for no other reason than that it leaves no token.
LEMMA RejectedFacts ==
  ASSUME TypeOK, Loaded
  PROVE  /\ RejectedDrop \in {"drop_exceeds_prefix", "full_window_forbidden", "none"}
         /\ RejectedDrop = "full_window_forbidden" => drop_tokens = Len(snapshot.native_ids)
         /\ RejectedDrop = "none" <=> kept_count \in 1..Len(snapshot.native_ids)
<1>1. drop_tokens \in Nat /\ Len(snapshot.native_ids) \in Nat /\ Len(prefix) \in Nat
      /\ snapshot.prefix_len = Len(prefix)
  BY SnapshotFacts, ArgFacts DEF TypeOK
<1>2. kept_count = Len(snapshot.native_ids) - drop_tokens
  BY DEF kept_count
<1>3. CASE kept_count < 0
  BY <1>1, <1>2, <1>3 DEF RejectedDrop
<1>4. CASE kept_count = 0
  BY <1>1, <1>2, <1>4 DEF RejectedDrop
<1>5. CASE kept_count > 0
  <2>1. kept_count \in 1..Len(snapshot.native_ids)
    BY <1>1, <1>2, <1>5
  <2>2. repair_start \in Nat /\ repair_start # 0 /\ repair_start <= Len(prefix)
    BY <2>1, BoundaryFacts
  <2>3. RejectedDrop = "none"
    BY <1>1, <1>5, <2>1, <2>2 DEF RejectedDrop
  <2> QED
    BY <2>1, <2>3
<1> QED
  BY <1>1, <1>2, <1>3, <1>4, <1>5

\* Three sequences in a row, grouped the other way.
LEMMA Regroup ==
  ASSUME NEW front \in Seq(Nat), NEW rest \in Seq(Nat), NEW more \in Seq(Nat)
  PROVE  /\ (front \o rest) \o more = front \o (rest \o more)
         /\ Len(rest \o more) = Len(rest) + Len(more)
BY ConcatAssociative, SMTT(30)

\* Bytes cut in two are whole again when the rest, and what follows it, is put
\* behind the front.
LEMMA CutAndContinue ==
  ASSUME NEW bytes \in Seq(Nat), NEW more \in Seq(Nat), NEW place \in 0..Len(bytes)
  PROVE  /\ Slice(bytes, 0, place) \o (Slice(bytes, place, Len(bytes)) \o more) = bytes \o more
         /\ Len(Slice(bytes, place, Len(bytes)) \o more) = Len(bytes) - place + Len(more)
<1> DEFINE front == Slice(bytes, 0, place)
           rest == Slice(bytes, place, Len(bytes))
<1>1. Len(bytes) \in Nat /\ place \in Nat /\ place <= Len(bytes) /\ 0 <= place /\ 0 \in Nat
      /\ Len(bytes) <= Len(bytes) /\ bytes \in Bytes
  BY DEF Bytes
<1>2. front \in Seq(Nat) /\ rest \in Seq(Nat) /\ Len(rest) = Len(bytes) - place
  BY <1>1 DEF Slice
<1>3. front \o rest = bytes
  <2>1. front \o rest = Slice(bytes, 0, Len(bytes))
    BY <1>1, SlicesMeet
  <2> QED
    BY <1>1, <2>1, SliceWhole
<1>4. (front \o rest) \o more = front \o (rest \o more)
      /\ Len(rest \o more) = Len(rest) + Len(more)
  BY <1>2, Regroup, ZenonT(30)
<1> HIDE DEF front, rest
<1>5. front \o (rest \o more) = bytes \o more /\ Len(rest \o more) = Len(bytes) - place + Len(more)
  BY <1>2, <1>3, <1>4
<1> QED
  BY <1>5 DEF front, rest

\* The kept tokens are the prefix up to the boundary, and the window is the rest
\* of the prefix and the delta.
LEMMA WindowFacts ==
  ASSUME TypeOK, Loaded, kept_count \in 1..Len(snapshot.native_ids)
  PROVE  /\ Reconstruct(SubSeq(snapshot.native_spans, 1, kept_count)) \o repair_window = full
         /\ Len(repair_window) \in Nat
         /\ Len(repair_window) < Len(full) /\ Len(delta) <= Len(repair_window)
<1> DEFINE kept == SubSeq(input.native, 1, kept_count)
           len == kept_count
           place == repair_start
<1>1. /\ len \in 1..Len(input.native) /\ Len(input.native) \in Nat /\ len \in Nat /\ len # 0
      /\ input.native \in Seq(NativeSpan)
      /\ prefix \in Bytes /\ delta \in Bytes /\ Len(prefix) \in Nat
  BY SnapshotFacts, ArgFacts
<1>2. place \in Nat /\ place # 0 /\ place <= Len(prefix) /\ place = input.native[len].byte_end
  BY BoundaryFacts
<1>3. Len(kept) = len /\ \A i \in 1..len : kept[i] = input.native[i]
  BY <1>1
<1>4. \A i \in 1..len :
        /\ kept[i].byte_start \in Nat /\ kept[i].byte_end \in Nat
        /\ kept[i].byte_start <= kept[i].byte_end /\ kept[i].byte_end <= Len(prefix)
        /\ kept[i].byte_start = IF i = 1 THEN 0 ELSE kept[i - 1].byte_end
        /\ kept[i].bytes = Slice(prefix, kept[i].byte_start, kept[i].byte_end)
  <2> SUFFICES ASSUME NEW i \in 1..len
               PROVE  /\ kept[i].byte_start \in Nat /\ kept[i].byte_end \in Nat
                      /\ kept[i].byte_start <= kept[i].byte_end /\ kept[i].byte_end <= Len(prefix)
                      /\ kept[i].byte_start = IF i = 1 THEN 0 ELSE kept[i - 1].byte_end
                      /\ kept[i].bytes = Slice(prefix, kept[i].byte_start, kept[i].byte_end)
    OBVIOUS
  <2>1. i \in 1..Len(input.native) /\ kept[i] = input.native[i]
        /\ (i # 1 => kept[i - 1] = input.native[i - 1])
    BY <1>1, <1>3
  <2>2. /\ input.native[i].byte_start \in Nat /\ input.native[i].byte_end \in Nat
        /\ input.native[i].byte_start < input.native[i].byte_end
        /\ input.native[i].byte_end <= Len(prefix)
        /\ input.native[i].byte_start = IF i = 1 THEN 0 ELSE input.native[i - 1].byte_end
        /\ input.native[i].bytes =
             Slice(prefix, input.native[i].byte_start, input.native[i].byte_end)
    BY <2>1, SnapshotFacts
  <2> HIDE DEF kept
  <2> QED
    BY <2>1, <2>2
<1>5. repair_window = Slice(prefix, place, Len(prefix)) \o delta
  BY SnapshotFacts DEF repair_window
<1>6. Reconstruct(kept) = Slice(prefix, 0, place)
  <2> HIDE DEF kept, len, place
  <2>1. Reconstruct(kept) = Slice(prefix, 0, IF len = 0 THEN 0 ELSE kept[len].byte_end)
    BY <1>1, <1>3, <1>4, ReconstructSlices, SMTT(30)
  <2> QED
    BY <1>1, <1>2, <1>3, <2>1
<1>7. /\ Reconstruct(kept) \o repair_window = full
      /\ Len(repair_window) = Len(prefix) - place + Len(delta)
  <2> HIDE DEF kept, len, place
  <2>1. place \in 0..Len(prefix) /\ prefix \in Seq(Nat) /\ delta \in Seq(Nat)
    BY <1>1, <1>2 DEF Bytes
  <2> QED
    BY <1>5, <1>6, <2>1, CutAndContinue, ZenonT(30) DEF full
<1>8. kept = SubSeq(snapshot.native_spans, 1, kept_count)
  BY SnapshotFacts
<1>9. Len(delta) \in Nat /\ Len(full) = Len(prefix) + Len(delta)
  BY ArgFacts
<1> HIDE DEF kept, len, place
<1>10. \A a, b, c \in Nat : a # 0 /\ a <= b => /\ b - a + c \in Nat /\ b - a + c < b + c
                                               /\ c <= b - a + c
  OBVIOUS
<1>11. Reconstruct(SubSeq(snapshot.native_spans, 1, kept_count)) \o repair_window = full
  BY <1>7, <1>8
<1>12. Len(prefix) \in Nat /\ place \in Nat /\ place # 0 /\ place <= Len(prefix)
       /\ Len(delta) \in Nat
  BY <1>1, <1>2, <1>9
<1>13. /\ Len(prefix) - place + Len(delta) \in Nat
       /\ Len(prefix) - place + Len(delta) < Len(prefix) + Len(delta)
       /\ Len(delta) <= Len(prefix) - place + Len(delta)
  BY <1>10, <1>12, Zenon
<1> QED
  BY <1>7, <1>9, <1>11, <1>13, Zenon
-----------------------------------------------------------------------------
\* What a snapshot holds has its types once the files are in order.
LEMMA SnapshotTyped ==
  ASSUME TypeOK, Problem = "none"
  PROVE  Snapshot \in [prefix_len : Nat, prefix_sha256 : Bytes, native_ids : Ids,
                       native_spans : Seq(NativeSpan), du_state : Bytes]
<1> DEFINE len == Len(input.native)
           numbers == [i \in 1..len |-> input.native[i].id]
<1>1. ~ \E i \in 1..len : input.native[i].id > MaxId
  BY Zenon DEF Problem
<1>2. len \in Nat /\ \A i \in 1..len : input.native[i].id \in 0..MaxId
  BY <1>1, ArgFacts, SpanTyped, MaxIdAssumption
<1>3. numbers \in Ids
  BY <1>2 DEF Ids
<1>4. /\ Len(prefix) \in Nat /\ Sha256(prefix) \in Bytes /\ input.native \in Seq(NativeSpan)
      /\ input.prefix_du \in Bytes
  BY ArgFacts DEF Sha256
<1> HIDE DEF numbers
<1>5. [prefix_len |-> Len(prefix), prefix_sha256 |-> Sha256(prefix), native_ids |-> numbers,
       native_spans |-> input.native, du_state |-> input.prefix_du]
        \in [prefix_len : Nat, prefix_sha256 : Bytes, native_ids : Ids,
             native_spans : Seq(NativeSpan), du_state : Bytes]
  BY <1>3, <1>4
<1> QED
  BY <1>5 DEF Snapshot, numbers

\* The files and what is wrong with them do not change, and so the snapshot
\* stays the one that was loaded.
LEMMA FilesStay ==
  ASSUME UNCHANGED args
  PROVE  /\ UNCHANGED <<prefix, delta, full, server>>
         /\ Searching' = Searching /\ Problem' = Problem /\ Snapshot' = Snapshot
         /\ UNCHANGED snapshot => Loaded' = Loaded
<1>1. input' = input /\ options' = options
  BY DEF args
<1>2. prefix' = prefix /\ delta' = delta /\ server' = server /\ Searching' = Searching
  BY <1>1 DEF prefix, delta, server, Searching
<1>3. full' = full /\ Snapshot' = Snapshot /\ NativeStream' = NativeStream
  BY <1>1, <1>2 DEF full, Snapshot, NativeStream
<1>4. Problem' = Problem
  BY <1>1, <1>2, <1>3 DEF Problem
<1> QED
  BY <1>2, <1>3, <1>4 DEF Loaded

\* The first state satisfies the invariant.
LEMMA InitInvariant == Init => IInv
<1> SUFFICES ASSUME Init PROVE IInv
  OBVIOUS
<1>1. input \in Files /\ options \in Options
  BY InputsAssumption DEF Init
<1>2. snapshot \in [prefix_len : Nat, prefix_sha256 : Bytes, native_ids : Ids,
                    native_spans : Seq(NativeSpan), du_state : Bytes]
  BY DEF Init, NoSnapshot, Bytes, Ids
<1>3. TypeOK
  BY <1>1, <1>2 DEF Init, TypeOK, Ids, Bytes, FoundReceipts, NoReceipt, OlderReceipt
<1> QED
  BY <1>3 DEF Init, IInv, LoadedOK, KeptOK, ChosenOK, OracleOK, ValidatedOnce

\* Preflight refuses a snapshot of well-formed files for its DU state alone, and
\* what it lets through is loaded.
LEMMA PreflightInvariant == IInv /\ Preflight => IInv'
<1> SUFFICES ASSUME IInv, Preflight PROVE IInv'
  OBVIOUS
<1>1. TypeOK /\ LoadedOK /\ OracleOK /\ ValidatedOnce
  BY DEF IInv
<1>2. /\ pc = "start" /\ trials = <<>>
      /\ UNCHANGED <<args, answers, search, receipt>>
      /\ \/ pc' = "failed" /\ error' \in {"load", "empty_prefix"} /\ UNCHANGED snapshot
         \/ prefix # <<>> /\ Problem # "none" /\ Fail(Problem) /\ UNCHANGED snapshot
         \/ /\ prefix # <<>> /\ Problem = "none" /\ snapshot' = Snapshot
            /\ pc' = IF Searching THEN "tokenize_oracle" ELSE "validate"
            /\ UNCHANGED error
  BY <1>1 DEF Preflight, Fail, LoadedOK
<1>3. UNCHANGED <<input, options, oracle_ids, decoded, drop_tokens, ids, trials, receipt>>
  BY <1>2 DEF args, answers, search
<1>4. /\ Searching' = Searching /\ prefix' = prefix /\ Problem' = Problem
      /\ Snapshot' = Snapshot
  BY <1>2, FilesStay
<1>5. CASE pc' = "failed" /\ error' \in {"load", "empty_prefix"} /\ UNCHANGED snapshot
  BY <1>1, <1>2, <1>3, <1>4, <1>5 DEF IInv, TypeOK, LoadedOK, KeptOK, ChosenOK, OracleOK,
     ValidatedOnce
<1>6. CASE prefix # <<>> /\ Problem # "none" /\ Fail(Problem) /\ UNCHANGED snapshot
  <2>1. Problem \in {"native_stream", "id_width", "snapshot", "delta"}
    BY <1>6 DEF Problem
  <2>2. Problem = "snapshot" => WellFormed(NativeStream, prefix) /\ ~SnapshotValid(Snapshot, prefix)
    BY DEF Problem
  <2>3. Problem = "snapshot" => input.prefix_du # prefix
    BY <1>1, <1>6, <2>2, PreflightChecks
  <2> QED
    BY <1>1, <1>2, <1>3, <1>4, <1>6, <2>1, <2>3 DEF Fail, IInv, TypeOK, LoadedOK, KeptOK,
       ChosenOK, OracleOK, ValidatedOnce
<1>7. CASE /\ prefix # <<>> /\ Problem = "none" /\ snapshot' = Snapshot
           /\ pc' = IF Searching THEN "tokenize_oracle" ELSE "validate"
           /\ UNCHANGED error
  <2>1. Loaded'
    BY <1>4, <1>7 DEF Loaded
  <2>2. snapshot' \in [prefix_len : Nat, prefix_sha256 : Bytes, native_ids : Ids,
                       native_spans : Seq(NativeSpan), du_state : Bytes]
    BY <1>1, <1>7, SnapshotTyped
  <2>3. TypeOK'
    BY <1>1, <1>2, <1>3, <1>7, <2>2 DEF TypeOK
  <2> QED
    BY <1>1, <1>2, <1>3, <1>4, <1>7, <2>1, <2>3 DEF IInv, TypeOK, LoadedOK, KeptOK,
       ChosenOK, OracleOK, ValidatedOnce
<1> QED
  BY <1>2, <1>5, <1>6, <1>7

\* A snapshot that was loaded is not refused when it is looked at again.
LEMMA ValidateInvariant == IInv /\ Validate => IInv'
<1> SUFFICES ASSUME IInv, Validate PROVE IInv'
  OBVIOUS
<1>1. TypeOK /\ LoadedOK /\ OracleOK /\ ValidatedOnce /\ pc = "validate"
  BY DEF IInv, Validate
<1>2. Loaded
  BY <1>1 DEF LoadedOK
<1>3. pc' = "construct" /\ error' = error
  BY <1>1, <1>2, SnapshotFacts DEF Validate
<1>4. /\ UNCHANGED <<input, options, snapshot, oracle_ids, decoded, ids, trials, receipt>>
      /\ drop_tokens' = IF Searching THEN 0 ELSE options.drop
  BY DEF Validate, args, answers
<1>5. drop_tokens' \in Nat
  BY <1>1, <1>4, ArgFacts DEF Searching
<1>6. Searching' = Searching /\ Loaded' = Loaded /\ prefix' = prefix
  BY <1>4, FilesStay DEF args
<1>7. TypeOK'
  BY <1>1, <1>3, <1>4, <1>5 DEF TypeOK
<1> QED
  BY <1>1, <1>2, <1>3, <1>4, <1>6, <1>7 DEF IInv, LoadedOK, KeptOK, ChosenOK, OracleOK,
     ValidatedOnce

\* A comparison of a candidate is a trial.
LEMMA ComparedTyped ==
  ASSUME TypeOK, Loaded, kept_count \in 1..Len(snapshot.native_ids), NEW exact \in BOOLEAN
  PROVE  /\ Compared(drop_tokens, repair_window, exact) \in RepairTrial
         /\ Compared(drop_tokens, repair_window, exact).rejected = "none"
<1>1. drop_tokens \in Nat /\ Len(repair_window) \in Nat
  BY WindowFacts DEF TypeOK
<1> QED
  BY <1>1 DEF Compared, RepairTrial

\* The oracle is learnt before the search, or after a fixed-drop candidate.
LEMMA OracleInvariant == IInv /\ TokenizeOracle => IInv'
<1> SUFFICES ASSUME IInv, TokenizeOracle PROVE IInv'
  OBVIOUS
<1>1. TypeOK /\ LoadedOK /\ KeptOK /\ ValidatedOnce /\ pc = "tokenize_oracle"
  BY DEF IInv, TokenizeOracle
<1>2. Loaded
  BY <1>1 DEF LoadedOK
<1>3. UNCHANGED <<input, options, snapshot, drop_tokens, ids, decoded, receipt, error>>
      /\ oracle_ids' \in Ids
  BY DEF TokenizeOracle, Tokenize, args
<1>4. Searching' = Searching /\ Loaded' = Loaded /\ prefix' = prefix
  BY <1>3, FilesStay DEF args
<1>5. CASE Searching /\ pc' = "validate" /\ UNCHANGED trials
  <2>1. TypeOK'
    BY <1>1, <1>3, <1>5 DEF TypeOK
  <2> QED
    BY <1>1, <1>2, <1>3, <1>4, <1>5, <2>1 DEF IInv, LoadedOK, KeptOK, ChosenOK, OracleOK,
       ValidatedOnce
<1>6. CASE /\ ~Searching /\ pc' = "verify"
           /\ trials' = <<Compared(drop_tokens, repair_window, ids = oracle_ids')>>
  <2>1. kept_count \in 1..Len(snapshot.native_ids) /\ kept_count' = kept_count
    BY <1>1, <1>3, <1>6 DEF KeptOK, kept_count
  <2>2. (ids = oracle_ids') \in BOOLEAN
    OBVIOUS
  <2>3. /\ Compared(drop_tokens, repair_window, ids = oracle_ids') \in RepairTrial
        /\ Compared(drop_tokens, repair_window, ids = oracle_ids').rejected = "none"
    BY <1>1, <1>2, <2>1, <2>2, ComparedTyped
  <2>4. /\ trials' \in Seq(RepairTrial)
        /\ \A i \in 1..Len(trials') : trials'[i].rejected = "none"
    BY <1>6, <2>3
  <2>5. TypeOK'
    BY <1>1, <1>3, <1>6, <2>4 DEF TypeOK
  <2> QED
    BY <1>1, <1>2, <1>3, <1>4, <1>6, <2>1, <2>4, <2>5 DEF IInv, LoadedOK, KeptOK, ChosenOK,
       OracleOK, ValidatedOnce
<1> QED
  BY <1>5, <1>6 DEF TokenizeOracle

\* A drop is tried when it leaves a token, and its boundary was read of one.
LEMMA ConstructInvariant == IInv /\ Construct => IInv'
<1> SUFFICES ASSUME IInv, Construct PROVE IInv'
  OBVIOUS
<1>1. TypeOK /\ LoadedOK /\ OracleOK /\ ValidatedOnce /\ pc = "construct"
  BY DEF IInv, Construct
<1>2. Loaded
  BY <1>1 DEF LoadedOK
<1>3. UNCHANGED <<input, options, snapshot, oracle_ids, decoded, receipt>>
  BY DEF Construct, args, answers
<1>4. Searching' = Searching /\ Loaded' = Loaded /\ prefix' = prefix
  BY <1>3, FilesStay DEF args
<1>5. CASE Exhausted /\ Fail("exhausted") /\ UNCHANGED search
  <2>1. TypeOK'
    BY <1>1, <1>3, <1>5 DEF TypeOK, Fail, search
  <2> QED
    BY <1>1, <1>2, <1>3, <1>4, <1>5, <2>1 DEF Fail, search, IInv, LoadedOK, KeptOK, ChosenOK,
       OracleOK, ValidatedOnce
<1>6. CASE /\ RejectedDrop # "none" /\ Searching
           /\ trials' = Append(trials, Rejected(drop_tokens, RejectedDrop))
           /\ drop_tokens' = drop_tokens + 1
           /\ UNCHANGED <<pc, ids, error>>
  <2>1. /\ drop_tokens \in Nat /\ trials \in Seq(RepairTrial) /\ RejectedDrop \in Rejection
        /\ RejectedDrop # "repair_start_outside_prefix"
        /\ RejectedDrop = "full_window_forbidden" => drop_tokens = Len(snapshot.native_ids)
    BY <1>1, <1>2, <1>6, RejectedFacts DEF TypeOK, Rejection
  <2>2. /\ Rejected(drop_tokens, RejectedDrop) \in RepairTrial
        /\ Rejected(drop_tokens, RejectedDrop).rejected = RejectedDrop
        /\ Rejected(drop_tokens, RejectedDrop).drop_tokens = drop_tokens
    BY <2>1 DEF Rejected, RepairTrial
  <2>3. trials' \in Seq(RepairTrial) /\ drop_tokens' \in Nat
    BY <1>6, <2>1, <2>2
  <2>4. TypeOK'
    BY <1>1, <1>3, <1>6, <2>3 DEF TypeOK
  <2>5. \A i \in 1..Len(trials') :
          \/ i \in 1..Len(trials) /\ trials'[i] = trials[i]
          \/ trials'[i] = Rejected(drop_tokens, RejectedDrop)
    BY <1>6, <2>1, <2>2
  <2>6. ValidatedOnce'
    BY <1>1, <1>3, <1>6, <2>1, <2>2, <2>5 DEF ValidatedOnce, prefix
  <2> QED
    BY <1>1, <1>2, <1>3, <1>4, <1>6, <2>4, <2>6 DEF IInv, LoadedOK, KeptOK, ChosenOK, OracleOK
<1>7. CASE RejectedDrop # "none" /\ Fail(RejectedDrop) /\ UNCHANGED search
  <2>1. RejectedDrop \in Rejection
    BY <1>1, <1>2, <1>7, RejectedFacts DEF Rejection
  <2>2. TypeOK'
    BY <1>1, <1>3, <1>7, <2>1 DEF TypeOK, Fail, search, Rejection
  <2>3. error' # "invalid_snapshot" /\ error' # "snapshot"
    BY <1>7, <2>1 DEF Fail, Rejection
  <2> QED
    BY <1>1, <1>2, <1>3, <1>4, <1>7, <2>2, <2>3 DEF Fail, search, IInv, LoadedOK, KeptOK,
       ChosenOK, OracleOK, ValidatedOnce
<1>8. CASE RejectedDrop = "none" /\ pc' = "tokenize_window" /\ UNCHANGED <<search, error>>
  <2>1. TypeOK'
    BY <1>1, <1>3, <1>8 DEF TypeOK, search
  <2>2. kept_count \in 1..Len(snapshot.native_ids) /\ kept_count' = kept_count
    BY <1>1, <1>2, <1>3, <1>8, RejectedFacts DEF kept_count, search
  <2> QED
    BY <1>1, <1>2, <1>3, <1>4, <1>8, <2>1, <2>2 DEF search, IInv, LoadedOK, KeptOK, ChosenOK,
       OracleOK, ValidatedOnce
<1> QED
  BY <1>5, <1>6, <1>7, <1>8 DEF Construct

\* The front of a sequence has the elements' type.
LEMMA FrontTyped ==
  ASSUME NEW S, NEW s \in Seq(S), NEW n \in 0..Len(s)
  PROVE  SubSeq(s, 1, n) \in Seq(S)
OBVIOUS

\* A candidate is compared with the oracle only in the search.
LEMMA WindowInvariant == IInv /\ TokenizeWindow => IInv'
<1> SUFFICES ASSUME IInv, TokenizeWindow PROVE IInv'
  OBVIOUS
<1>1. TypeOK /\ LoadedOK /\ KeptOK /\ OracleOK /\ ValidatedOnce /\ pc = "tokenize_window"
  BY DEF IInv, TokenizeWindow
<1>2. Loaded /\ kept_count \in 1..Len(snapshot.native_ids)
  BY <1>1 DEF LoadedOK, KeptOK
<1>3. UNCHANGED <<input, options, snapshot, oracle_ids, decoded, receipt, error>>
  BY DEF TokenizeWindow, args, answers
<1>4. Searching' = Searching /\ Loaded' = Loaded /\ prefix' = prefix
  BY <1>3, FilesStay DEF args
<1>5. PICK repair_ids \in Tokenize(server, repair_window) :
        /\ ids' = SubSeq(snapshot.native_ids, 1, kept_count) \o repair_ids
        /\ \/ ~Searching /\ pc' = "tokenize_oracle" /\ UNCHANGED <<drop_tokens, trials>>
           \/ /\ Searching
              /\ trials' = Append(trials, Compared(drop_tokens, repair_window, ids' = oracle_ids))
              /\ \/ ids' = oracle_ids /\ pc' = "verify" /\ UNCHANGED drop_tokens
                 \/ ids' # oracle_ids /\ pc' = "construct" /\ drop_tokens' = drop_tokens + 1
  BY DEF TokenizeWindow
<1>6. ids' \in Ids
  <2>1. repair_ids \in Ids
    BY <1>5 DEF Tokenize
  <2>2. snapshot.native_ids \in Seq(0..MaxId) /\ kept_count \in 0..Len(snapshot.native_ids)
    BY <1>1, <1>2, SnapshotFacts DEF Ids
  <2>3. SubSeq(snapshot.native_ids, 1, kept_count) \in Ids
    BY <2>2, FrontTyped DEF Ids
  <2> QED
    BY <1>5, <2>1, <2>3 DEF Ids
<1>7. drop_tokens \in Nat /\ trials \in Seq(RepairTrial)
  BY <1>1 DEF TypeOK
<1>8. CASE ~Searching /\ pc' = "tokenize_oracle" /\ UNCHANGED <<drop_tokens, trials>>
  <2>1. TypeOK'
    BY <1>1, <1>3, <1>6, <1>8 DEF TypeOK
  <2>2. kept_count' = kept_count
    BY <1>3, <1>8 DEF kept_count
  <2> QED
    BY <1>1, <1>2, <1>3, <1>4, <1>8, <2>1, <2>2 DEF IInv, LoadedOK, KeptOK, ChosenOK,
       OracleOK, ValidatedOnce
<1>9. CASE Searching /\ trials' = Append(trials, Compared(drop_tokens, repair_window, ids' = oracle_ids))
  <2>1. (ids' = oracle_ids) \in BOOLEAN
    OBVIOUS
  <2>2. /\ Compared(drop_tokens, repair_window, ids' = oracle_ids) \in RepairTrial
        /\ Compared(drop_tokens, repair_window, ids' = oracle_ids).rejected = "none"
    BY <1>1, <1>2, <2>1, ComparedTyped
  <2>3. /\ trials' \in Seq(RepairTrial)
        /\ \A i \in 1..Len(trials') :
             \/ i \in 1..Len(trials) /\ trials'[i] = trials[i]
             \/ trials'[i].rejected = "none"
    BY <1>7, <1>9, <2>2
  <2>4. /\ pc' \in {"verify", "construct"} /\ drop_tokens' \in Nat
        /\ pc' = "verify" => UNCHANGED drop_tokens
    <3>1. \/ pc' = "verify" /\ UNCHANGED drop_tokens
          \/ pc' = "construct" /\ drop_tokens' = drop_tokens + 1
      BY <1>5, <1>9
    <3> QED
      BY <1>7, <3>1
  <2>5. TypeOK'
    BY <1>1, <1>3, <1>6, <2>3, <2>4 DEF TypeOK
  <2>6. ValidatedOnce'
    BY <1>1, <1>3, <1>4, <2>3 DEF ValidatedOnce
  <2>7. KeptOK'
    BY <1>2, <1>3, <2>4 DEF KeptOK, kept_count
  <2> QED
    BY <1>1, <1>2, <1>3, <1>4, <1>9, <2>4, <2>5, <2>6, <2>7 DEF IInv, LoadedOK, ChosenOK,
       OracleOK
<1> QED
  BY <1>5, <1>8, <1>9

\* No later step touches the search or the snapshot.
LEMMA FinishInvariant ==
  IInv /\ (VerifyCandidate \/ WriteReceipt \/ CallFails \/ UNCHANGED vars) => IInv'
<1> SUFFICES ASSUME IInv, VerifyCandidate \/ WriteReceipt \/ CallFails \/ UNCHANGED vars
             PROVE  IInv'
  OBVIOUS
<1>1. TypeOK /\ LoadedOK /\ KeptOK /\ ChosenOK /\ OracleOK /\ ValidatedOnce
  BY DEF IInv
<1>2. UNCHANGED <<input, options, snapshot, oracle_ids, drop_tokens, ids, trials>>
  BY DEF VerifyCandidate, WriteReceipt, CallFails, vars, args, answers, search
<1>3. /\ Searching' = Searching /\ Loaded' = Loaded /\ prefix' = prefix /\ full' = full
      /\ kept_count' = kept_count
  BY <1>2, FilesStay DEF args, kept_count
<1>4. ASSUME decoded' \in Bytes, receipt'.file \in {"absent", "older", "truncated", "complete"},
             \/ /\ pc' = "failed"
                /\ error' \in {"not_verified", "write_receipt", "not_text", "server"}
             \/ /\ error' = error
                /\ \/ UNCHANGED <<pc, decoded>>
                   \/ pc = "verify" /\ pc' = "write_receipt" /\ ids = oracle_ids /\ decoded' = full
                   \/ pc = "write_receipt" /\ pc' = "passed"
      PROVE  IInv'
  <2>1. TypeOK'
    BY <1>1, <1>2, <1>4 DEF TypeOK
  <2>2. ValidatedOnce'
    BY <1>1, <1>2, <1>3, <1>4 DEF ValidatedOnce
  <2>3. \/ pc' = "failed" \/ pc' = pc
        \/ pc = "verify" /\ pc' = "write_receipt"
        \/ pc = "write_receipt" /\ pc' = "passed"
    BY <1>4
  <2>4. LoadedOK' /\ OracleOK'
    BY <1>1, <1>2, <1>3, <2>3 DEF LoadedOK, OracleOK
  <2>5. KeptOK'
    BY <1>1, <1>2, <1>3, <2>3 DEF KeptOK
  <2>6. ChosenOK'
    BY <1>1, <1>2, <1>3, <1>4 DEF ChosenOK
  <2> QED
    BY <2>1, <2>2, <2>4, <2>5, <2>6 DEF IInv
<1>5. decoded \in Bytes /\ receipt.file \in {"absent", "older", "truncated", "complete"}
  BY <1>1 DEF TypeOK
<1>6. CASE VerifyCandidate
  BY <1>4, <1>5, <1>6 DEF VerifyCandidate, Detokenize, Fail
<1>7. CASE WriteReceipt
  BY <1>4, <1>5, <1>7 DEF WriteReceipt, TruncatedReceipt, Fail, answers
<1>8. CASE CallFails
  BY <1>4, <1>5, <1>8 DEF CallFails, Fail, answers
<1>9. CASE UNCHANGED vars
  BY <1>4, <1>5, <1>9 DEF vars, answers
<1> QED
  BY <1>6, <1>7, <1>8, <1>9

\* Every step of the run preserves the invariant.
LEMMA NextInvariant == IInv /\ [Next \/ Terminated]_vars => IInv'
BY PreflightInvariant, ValidateInvariant, OracleInvariant, ConstructInvariant, WindowInvariant,
   FinishInvariant DEF Next, Terminated

\* The invariant holds in every reachable state.
LEMMA Invariant == Spec => []IInv
BY InitInvariant, NextInvariant, PTL DEF Spec
-----------------------------------------------------------------------------
\* The variables keep their types, whatever the files hold and the server
\* answers.
THEOREM TypeCorrect == Spec => []TypeOK
<1>1. IInv => TypeOK
  BY DEF IInv
<1> QED
  BY <1>1, Invariant, PTL

\* A snapshot of a validated span file passes validate_against ever after, and
\* no stored boundary lies outside the prefix or at its start: the checks
\* repeated in the search cannot fail.
THEOREM RevalidationNeverFails == Spec => []ValidatedOnce
<1>1. IInv => ValidatedOnce
  BY DEF IInv
<1> QED
  BY <1>1, Invariant, PTL

\* The bytes of the kept tokens and the repair window together are the prefix
\* and the delta, and the window is smaller than they are: construct_du_aware
\* neither loses a byte at the boundary nor tokenizes the whole input.
THEOREM WindowsCompleteTheKeptTokens == Spec => []WindowCompletesKeptTokens
<1>1. IInv => WindowCompletesKeptTokens
  <2>1. ASSUME IInv, pc = "tokenize_window"
        PROVE  TypeOK /\ Loaded /\ kept_count \in 1..Len(snapshot.native_ids)
    BY <2>1 DEF IInv, LoadedOK, KeptOK
  <2> QED
    BY <2>1, WindowFacts DEF WindowCompletesKeptTokens
<1> QED
  BY <1>1, Invariant, PTL

\* Fixed-drop acceptance does not depend on the oracle: a candidate changes only
\* while none is known.
THEOREM FixedDropIsFinal == Spec => FixedDropIgnoresOracle
<1>1. IInv /\ [Next \/ Terminated]_vars
        => [~Searching /\ ids' # ids => oracle_ids = <<>> /\ oracle_ids' = <<>>]_vars
  <2> SUFFICES ASSUME IInv, Next \/ Terminated, ~Searching, ids' # ids
               PROVE  oracle_ids = <<>> /\ oracle_ids' = <<>>
    OBVIOUS
  <2>1. TokenizeWindow
    BY DEF Next, Terminated, Preflight, Validate, TokenizeOracle, Construct, VerifyCandidate,
       WriteReceipt, CallFails, vars, search
  <2> QED
    BY <2>1 DEF TokenizeWindow, answers, IInv, OracleOK
<1> QED
  BY <1>1, Invariant, PTL DEF Spec, FixedDropIgnoresOracle

\* A run implements VerifiedRepair: it passes, and leaves a complete receipt,
\* only for a candidate that equals the oracle, decodes to prefix || delta and
\* was built from a window smaller than that.
THEOREM RepairIsVerified == Spec => Refines
<1>1. Init => Promise!Init
  BY DEF Init, Promise!Init, FoundReceipts, NoReceipt, OlderReceipt
<1>2. IInv /\ [Next \/ Terminated]_vars => [Promise!Next]_(Promise!absVars)
  <2> SUFFICES ASSUME IInv, [Next \/ Terminated]_vars
               PROVE  [Promise!Next]_(Promise!absVars)
    OBVIOUS
  <2>1. ASSUME pc \notin {"passed", "failed"}, pc' \notin {"passed", "failed"},
               UNCHANGED <<args, receipt>>
        PROVE  Promise!Work
    BY <2>1, FilesStay DEF Promise!Work
  <2>2. ASSUME pc \notin {"passed", "failed"}, pc' = "failed", UNCHANGED args,
               receipt' \in {receipt, TruncatedReceipt}
        PROVE  Promise!Fail
    BY <2>2, FilesStay DEF TruncatedReceipt, Promise!Fail
  <2>3. CASE Preflight \/ Validate \/ TokenizeOracle \/ VerifyCandidate \/ CallFails
    <3>1. /\ UNCHANGED <<args, receipt>> /\ pc \notin {"passed", "failed"}
          /\ pc' \notin {"passed", "failed"} \/ pc' = "failed"
      BY <2>3 DEF Preflight, Validate, TokenizeOracle, VerifyCandidate, CallFails, Fail
    <3> QED
      BY <2>1, <2>2, <3>1 DEF Promise!Next
  <2>4. CASE Construct \/ TokenizeWindow
    <3>1. /\ UNCHANGED <<args, receipt>> /\ pc \notin {"passed", "failed"}
          /\ pc' \notin {"passed", "failed"} \/ pc' = "failed"
      BY <2>4 DEF Construct, TokenizeWindow, Fail
    <3> QED
      BY <2>1, <2>2, <3>1 DEF Promise!Next
  <2>5. CASE WriteReceipt
    <3>1. CASE receipt' \in {receipt, TruncatedReceipt} /\ Fail("write_receipt")
      BY <2>2, <2>5, <3>1 DEF WriteReceipt, Fail, Promise!Next
    <3>2. CASE ~(receipt' \in {receipt, TruncatedReceipt} /\ Fail("write_receipt"))
      <4>1. /\ pc = "write_receipt" /\ pc' = "passed" /\ UNCHANGED <<args, answers, search>>
            /\ receipt'.file = "complete" /\ receipt'.ids = ids
            /\ receipt'.repair_window_bytes = Len(repair_window)
        BY <2>5, <3>2 DEF WriteReceipt
      <4>2. /\ TypeOK /\ Loaded /\ kept_count \in 1..Len(snapshot.native_ids)
            /\ ids = oracle_ids /\ decoded = full
        BY <4>1 DEF IInv, LoadedOK, KeptOK, ChosenOK
      <4>3. /\ Len(repair_window) < Len(prefix) + Len(delta)
            /\ Len(repair_window) >= Len(delta)
        <5>1. /\ Len(repair_window) < Len(full) /\ Len(delta) <= Len(repair_window)
              /\ Len(full) = Len(prefix) + Len(delta)
              /\ Len(repair_window) \in Nat /\ Len(delta) \in Nat
          BY <4>2, WindowFacts, ArgFacts
        <5> QED
          BY <5>1
      <4>4. UNCHANGED <<prefix, delta, oracle_ids, decoded>>
        BY <4>1, FilesStay DEF answers
      <4> QED
        BY <4>1, <4>2, <4>3, <4>4 DEF full, Promise!Next, Promise!Pass, Promise!Verified
    <3> QED
      BY <3>1, <3>2
  <2>6. CASE UNCHANGED vars
    <3>1. UNCHANGED <<args, oracle_ids, decoded, receipt, pc>>
      BY <2>6 DEF vars, answers
    <3> QED
      BY <3>1, FilesStay DEF Promise!absVars
  <2> QED
    BY <2>3, <2>4, <2>5, <2>6 DEF Next, Terminated
<1> QED
  BY <1>1, <1>2, Invariant, PTL DEF Spec, Refines, Promise!Spec
-----------------------------------------------------------------------------
\* What the server answered, and no drop gone past is exact.
AnswersKept ==
  /\ input \in Inputs
  /\ pc \in {"validate", "construct", "tokenize_window", "verify", "write_receipt", "passed"} =>
       oracle_ids \in Tokenize(server, full)
  /\ pc \in {"construct", "tokenize_window", "verify", "write_receipt", "passed"} =>
       \A d \in 0..(drop_tokens - 1) : ~ExactDrop(d)
  /\ pc \in {"verify", "write_receipt"} => ids = oracle_ids

SelectInv ==
  Searching /\ server \in FaithfulServers /\ OwnSpans => AnswersKept /\ ChoosesFirstExactDrop

\* What is exact depends on the files and the server alone.
LEMMA ExactStays ==
  ASSUME UNCHANGED args
  PROVE  /\ Searching' = Searching /\ OwnSpans' = OwnSpans /\ server' = server /\ full' = full
         /\ \A d : ExactDrop(d)' <=> ExactDrop(d)
<1>1. input' = input /\ options' = options
  BY DEF args
<1> QED
  BY <1>1 DEF Searching, OwnSpans, server, full, prefix, delta, ExactDrop

\* The pieces of the first n tokens of a span file end where the n-th span does.
LEMMA KeptLength ==
  ASSUME TypeOK, Loaded, OwnSpans, NEW n \in 1..Len(input.native)
  PROVE  LET kept == [k \in 1..n |-> input.native[k].id]
         IN  Len(kept) = n /\ Len(BytesOf(server, kept)) = input.native[n].byte_end
<1> DEFINE spans == input.native
           kept == [k \in 1..n |-> spans[k].id]
           parts == [k \in 1..n |-> spans[k].bytes]
           f == [k \in 0..n |-> Total(parts, k)]
           g == [k \in 0..n |-> IF k = 0 THEN 0 ELSE spans[k].byte_end]
<1>1. /\ n \in Nat /\ n # 0 /\ Len(spans) \in Nat /\ n <= Len(spans) /\ prefix \in Bytes
      /\ \A k \in 1..Len(spans) :
           /\ spans[k].byte_start \in Nat /\ spans[k].byte_end \in Nat
           /\ spans[k].byte_start < spans[k].byte_end /\ spans[k].byte_end <= Len(prefix)
           /\ spans[k].byte_start = IF k = 1 THEN 0 ELSE spans[k - 1].byte_end
           /\ spans[k].bytes = Slice(prefix, spans[k].byte_start, spans[k].byte_end)
  BY SnapshotFacts, ArgFacts
<1>2. \A k \in 1..n : k \in 1..Len(spans) /\ Piece(server, spans[k].id) = spans[k].bytes
  BY <1>1 DEF OwnSpans
<1> HIDE DEF spans
<1>3. \A k \in 1..n : /\ spans[k].bytes \in Bytes
                      /\ Len(spans[k].bytes) = spans[k].byte_end - spans[k].byte_start
  <2> SUFFICES ASSUME NEW k \in 1..n
               PROVE  /\ spans[k].bytes \in Bytes
                      /\ Len(spans[k].bytes) = spans[k].byte_end - spans[k].byte_start
    OBVIOUS
  <2> DEFINE a == spans[k].byte_start
             b == spans[k].byte_end
  <2>1. a \in Nat /\ b \in Nat /\ a < b /\ b <= Len(prefix) /\ spans[k].bytes = Slice(prefix, a, b)
    BY <1>1, <1>2
  <2> HIDE DEF a, b
  <2>2. Slice(prefix, a, b) \in Bytes /\ Len(Slice(prefix, a, b)) = b - a
    BY <1>1, <2>1, SMTT(30) DEF Slice, Bytes
  <2> QED
    BY <2>1, <2>2 DEF a, b
<1>4. /\ Len(kept) = n /\ \A k \in 1..n : kept[k] = spans[k].id
      /\ parts \in Seq(Bytes) /\ Len(parts) = n /\ \A k \in 1..n : parts[k] = spans[k].bytes
  BY <1>1, <1>3
<1>5. BytesOf(server, kept) = FlattenSeq(parts)
  <2>1. [k \in 1..Len(kept) |-> Piece(server, kept[k])] = parts
    BY <1>2, <1>4
  <2> QED
    BY <2>1 DEF BytesOf
<1> HIDE DEF kept, parts
<1>6. Len(FlattenSeq(parts)) = Total(parts, n)
  BY <1>4, TotalIsLength
<1>7. \A k \in 0..n : f[k] = g[k]
  <2>1. f[0] = g[0]
    BY <1>1, TotalNext
  <2>2. ASSUME NEW k \in 1..n, f[k - 1] = g[k - 1] PROVE f[k] = g[k]
    <3>1. k \in 0..n /\ k - 1 \in 0..n /\ (k - 1 = 0 <=> k = 1) /\ k # 0
      BY <1>1
    <3>2. f[k] = f[k - 1] + Len(parts[k])
      BY <1>4, <3>1, TotalFacts
    <3>3. Len(parts[k]) = spans[k].byte_end - spans[k].byte_start
      BY <1>3, <1>4
    <3>4. spans[k].byte_start = g[k - 1] /\ g[k] = spans[k].byte_end
      BY <1>1, <1>2, <3>1
    <3>5. spans[k].byte_start \in Nat /\ spans[k].byte_end \in Nat
      BY <1>1, <1>2
    <3> HIDE DEF f, g
    <3> QED
      BY <2>2, <3>2, <3>3, <3>4, <3>5
  <2>3. \A k \in 1..n : f[k - 1] = g[k - 1] => f[k] = g[k]
    BY <2>2
  <2>4. n \in Nat
    BY <1>1
  <2> HIDE DEF f, g
  <2> QED
    BY <2>1, <2>3, <2>4, JoinsAgree, ZenonT(40)
<1>8. Total(parts, n) = spans[n].byte_end
  <2>1. f[n] = g[n] /\ n \in 0..n
    BY <1>1, <1>7
  <2> QED
    BY <1>1, <2>1
<1> QED
  BY <1>4, <1>5, <1>6, <1>8 DEF kept, spans

\* What follows the first of two byte strings is the second.
LEMMA EndOfJoin ==
  ASSUME NEW a \in Seq(Nat), NEW b \in Seq(Nat)
  PROVE  Slice(a \o b, Len(a), Len(a \o b)) = b
BY DEF Slice

\* The window behind a boundary is the end of the whole input.
LEMMA WindowIsEnd ==
  ASSUME TypeOK, Loaded, kept_count \in 1..Len(snapshot.native_ids)
  PROVE  repair_start \in 0..Len(prefix) /\ repair_window = Slice(full, repair_start, Len(full))
<1> DEFINE place == repair_start
           front == Slice(prefix, 0, place)
           rest == Slice(prefix, place, Len(prefix))
<1>1. /\ place \in 0..Len(prefix) /\ Len(prefix) \in Nat
      /\ prefix \in Seq(Nat) /\ delta \in Seq(Nat)
  BY BoundaryFacts, ArgFacts DEF Bytes
<1>2. repair_window = rest \o delta
  BY SnapshotFacts DEF repair_window
<1> HIDE DEF place
<1>3. front \in Seq(Nat) /\ Len(front) = place /\ rest \in Seq(Nat)
  BY <1>1 DEF Slice
<1>4. front \o (rest \o delta) = full
  BY <1>1, CutAndContinue, Zenon DEF full
<1> HIDE DEF front, rest
<1>5. rest \o delta \in Seq(Nat)
  BY <1>1, <1>3
<1>6. Slice(full, place, Len(full)) = rest \o delta
  BY <1>3, <1>4, <1>5, EndOfJoin
<1> QED
  BY <1>1, <1>2, <1>6 DEF place

\* The run's server is faithful on the texts the run puts to it.
LEMMA ServerFaithful ==
  ASSUME TypeOK, input \in Inputs, server \in FaithfulServers
  PROVE  /\ FaithfulOn(server, full)
         /\ \A k \in 0..Len(prefix) : FaithfulOn(server, Slice(full, k, Len(full)))
<1>1. server \in {o.server : o \in Options} \cap FaithfulServers
  BY DEF server, TypeOK
<1>2. \A k \in 0..Len(prefix) : FaithfulOn(server, Slice(full, k, Len(full)))
  BY <1>1, FaithfulAssumption DEF full, prefix, delta
<1>3. Slice(full, 0, Len(full)) = full /\ 0 \in 0..Len(prefix)
  BY ArgFacts, SliceWhole
<1> QED
  BY <1>2, <1>3

\* The trial of a drop is exact when the drop is.
LEMMA TrialDecides ==
  ASSUME TypeOK, Loaded, AnswersKept, server \in FaithfulServers, OwnSpans,
         kept_count \in 1..Len(snapshot.native_ids), oracle_ids \in Tokenize(server, full),
         NEW repair_ids \in Tokenize(server, repair_window)
  PROVE  SubSeq(snapshot.native_ids, 1, kept_count) \o repair_ids = oracle_ids
           <=> ExactDrop(drop_tokens)
<1> DEFINE n == kept_count
           kept == [k \in 1..n |-> input.native[k].id]
           place == repair_start
<1>1. /\ n \in 1..Len(input.native) /\ n = Len(input.native) - drop_tokens
      /\ Len(input.native) \in Nat /\ drop_tokens \in Nat
      /\ snapshot.native_ids = [i \in 1..Len(input.native) |-> input.native[i].id]
      /\ snapshot.native_ids \in Ids /\ Len(snapshot.native_ids) = Len(input.native)
  BY SnapshotFacts DEF kept_count, TypeOK, Loaded, Snapshot
<1>2. SubSeq(snapshot.native_ids, 1, n) = kept /\ kept # <<>>
  <2>1. n \in Nat /\ n >= 1 /\ n <= Len(input.native) /\ Len(kept) = n
    BY <1>1
  <2> HIDE DEF n
  <2>2. SubSeq(snapshot.native_ids, 1, n) = [k \in 1..n |-> snapshot.native_ids[k]]
    BY <1>1, <2>1 DEF Ids
  <2>3. \A k \in 1..n : snapshot.native_ids[k] = input.native[k].id
    BY <1>1, <2>1
  <2>4. SubSeq(snapshot.native_ids, 1, n) = kept
    BY <2>2, <2>3
  <2> QED
    BY <2>1, <2>4
<1>3. Len(BytesOf(server, kept)) = place
  BY <1>1, KeptLength, BoundaryFacts
<1>4. place \in 0..Len(prefix) /\ repair_window = Slice(full, place, Len(full))
  BY WindowIsEnd
<1>5. FaithfulOn(server, full) /\ FaithfulOn(server, repair_window)
  BY <1>4, ServerFaithful DEF AnswersKept
<1>6. Tokenize(server, full) = {oracle_ids} /\ Tokenize(server, repair_window) = {repair_ids}
  BY <1>5 DEF FaithfulOn
<1>7. drop_tokens < Len(input.native) /\ Len(input.native) - drop_tokens = n
  BY <1>1
<1>8. ExactDrop(drop_tokens) <=> ExactSplice(server, kept, full)
  BY <1>7 DEF ExactDrop
<1> HIDE DEF kept, n, place
<1>9. ExactSplice(server, kept, full) <=> kept \o repair_ids = oracle_ids
  BY <1>2, <1>3, <1>4, <1>6 DEF ExactSplice
<1> QED
  BY <1>2, <1>8, <1>9 DEF n

\* Where the search goes on, the drops gone past are one more.
LEMMA OneDropMore ==
  ASSUME drop_tokens \in Nat, drop_tokens' = drop_tokens + 1, UNCHANGED args,
         ~ExactDrop(drop_tokens), \A d \in 0..(drop_tokens - 1) : ~ExactDrop(d)
  PROVE  \A d \in 0..(drop_tokens' - 1) : ~ExactDrop(d)'
<1>1. \A d \in 0..(drop_tokens + 1 - 1) : d = drop_tokens \/ d \in 0..(drop_tokens - 1)
  OBVIOUS
<1>2. \A d \in 0..(drop_tokens + 1 - 1) : ~ExactDrop(d)
  BY <1>1
<1>3. \A d \in 0..(drop_tokens' - 1) : ~ExactDrop(d)
  BY <1>2
<1> QED
  BY <1>3, ExactStays

\* The first state has gone past no drop.
LEMMA InitSelects == Init => SelectInv
BY DEF Init, SelectInv, AnswersKept, ChoosesFirstExactDrop

\* Every step keeps the first exact drop ahead of the search, or at it.
LEMMA NextSelects == IInv /\ SelectInv /\ [Next \/ Terminated]_vars => SelectInv'
<1> SUFFICES ASSUME IInv, SelectInv, [Next \/ Terminated]_vars PROVE SelectInv'
  OBVIOUS
<1>1. UNCHANGED args
  <2>1. Next => UNCHANGED args
    BY DEF Next, Preflight, Validate, TokenizeOracle, Construct, TokenizeWindow, VerifyCandidate,
       WriteReceipt, CallFails
  <2> QED
    BY <2>1 DEF Terminated, vars
<1>2. /\ Searching' = Searching /\ OwnSpans' = OwnSpans /\ server' = server /\ full' = full
      /\ \A d : ExactDrop(d)' <=> ExactDrop(d)
      /\ input' = input /\ options' = options
  BY <1>1, ExactStays DEF args
<1> SUFFICES ASSUME Searching, server \in FaithfulServers, OwnSpans
             PROVE  AnswersKept' /\ ChoosesFirstExactDrop'
  BY <1>2 DEF SelectInv
<1>3. /\ TypeOK /\ LoadedOK /\ KeptOK /\ AnswersKept /\ ChoosesFirstExactDrop
      /\ drop_tokens \in Nat
  BY DEF IInv, SelectInv, TypeOK
<1> DEFINE Named(reason) == reason \notin {"exhausted", "not_verified"}
<1>4. ASSUME pc' = "failed", Named(error') PROVE AnswersKept' /\ ChoosesFirstExactDrop'
  BY <1>2, <1>3, <1>4 DEF AnswersKept, ChoosesFirstExactDrop
<1>5. CASE Preflight
  <2>1. \/ pc' = "failed" /\ Named(error')
        \/ pc' = "tokenize_oracle" /\ error' = error
    BY <1>5 DEF Preflight, Fail, Problem
  <2> QED
    BY <1>2, <1>3, <1>4, <2>1 DEF AnswersKept, ChoosesFirstExactDrop, TypeOK
<1>6. CASE Validate
  <2>1. /\ pc = "validate" /\ drop_tokens' = 0 /\ UNCHANGED oracle_ids
        /\ \/ pc' = "failed" /\ Named(error')
           \/ pc' = "construct" /\ error' = error
    BY <1>6 DEF Validate, Fail, answers
  <2> QED
    BY <1>2, <1>3, <1>4, <2>1 DEF AnswersKept, ChoosesFirstExactDrop, TypeOK
<1>7. CASE TokenizeOracle
  <2>1. /\ pc = "tokenize_oracle" /\ oracle_ids' \in Tokenize(server, full) /\ pc' = "validate"
        /\ error' = error
    BY <1>7 DEF TokenizeOracle
  <2> QED
    BY <1>2, <1>3, <2>1 DEF AnswersKept, ChoosesFirstExactDrop, TypeOK
<1>8. CASE Construct
  <2>1. /\ pc = "construct" /\ error = "none" /\ UNCHANGED oracle_ids /\ Loaded
        /\ oracle_ids \in Tokenize(server, full)
        /\ \A d \in 0..(drop_tokens - 1) : ~ExactDrop(d)
    BY <1>3, <1>8 DEF Construct, answers, LoadedOK, AnswersKept, TypeOK
  <2>2. CASE Exhausted /\ Fail("exhausted") /\ UNCHANGED search
    <3>1. options.max_drop_tokens \in Nat
      <4>1. options \in [drop : Nat \cup {NoDrop}, max_drop_tokens : Nat, server : Servers]
        BY <1>3, InputsAssumption DEF TypeOK
      <4> QED
        BY <4>1
    <3>2. \A d \in 0..options.max_drop_tokens : d \in 0..(drop_tokens - 1)
      BY <1>3, <2>2, <3>1 DEF Exhausted
    <3>3. \A d \in 0..options.max_drop_tokens' : ~ExactDrop(d)'
      BY <1>2, <2>1, <3>2
    <3> QED
      BY <1>2, <1>3, <2>2, <3>3 DEF Fail, AnswersKept, ChoosesFirstExactDrop
  <2>3. CASE RejectedDrop # "none" /\ drop_tokens' = drop_tokens + 1 /\ UNCHANGED <<pc, ids, error>>
    <3>1. ~(kept_count \in 1..Len(snapshot.native_ids)) /\ Len(snapshot.native_ids) = Len(input.native)
          /\ Len(input.native) \in Nat
      BY <1>3, <2>1, <2>3, RejectedFacts, SnapshotFacts
    <3>2. ~ExactDrop(drop_tokens)
      BY <1>3, <3>1 DEF kept_count, ExactDrop
    <3>3. \A d \in 0..(drop_tokens' - 1) : ~ExactDrop(d)'
      BY <1>1, <1>3, <2>1, <2>3, <3>2, OneDropMore
    <3> QED
      BY <1>2, <1>3, <2>1, <2>3, <3>3 DEF AnswersKept, ChoosesFirstExactDrop
  <2>4. CASE pc' = "tokenize_window" /\ UNCHANGED <<search, error>>
    BY <1>2, <1>3, <2>1, <2>4 DEF search, AnswersKept, ChoosesFirstExactDrop
  <2> QED
    BY <1>8, <2>2, <2>3, <2>4 DEF Construct
<1>9. CASE TokenizeWindow
  <2>1. /\ pc = "tokenize_window" /\ error = "none" /\ UNCHANGED <<oracle_ids, error>> /\ Loaded
        /\ oracle_ids \in Tokenize(server, full) /\ kept_count \in 1..Len(snapshot.native_ids)
        /\ \A d \in 0..(drop_tokens - 1) : ~ExactDrop(d)
    BY <1>3, <1>9 DEF TokenizeWindow, answers, LoadedOK, KeptOK, AnswersKept, TypeOK
  <2>2. PICK repair_ids \in Tokenize(server, repair_window) :
          /\ ids' = SubSeq(snapshot.native_ids, 1, kept_count) \o repair_ids
          /\ \/ ids' = oracle_ids /\ pc' = "verify" /\ UNCHANGED drop_tokens
             \/ ids' # oracle_ids /\ pc' = "construct" /\ drop_tokens' = drop_tokens + 1
    BY <1>9 DEF TokenizeWindow
  <2>3. ids' = oracle_ids <=> ExactDrop(drop_tokens)
    BY <1>3, <2>1, <2>2, TrialDecides
  <2>4. CASE ids' = oracle_ids /\ pc' = "verify" /\ UNCHANGED drop_tokens
    BY <1>2, <1>3, <2>1, <2>3, <2>4 DEF AnswersKept, ChoosesFirstExactDrop
  <2>5. CASE ids' # oracle_ids /\ pc' = "construct" /\ drop_tokens' = drop_tokens + 1
    <3>1. \A d \in 0..(drop_tokens' - 1) : ~ExactDrop(d)'
      BY <1>1, <1>3, <2>1, <2>3, <2>5, OneDropMore
    <3> QED
      BY <1>2, <1>3, <2>1, <2>5, <3>1 DEF AnswersKept, ChoosesFirstExactDrop
  <2> QED
    BY <2>2, <2>4, <2>5
<1>10. CASE VerifyCandidate
  <2>1. /\ pc = "verify" /\ error = "none" /\ UNCHANGED <<oracle_ids, drop_tokens, ids>> /\ Loaded
        /\ oracle_ids \in Tokenize(server, full) /\ kept_count \in 1..Len(snapshot.native_ids)
        /\ ids = oracle_ids /\ decoded' \in Detokenize(server, ids)
    BY <1>3, <1>10 DEF VerifyCandidate, search, LoadedOK, KeptOK, AnswersKept, TypeOK
  <2>2. input.delta_du = delta /\ repair_start # 0
    BY <1>3, <2>1, SnapshotFacts, BoundaryFacts
  <2>3. decoded' = full
    <3>1. FaithfulOn(server, full)
      BY <1>3, ServerFaithful DEF AnswersKept
    <3>2. /\ oracle_ids \in Seq(0..MaxId) /\ Len(oracle_ids) \in 0..Len(oracle_ids)
          /\ SubSeq(oracle_ids, 1, Len(oracle_ids)) = oracle_ids /\ IsText(full)
      BY <2>1 DEF Tokenize, Ids
    <3>3. /\ BytesOf(server, oracle_ids) = full
          /\ LET bytes == BytesOf(server, SubSeq(oracle_ids, 1, Len(oracle_ids)))
             IN  IsText(bytes) => Detokenize(server, SubSeq(oracle_ids, 1, Len(oracle_ids))) \subseteq {bytes}
      BY <2>1, <3>1, <3>2 DEF FaithfulOn
    <3> QED
      BY <2>1, <3>2, <3>3
  <2>4. pc' = "write_receipt" /\ UNCHANGED error
    BY <1>10, <2>1, <2>2, <2>3 DEF VerifyCandidate
  <2> QED
    BY <1>2, <1>3, <2>1, <2>4 DEF AnswersKept, ChoosesFirstExactDrop
<1>11. CASE WriteReceipt
  <2>1. /\ pc = "write_receipt" /\ UNCHANGED <<oracle_ids, drop_tokens, ids>>
        /\ \/ pc' = "passed" /\ error' = error
           \/ pc' = "failed" /\ Named(error')
    BY <1>11 DEF WriteReceipt, Fail, answers, search
  <2> QED
    BY <1>2, <1>3, <1>4, <2>1 DEF AnswersKept, ChoosesFirstExactDrop
<1>12. CASE CallFails
  BY <1>4, <1>12 DEF CallFails, Fail
<1>13. CASE UNCHANGED vars
  BY <1>2, <1>3, <1>13 DEF vars, answers, search, AnswersKept, ChoosesFirstExactDrop
<1> QED
  BY <1>5, <1>6, <1>7, <1>8, <1>9, <1>10, <1>11, <1>12, <1>13 DEF Next, Terminated

\* With a server that answers every call from one model, and a span file of its
\* own tokens, the DU-aware search chooses the first drop of the range whose
\* splice equals the full tokenization, without asking the server where the kept
\* tokens end; an exhausted range has none, and verification refuses no choice.
THEOREM FirstExactDropIsChosen == Spec => []ChoosesFirstExactDrop
<1>1. SelectInv => ChoosesFirstExactDrop
  BY DEF SelectInv, ChoosesFirstExactDrop
<1> QED
  BY <1>1, Invariant, InitSelects, NextSelects, PTL DEF Spec
=============================================================================
