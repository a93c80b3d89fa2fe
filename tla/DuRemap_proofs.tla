---------------------------- MODULE DuRemap_proofs ----------------------------
(***************************************************************************)
(* Proofs about DuRemap: for every dictionary, vocabulary, file list and   *)
(* way of reading them, what a run has written decodes to what it has      *)
(* read, and a run that passes has written its raw input.                  *)
(*                                                                         *)
(* The two hashes are compared only at the end, so the invariant has to    *)
(* tie them together all through the writing of an expansion: they differ  *)
(* by the text of the IDs still to be written.  That rests on the map,     *)
(* whose entries decode to their lexemes, and on every position being      *)
(* within its file, which the read buffer has to guarantee.                *)
(***************************************************************************)
EXTENDS DuRemap, SpanLemmas

\* Every value of a run is of its kind; IDs are of the vocabulary.
TypeOK ==
  /\ input \in Case
  /\ pc \in {"build_map", "list_files", "open", "read", "emit", "flush", "write_receipt",
             "verdict", "passed", "failed"}
  /\ files \in Seq(File)
  /\ file_no \in Nat \ {0} /\ pos \in Nat \ {0} /\ available \in Nat
  /\ pending \in Seq(IdsOf(input.tokens)) /\ output \in Seq(IdsOf(input.tokens))
  /\ du_hash \in Bytes /\ target_hash \in Bytes
  /\ pc # "failed" => error = "none"

\* What is in the buffer is of the file: a whole ID in it is one of the file's.
BufferOK ==
  /\ pc \in {"read", "emit"} => file_no <= Len(files) /\ 2 * (pos - 1) + available <= FileSize
  /\ pc \notin {"read", "emit", "failed"} => available = 0
  /\ pc = "emit" => available >= 2

\* The map is one of lexemes that their expansions decode to.
MapOK ==
  pc \notin {"build_map", "failed"} =>
    \A g \in 1..Len(input.du_vocab) : Mappable(input.tokens, input.du_vocab[g])

\* No expansion is left half written.
PendingOK == pc \notin {"emit", "failed"} => pending = <<>>

\* The receipt is written once, of the hashes the verdict is then taken from.
ReceiptOK ==
  /\ pc \in {"verdict", "passed"} => receipt.file = "complete"
  /\ receipt.file = "complete" =>
       /\ pc \in {"verdict", "passed", "failed"}
       /\ receipt.all_hashes_exact = HashMatch
       /\ receipt.emitted_target_ids = Len(output)
       /\ du_hash = target_hash
       /\ pc = "passed" => HashMatch
       /\ pc = "failed" => ~HashMatch

IInv == TypeOK /\ BufferOK /\ MapOK /\ PendingOK /\ HashesKeepPace /\ ReceiptOK

\* What a run is given, and what follows of the current file.
LEMMA Kinds ==
  ASSUME IInv
  PROVE  /\ input.tokens \in Seq(Bytes) /\ input.du_vocab \in Seq(Bytes)
         /\ input.files \in Seq(File) /\ input.raw \in Bytes
         /\ pc \in {"read", "emit"} => /\ file \in File /\ Len(file.local_ids) \in Nat
                                       /\ Len(file.gmap) \in Nat
                                       /\ FileSize \in Nat
                                       /\ FileSize <= 2 * Len(file.local_ids) + 1
<1>1. /\ input.tokens \in Seq(Bytes) /\ input.du_vocab \in Seq(Bytes)
      /\ input.files \in Seq(File) /\ input.raw \in Bytes
  BY DEF IInv, TypeOK, Case
<1>2. ASSUME pc \in {"read", "emit"}
      PROVE  file \in File /\ Len(file.local_ids) \in Nat /\ Len(file.gmap) \in Nat
  <2>1. file_no \in 1..Len(files) /\ files \in Seq(File)
    BY <1>2 DEF IInv, TypeOK, BufferOK
  <2>2. file \in File
    BY <2>1 DEF file
  <2> QED
    BY <2>2 DEF File
<1>3. ASSUME pc \in {"read", "emit"}
      PROVE  FileSize \in Nat /\ FileSize <= 2 * Len(file.local_ids) + 1
  <2> DEFINE size == Len(file.local_ids)
  <2>1. size \in Nat
    BY <1>2, <1>3
  <2>2. FileSize = 2 * size + 1 \/ FileSize = 2 * size + 0
    BY Zenon DEF FileSize
  <2> HIDE DEF size
  <2>3. FileSize \in Nat /\ FileSize <= 2 * size + 1
    BY <2>1, <2>2
  <2> QED
    BY <2>3 DEF size
<1> QED
  BY <1>1, <1>2, <1>3

\* The first state satisfies the invariant.
LEMMA InitInvariant == Init => IInv
<1> SUFFICES ASSUME Init PROVE IInv
  OBVIOUS
<1>1. input \in Case
  BY InputsAssumption DEF Init
<1>2. TypeOK
  BY <1>1, JoinFacts DEF Init, TypeOK
<1>3. HashesKeepPace
  <2>1. input.tokens \in Seq(Bytes)
    BY <1>1 DEF Case
  <2>2. Decode(input.tokens, <<>>) = <<>> /\ <<>> \o <<>> = <<>>
    BY <2>1, DecodeFacts, JoinFacts
  <2> QED
    BY <2>2 DEF Init, HashesKeepPace
<1>4. BufferOK /\ MapOK /\ PendingOK /\ ReceiptOK
  BY DEF Init, BufferOK, MapOK, PendingOK, ReceiptOK
<1> QED
  BY <1>2, <1>3, <1>4 DEF IInv

\* A step that neither hashes nor writes keeps the hashes together, and the
\* kinds of what it leaves alone.
LEMMA QuietStep ==
  ASSUME IInv, pc # "failed", UNCHANGED <<input, pending, du_hash, target_hash, output>>
  PROVE  /\ HashesKeepPace'
         /\ (pc' # "failed" => error' = "none") /\ files' \in Seq(File)
            /\ pos' \in Nat \ {0} /\ file_no' \in Nat \ {0} /\ available' \in Nat
            /\ pc' \in {"list_files", "open", "read", "emit", "flush", "write_receipt", "verdict",
                        "passed", "failed"} => TypeOK'
         /\ pc # "emit" => PendingOK'
         /\ pc # "build_map" => MapOK'
<1>1. HashesKeepPace'
  BY DEF IInv, TypeOK, HashesKeepPace
<1>2. (pc' # "failed" => error' = "none") /\ files' \in Seq(File)
         /\ pos' \in Nat \ {0} /\ file_no' \in Nat \ {0} /\ available' \in Nat
         /\ pc' \in {"list_files", "open", "read", "emit", "flush", "write_receipt", "verdict",
                     "passed", "failed"} => TypeOK'
  BY DEF IInv, TypeOK
<1>3. pc # "emit" => PendingOK'
  BY DEF IInv, PendingOK
<1>4. pc # "build_map" => MapOK'
  BY DEF IInv, MapOK
<1> QED
  BY <1>1, <1>2, <1>3, <1>4

\* No receipt is written by a step before writing it.
LEMMA NoReceiptYet ==
  ASSUME IInv, UNCHANGED receipt,
         pc \notin {"write_receipt", "verdict", "passed", "failed"},
         pc' \notin {"verdict", "passed"}
  PROVE  ReceiptOK'
BY DEF IInv, ReceiptOK

\* One local ID: its text is hashed, and its expansion stands for that text.
LEMMA ConsumeIdInvariant == IInv /\ ConsumeId => IInv'
<1> SUFFICES ASSUME IInv, ConsumeId PROVE IInv'
  OBVIOUS
<1>1. /\ pc = "read" /\ available >= 2 /\ pc' \in {"failed", "emit"}
      /\ UNCHANGED <<input, files, file_no, pos, available, target_hash, consumed, chunks, output,
                     receipt>>
  BY DEF ConsumeId, Fail, cursor
<1>2. /\ input.tokens \in Seq(Bytes) /\ input.du_vocab \in Seq(Bytes)
      /\ file \in File /\ Len(file.local_ids) \in Nat /\ FileSize \in Nat
      /\ FileSize <= 2 * Len(file.local_ids) + 1
  BY <1>1, Kinds
<1>3. /\ pos \in Nat \ {0} /\ available \in Nat /\ 2 * (pos - 1) + available <= FileSize
      /\ file_no <= Len(files) /\ pending = <<>>
  BY <1>1 DEF IInv, TypeOK, BufferOK, PendingOK
<1>4. ReceiptOK' /\ MapOK'
  BY <1>1, NoReceiptYet DEF IInv, MapOK
<1>5. BufferOK'
  BY <1>1, <1>3 DEF BufferOK, FileSize, file
<1>6. CASE UNCHANGED <<pending, du_hash, chunk_bytes>> /\ pc' = "failed"
  <2>1. TypeOK' /\ HashesKeepPace' /\ PendingOK'
    BY <1>1, <1>6, QuietStep DEF IInv, TypeOK
  <2> QED
    BY <1>4, <1>5, <2>1 DEF IInv
<1>7. CASE /\ local_id < Len(file.gmap) /\ global_id < Len(input.du_vocab)
           /\ du_hash' = du_hash \o du_lexeme
           /\ pending' = GreedyIds(input.tokens, du_lexeme)
           /\ pc' = "emit" /\ UNCHANGED error
  <2>1. pos \in 1..Len(file.local_ids)
    BY <1>1, <1>2, <1>3
  <2>2. local_id \in Nat
    BY <1>2, <2>1 DEF File, local_id
  <2>3. global_id \in Nat
    <3>1. local_id + 1 \in 1..Len(file.gmap) /\ file.gmap \in Seq(Nat)
      BY <1>2, <1>7, <2>2 DEF File
    <3> QED
      BY <3>1 DEF global_id
  <2>4. global_id + 1 \in 1..Len(input.du_vocab)
    BY <1>2, <1>7, <2>3
  <2>5. du_lexeme \in Bytes /\ Mappable(input.tokens, du_lexeme)
    BY <1>1, <1>2, <2>4 DEF du_lexeme, IInv, MapOK
  <2>6. pending' \in Seq(IdsOf(input.tokens)) /\ Decode(input.tokens, pending') = du_lexeme
    BY <1>2, <1>7, <2>5, GreedyIdsAreIds DEF Mappable
  <2>7. du_hash = target_hash /\ target_hash \in Bytes
    <3>1. du_hash = target_hash \o Decode(input.tokens, <<>>)
      BY <1>1, <1>3 DEF IInv, HashesKeepPace
    <3>2. Decode(input.tokens, <<>>) = <<>> /\ target_hash \in Bytes
      BY <1>2, DecodeFacts DEF IInv, TypeOK
    <3> QED
      BY <3>1, <3>2, JoinFacts
  <2>8. HashesKeepPace'
    <3>1. du_hash' = target_hash' \o Decode(input.tokens, pending')
      BY <1>1, <1>7, <2>6, <2>7
    <3>2. Decode(input.tokens, output) = target_hash \/ error = "write"
      BY DEF IInv, HashesKeepPace
    <3> QED
      BY <1>1, <1>7, <3>1, <3>2 DEF HashesKeepPace
  <2>9. du_hash' \in Bytes
    BY <1>7, <2>5, <2>7, JoinFacts
  <2>10. TypeOK' /\ PendingOK'
    BY <1>1, <1>7, <2>6, <2>9 DEF IInv, TypeOK, PendingOK
  <2> QED
    BY <1>4, <1>5, <2>8, <2>10 DEF IInv
<1> QED
  BY <1>6, <1>7 DEF ConsumeId, Fail

\* One target ID: its text moves from what is to be written to what is hashed.
LEMMA EmitIdInvariant == IInv /\ EmitId => IInv'
<1> SUFFICES ASSUME IInv, EmitId PROVE IInv'
  OBVIOUS
<1> DEFINE id == Head(pending)
           text == TokenBytes(input.tokens, id)
<1>1. /\ pc = "emit" /\ pending # <<>> /\ pc' \in {"failed", "emit"}
      /\ UNCHANGED <<input, files, file_no, pos, available, du_hash, receipt>>
      /\ target_hash' = target_hash \o text
  BY DEF EmitId, Fail, cursor
<1>2. input.tokens \in Seq(Bytes)
  BY Kinds
<1>3. /\ pending \in Seq(IdsOf(input.tokens)) /\ output \in Seq(IdsOf(input.tokens))
      /\ du_hash \in Bytes /\ target_hash \in Bytes /\ error = "none"
  BY <1>1 DEF IInv, TypeOK
<1>4. id \in IdsOf(input.tokens) /\ Tail(pending) \in Seq(IdsOf(input.tokens))
  BY <1>1, <1>3, HeadTailProperties
<1>5. /\ text \in Bytes
      /\ Decode(input.tokens, pending) = text \o Decode(input.tokens, Tail(pending))
      /\ Decode(input.tokens, Tail(pending)) \in Bytes
      /\ Decode(input.tokens, Append(output, id)) = Decode(input.tokens, output) \o text
  BY <1>1, <1>2, <1>3, <1>4, DecodeFacts
<1>6. Decode(input.tokens, output) = target_hash
      /\ du_hash = target_hash \o Decode(input.tokens, pending)
  BY <1>1, <1>3 DEF IInv, HashesKeepPace
<1> HIDE DEF id, text
<1>7. target_hash' \in Bytes
  BY <1>1, <1>3, <1>5, JoinFacts
<1>8. ReceiptOK' /\ MapOK' /\ PendingOK'
  BY <1>1, NoReceiptYet DEF IInv, MapOK, PendingOK
<1>9. BufferOK'
  BY <1>1 DEF IInv, BufferOK, FileSize, file
<1>10. CASE output' = Append(output, id) /\ pending' = Tail(pending) /\ UNCHANGED <<pc, error>>
  <2>1. Append(output, id) \in Seq(IdsOf(input.tokens))
    BY <1>3, <1>4, AppendProperties
  <2>2. TypeOK'
    BY <1>1, <1>4, <1>7, <1>10, <2>1 DEF IInv, TypeOK
  <2>3. Decode(input.tokens, output') = target_hash'
    BY <1>1, <1>5, <1>6, <1>10
  <2>4. du_hash' = target_hash' \o Decode(input.tokens, pending')
    <3>1. (target_hash \o text) \o Decode(input.tokens, Tail(pending))
            = target_hash \o (text \o Decode(input.tokens, Tail(pending)))
      BY <1>3, <1>5, JoinFacts, SMTT(30)
    <3> QED
      BY <1>1, <1>5, <1>6, <1>10, <3>1
  <2>5. HashesKeepPace'
    BY <1>1, <2>3, <2>4 DEF HashesKeepPace
  <2> QED
    BY <1>8, <1>9, <2>2, <2>5 DEF IInv
<1>11. CASE Fail("write") /\ UNCHANGED <<output, pending>>
  <2>1. TypeOK' /\ HashesKeepPace'
    BY <1>1, <1>7, <1>11 DEF IInv, TypeOK, HashesKeepPace, Fail
  <2> QED
    BY <1>8, <1>9, <2>1 DEF IInv
<1> QED
  BY <1>10, <1>11 DEF EmitId, id

\* Every step preserves the invariant.
LEMMA NextInvariant == IInv /\ [Next \/ Terminated]_vars => IInv'
<1> SUFFICES ASSUME IInv, [Next \/ Terminated]_vars PROVE IInv'
  OBVIOUS
<1>1. TypeOK /\ BufferOK /\ MapOK /\ PendingOK /\ HashesKeepPace /\ ReceiptOK
  BY DEF IInv
<1>2. CASE BuildMap
  <2>1. /\ pc = "build_map" /\ pc' \in {"list_files", "failed"}
        /\ UNCHANGED <<input, files, file_no, pos, available, pending, du_hash, target_hash,
                       output, receipt>>
    BY <1>2 DEF BuildMap, Fail, cursor, summary
  <2>2. MapOK'
    BY <1>2, <2>1 DEF BuildMap, Fail, MapOK
  <2>3. (pc' = "failed" \/ error' = error)
    BY <1>2 DEF BuildMap, Fail
  <2>4. TypeOK' /\ HashesKeepPace' /\ PendingOK'
    BY <1>1, <2>1, <2>3, QuietStep DEF TypeOK
  <2>5. BufferOK' /\ ReceiptOK'
    BY <1>1, <2>1, NoReceiptYet DEF BufferOK
  <2> QED
    BY <2>2, <2>4, <2>5 DEF IInv
<1>3. CASE ListFiles
  <2>1. /\ pc = "list_files" /\ pc' \in {"open", "failed"}
        /\ UNCHANGED <<input, file_no, pos, available, pending, du_hash, target_hash,
                       output, receipt>>
        /\ (pc' = "failed" \/ error' = error)
    BY <1>3 DEF ListFiles, Fail, summary
  <2>2. files' \in Seq(File)
    <3>1. input.files \in Seq(File)
      BY Kinds
    <3>2. CASE UNCHANGED files
      BY <1>1, <3>2 DEF TypeOK
    <3>3. ASSUME NEW n \in 0..Len(input.files), NEW listed \in [1..n -> 1..Len(input.files)],
                 files' = [k \in 1..n |-> input.files[listed[k]]]
          PROVE  files' \in Seq(File)
      <4>1. n \in Nat /\ \A k \in 1..n : input.files[listed[k]] \in File
        BY <3>1
      <4> QED
        BY <3>3, <4>1
    <3> QED
      BY <1>3, <3>2, <3>3 DEF ListFiles
  <2>3. TypeOK' /\ HashesKeepPace' /\ PendingOK' /\ MapOK'
    BY <1>1, <2>1, <2>2, QuietStep DEF TypeOK
  <2>4. BufferOK' /\ ReceiptOK'
    BY <1>1, <2>1, NoReceiptYet DEF BufferOK
  <2> QED
    BY <2>3, <2>4 DEF IInv
<1>4. CASE OpenFile
  <2>1. /\ pc = "open" /\ pc' \in {"failed", "read", "flush"}
        /\ UNCHANGED <<input, files, file_no, available, pending, du_hash, target_hash,
                       output, receipt>>
        /\ (pc' = "failed" \/ error' = error)
        /\ (pos' = pos \/ pos' = 1)
        /\ pc' = "read" => file_no <= Len(files) /\ pos' = 1
    BY <1>4 DEF OpenFile, Fail
  <2>2. TypeOK' /\ HashesKeepPace' /\ PendingOK' /\ MapOK'
    BY <1>1, <2>1, QuietStep DEF TypeOK
  <2>3. ReceiptOK'
    BY <2>1, NoReceiptYet
  <2>4. BufferOK'
    <3>1. available = 0
      BY <1>1, <2>1 DEF BufferOK
    <3>2. ASSUME pc' = "read" PROVE 2 * (pos' - 1) + available' <= FileSize'
      <4> DEFINE size == Len(file.local_ids)'
      <4>1. file_no' \in 1..Len(files') /\ files' \in Seq(File)
        BY <1>1, <2>1, <2>2, <3>2 DEF TypeOK
      <4>2. file' \in File
        BY <4>1 DEF file
      <4>3. size \in Nat
        BY <4>2 DEF File
      <4>4. FileSize' = 2 * size + 1 \/ FileSize' = 2 * size + 0
        BY Zenon DEF FileSize
      <4> HIDE DEF size
      <4>5. 0 <= FileSize'
        BY <4>3, <4>4
      <4> QED
        BY <2>1, <3>1, <3>2, <4>5
    <3> QED
      BY <2>1, <3>1, <3>2 DEF BufferOK
  <2> QED
    BY <2>2, <2>3, <2>4 DEF IInv
<1>5. CASE FillBuffer
  <2>1. /\ pc = "read" /\ pc' \in {"failed", "read", "open"}
        /\ UNCHANGED <<input, files, pos, pending, du_hash, target_hash, output, receipt>>
        /\ (pc' = "failed" \/ error' = error)
        /\ (file_no' = file_no \/ file_no' = file_no + 1)
        /\ pc' = "read" => file_no' = file_no
    BY <1>5 DEF FillBuffer, Fail, summary
  <2>2. /\ pos \in Nat \ {0} /\ available \in Nat /\ file_no \in Nat \ {0}
        /\ 2 * (pos - 1) + available <= FileSize /\ FileSize \in Nat /\ file_no <= Len(files)
    BY <1>1, <2>1, Kinds DEF TypeOK, BufferOK
  <2>3. /\ available' \in Nat
        /\ pc' = "read" => 2 * (pos - 1) + available' <= FileSize
        /\ pc' = "open" => available' = 0
    <3>1. CASE pc' = "read"
      <4>1. PICK size \in ReadSizes : available' = Min({size, Unread}) /\ available = 0 /\ Unread > 0
        BY <1>5, <3>1 DEF FillBuffer, Fail
      <4>2. size \in Nat
        BY InputsAssumption
      <4>3. Unread = FileSize - 2 * (pos - 1) /\ Unread \in Nat
        BY <2>2, <4>1 DEF Unread
      <4>4. \E m \in {size, Unread} : \A k \in {size, Unread} : m <= k
        BY <4>2, <4>3
      <4>5. /\ available' \in {size, Unread} /\ available' <= Unread
        BY <4>1, <4>4 DEF Min
      <4>6. available' \in Nat
        BY <4>2, <4>3, <4>5
      <4>7. \A a, u, f, p \in Nat : a <= u /\ u = f - 2 * (p - 1) => 2 * (p - 1) + a <= f
        OBVIOUS
      <4>8. 2 * (pos - 1) + available' <= FileSize
        BY <2>2, <4>3, <4>5, <4>6, <4>7, Zenon
      <4> QED
        BY <3>1, <4>6, <4>8
    <3>2. CASE pc' # "read"
      BY <1>5, <2>1, <2>2, <3>2 DEF FillBuffer, Fail
    <3> QED
      BY <3>1, <3>2
  <2>4. file_no' \in Nat \ {0}
    BY <2>1, <2>2
  <2>5. TypeOK' /\ HashesKeepPace' /\ PendingOK' /\ MapOK'
    BY <1>1, <2>1, <2>3, <2>4, QuietStep DEF TypeOK
  <2>6. ReceiptOK'
    BY <2>1, NoReceiptYet
  <2>7. BufferOK'
    <3>1. pc' = "read" => FileSize' = FileSize
      BY <2>1 DEF FileSize, file
    <3> QED
      BY <2>1, <2>2, <2>3, <3>1 DEF BufferOK
  <2> QED
    BY <2>5, <2>6, <2>7 DEF IInv
<1>6. CASE ConsumeId
  BY <1>6, ConsumeIdInvariant
<1>7. CASE EmitId
  BY <1>7, EmitIdInvariant
<1>8. CASE EndPosition
  <2>1. /\ pc = "emit" /\ pending = <<>> /\ pc' = "read" /\ pos' = pos + 1
        /\ available' = available - 2
        /\ UNCHANGED <<input, files, file_no, pending, du_hash, target_hash, output, receipt, error>>
    BY <1>8 DEF EndPosition
  <2>2. /\ pos \in Nat \ {0} /\ available \in Nat /\ available >= 2
        /\ 2 * (pos - 1) + available <= FileSize /\ FileSize \in Nat /\ file_no <= Len(files)
    BY <1>1, <2>1, Kinds DEF TypeOK, BufferOK
  <2>3. available' \in Nat /\ pos' \in Nat \ {0} /\ 2 * (pos' - 1) + available' <= FileSize
    BY <2>1, <2>2
  <2>4. TypeOK' /\ HashesKeepPace' /\ MapOK' /\ PendingOK'
    BY <1>1, <2>1, <2>3, QuietStep DEF TypeOK, PendingOK
  <2>5. ReceiptOK'
    BY <2>1, NoReceiptYet
  <2>6. BufferOK'
    <3>1. FileSize' = FileSize
      BY <2>1 DEF FileSize, file
    <3> QED
      BY <2>1, <2>2, <2>3, <3>1 DEF BufferOK
  <2> QED
    BY <2>4, <2>5, <2>6 DEF IInv
<1>9. CASE Flush
  <2>1. /\ pc = "flush" /\ pc' \in {"failed", "write_receipt"}
        /\ UNCHANGED <<input, files, file_no, pos, available, pending, du_hash, target_hash,
                       output, receipt>>
        /\ (pc' = "failed" \/ error' = error)
    BY <1>9 DEF Flush, Fail, cursor, summary
  <2>2. TypeOK' /\ HashesKeepPace' /\ PendingOK' /\ MapOK'
    BY <1>1, <2>1, QuietStep DEF TypeOK
  <2>3. BufferOK' /\ ReceiptOK'
    BY <1>1, <2>1, NoReceiptYet DEF BufferOK
  <2> QED
    BY <2>2, <2>3 DEF IInv
<1>10. CASE WriteReceipt
  <2>1. /\ pc = "write_receipt" /\ pc' \in {"failed", "verdict"}
        /\ UNCHANGED <<input, files, file_no, pos, available, pending, du_hash, target_hash,
                       output>>
        /\ (pc' = "failed" \/ error' = error)
        /\ pc' = "failed" => receipt'.file # "complete"
        /\ pc' = "verdict" => /\ receipt'.file = "complete"
                              /\ receipt'.all_hashes_exact = HashMatch
                              /\ receipt'.emitted_target_ids = Len(output)
    BY <1>10 DEF WriteReceipt, Fail, cursor, summary
  <2>2. TypeOK' /\ HashesKeepPace' /\ PendingOK' /\ MapOK'
    BY <1>1, <2>1, QuietStep DEF TypeOK
  <2>3. BufferOK'
    BY <1>1, <2>1 DEF BufferOK
  <2>4. du_hash = target_hash
    <3>1. du_hash = target_hash \o Decode(input.tokens, <<>>) /\ target_hash \in Bytes
      BY <1>1, <2>1 DEF HashesKeepPace, PendingOK, TypeOK
    <3>2. Decode(input.tokens, <<>>) = <<>>
      BY Kinds, DecodeFacts
    <3> QED
      BY <3>1, <3>2, JoinFacts
  <2>5. HashMatch' = HashMatch
    BY <2>1 DEF HashMatch
  <2>6. ReceiptOK'
    BY <2>1, <2>4, <2>5 DEF ReceiptOK
  <2> QED
    BY <2>2, <2>3, <2>6 DEF IInv
<1>11. CASE Verdict
  <2>1. /\ pc = "verdict" /\ pc' \in {"failed", "passed"}
        /\ UNCHANGED <<input, files, file_no, pos, available, pending, du_hash, target_hash,
                       output, receipt>>
        /\ (pc' = "failed" \/ error' = error)
        /\ pc' = "passed" => HashMatch
        /\ pc' = "failed" => ~HashMatch
    BY <1>11 DEF Verdict, Fail, cursor, summary
  <2>2. TypeOK' /\ HashesKeepPace' /\ PendingOK' /\ MapOK'
    BY <1>1, <2>1, QuietStep DEF TypeOK
  <2>3. BufferOK'
    BY <1>1, <2>1 DEF BufferOK
  <2>4. HashMatch' = HashMatch
    BY <2>1 DEF HashMatch
  <2>5. ReceiptOK'
    BY <1>1, <2>1, <2>4 DEF ReceiptOK
  <2> QED
    BY <2>2, <2>3, <2>5 DEF IInv
<1>12. CASE UNCHANGED vars
  BY <1>1, <1>12 DEF vars, cursor, summary, chunking, IInv, TypeOK, BufferOK, FileSize, file, MapOK,
     PendingOK, HashesKeepPace, ReceiptOK, HashMatch
<1> QED
  BY <1>2, <1>3, <1>4, <1>5, <1>6, <1>7, <1>8, <1>9, <1>10, <1>11, <1>12 DEF Next, Terminated

\* The two hashes never run apart: at every position of every run, the text
\* written and the text still to be written are together the text read.
THEOREM HashesAlwaysKeepPace == Spec => []HashesKeepPace
<1>1. IInv => HashesKeepPace
  BY DEF IInv
<1> QED
  BY <1>1, InitInvariant, NextInvariant, PTL DEF Spec

\* A run that passes has written IDs that decode to its raw input, and a run
\* whose complete receipt is followed by a failure has one to differ from.
THEOREM PassingMeansRaw == Spec => []PassMeansRaw
<1>1. ASSUME IInv PROVE PassMeansRaw
  <2>1. ASSUME pc = "passed"
        PROVE  /\ receipt.file = "complete" /\ receipt.all_hashes_exact
               /\ input.raw # NoRaw => Decode(input.tokens, output) = input.raw
               /\ receipt.emitted_target_ids = Len(output)
    <3>1. /\ receipt.file = "complete" /\ receipt.all_hashes_exact = HashMatch /\ HashMatch
          /\ receipt.emitted_target_ids = Len(output)
      BY <1>1, <2>1 DEF IInv, ReceiptOK
    <3>2. Decode(input.tokens, output) = target_hash
      BY <1>1, <2>1 DEF IInv, TypeOK, HashesKeepPace
    <3> QED
      BY <3>1, <3>2 DEF HashMatch, Sha256
  <2>2. ASSUME pc = "failed", receipt.file = "complete"
        PROVE  ~receipt.all_hashes_exact /\ input.raw # NoRaw
    <3>1. receipt.all_hashes_exact = HashMatch /\ ~HashMatch /\ du_hash = target_hash
      BY <1>1, <2>2 DEF IInv, ReceiptOK
    <3> QED
      BY <3>1 DEF HashMatch
  <2> QED
    BY <2>1, <2>2 DEF PassMeansRaw
<1> QED
  BY <1>1, InitInvariant, NextInvariant, PTL DEF Spec
-----------------------------------------------------------------------------
Entry == File \X Nat

\* The local IDs of the first n files as listed.
AllOf(n) == FlattenSeq([f \in 1..n |-> IdsIn(files[f])])

\* The local IDs whose expansions have been looked up.
Done ==
  AllOf(file_no - 1) \o
  (CASE pc = "read" -> SubSeq(IdsIn(file), 1, pos - 1)
     [] pc = "emit" -> SubSeq(IdsIn(file), 1, pos)
     [] OTHER       -> <<>>)

\* Every read returns whole IDs, or the rest of a file.
EvenReads == \A size \in ReadSizes : \E half \in Nat : size = 2 * half

\* What is written and what is still to be written are together the translation
\* of the IDs done, every one of them sound; a failure leaves a prefix behind.
Progress ==
  /\ pc # "failed" =>
       /\ output \o pending = Translated(Done)
       /\ \A k \in 1..Len(Done) : Sound(Done[k])
       /\ Len(Done) = consumed + (IF pc = "emit" THEN 1 ELSE 0)
       /\ file_no <= Len(files) + 1
  /\ pc \in {"build_map", "list_files"} => file_no = 1
  /\ pc \in {"flush", "write_receipt", "verdict", "passed"} => file_no = Len(files) + 1
  /\ consumed \in Nat
  /\ pc = "failed" => IsPrefix(output, Translated(Listed))

\* A single byte is left in the buffer only at the end of an odd file.
WholeIds ==
  /\ pc \in {"read", "emit"} => \/ \E half \in Nat : available = 2 * half
                                \/ 2 * (pos - 1) + available = FileSize
  /\ error = "odd" => file.odd /\ pos = Len(file.local_ids) + 1

\* The translation is joined like the IDs.
LEMMA TranslatedFacts ==
  ASSUME input \in Case
  PROVE  /\ Translated(<<>>) = <<>>
         /\ \A e \in Entry : Translation(e) \in Seq(IdsOf(input.tokens))
         /\ \A s \in Seq(Entry) : Translated(s) \in Seq(IdsOf(input.tokens))
         /\ \A s \in Seq(Entry), e \in Entry :
              Translated(Append(s, e)) = Translated(s) \o Translation(e)
         /\ \A s, t \in Seq(Entry) : Translated(s \o t) = Translated(s) \o Translated(t)
<1> DEFINE T == Seq(IdsOf(input.tokens))
           h == [e \in Entry |-> Translation(e)]
<1>1. Joinable(T)
  BY SequencesJoin
<1>2. \A e \in Entry : Translation(e) \in T
  <2> SUFFICES ASSUME NEW e \in Entry, Sound(e) PROVE Translation(e) \in T
    <3>1. <<>> \in T
      OBVIOUS
    <3> QED
      BY <3>1 DEF Translation
  <2>1. e[1] \in File /\ e[2] \in Nat
    BY DEF Entry
  <2>2. e[1].gmap \in Seq(Nat) /\ Len(e[1].gmap) \in Nat
    BY <2>1 DEF File
  <2>3. e[2] + 1 \in 1..Len(e[1].gmap)
    BY <2>1, <2>2 DEF Sound
  <2>4. e[1].gmap[e[2] + 1] \in Nat
    BY <2>2, <2>3
  <2>5. input.du_vocab \in Seq(Bytes) /\ input.tokens \in Seq(Bytes)
    BY DEF Case
  <2>6. e[1].gmap[e[2] + 1] + 1 \in 1..Len(input.du_vocab)
    BY <2>4, <2>5 DEF Sound
  <2>7. input.du_vocab[e[1].gmap[e[2] + 1] + 1] \in Bytes
    BY <2>5, <2>6
  <2> QED
    BY <2>5, <2>7, GreedyIdsAreIds DEF Translation
<1> HIDE DEF T
<1>3. h \in [Entry -> T] /\ \A e \in Entry : h[e] = Translation(e)
  BY <1>2
<1>4. \A s \in Seq(Entry) : Translated(s) = FlatMap(h, s)
  <2> SUFFICES ASSUME NEW s \in Seq(Entry) PROVE Translated(s) = FlatMap(h, s)
    OBVIOUS
  <2>1. \A k \in 1..Len(s) : s[k] \in Entry
    OBVIOUS
  <2>2. [k \in 1..Len(s) |-> Translation(s[k])] = [k \in 1..Len(s) |-> h[s[k]]]
    BY <2>1
  <2> QED
    BY <2>2 DEF Translated, FlatMap
<1> HIDE DEF h
<1>5. /\ FlatMap(h, <<>>) = <<>>
      /\ \A s \in Seq(Entry) : FlatMap(h, s) \in T
      /\ \A s \in Seq(Entry), e \in Entry : FlatMap(h, Append(s, e)) = FlatMap(h, s) \o h[e]
      /\ \A s, t \in Seq(Entry) : FlatMap(h, s \o t) = FlatMap(h, s) \o FlatMap(h, t)
  BY <1>1, <1>3, FlatMapFacts
<1>6. <<>> \in Seq(Entry)
  OBVIOUS
<1>7. \A s \in Seq(Entry), e \in Entry :
        Translated(Append(s, e)) = Translated(s) \o Translation(e)
  <2> SUFFICES ASSUME NEW s \in Seq(Entry), NEW e \in Entry
               PROVE  Translated(Append(s, e)) = Translated(s) \o Translation(e)
    OBVIOUS
  <2>1. Append(s, e) \in Seq(Entry)
    OBVIOUS
  <2>2. /\ Translated(Append(s, e)) = FlatMap(h, Append(s, e)) /\ Translated(s) = FlatMap(h, s)
        /\ h[e] = Translation(e)
    BY <1>3, <1>4, <2>1
  <2> QED
    BY <1>5, <2>2
<1>8. \A s, t \in Seq(Entry) : Translated(s \o t) = Translated(s) \o Translated(t)
  <2> SUFFICES ASSUME NEW s \in Seq(Entry), NEW t \in Seq(Entry)
               PROVE  Translated(s \o t) = Translated(s) \o Translated(t)
    OBVIOUS
  <2>1. s \o t \in Seq(Entry)
    OBVIOUS
  <2>2. /\ Translated(s \o t) = FlatMap(h, s \o t)
        /\ Translated(s) = FlatMap(h, s) /\ Translated(t) = FlatMap(h, t)
    BY <1>4, <2>1
  <2> QED
    BY <1>5, <2>2
<1>9. Translated(<<>>) = <<>> /\ \A s \in Seq(Entry) : Translated(s) \in T
  BY <1>4, <1>5, <1>6
<1> QED
  BY <1>2, <1>7, <1>8, <1>9 DEF T

\* The IDs of the first files are those listed first.
LEMMA AllOfFacts ==
  ASSUME files \in Seq(File)
  PROVE  /\ AllOf(0) = <<>>
         /\ \A f \in File : IdsIn(f) \in Seq(Entry) /\ Len(IdsIn(f)) = Len(f.local_ids)
                            /\ Len(f.local_ids) \in Nat
         /\ \A n \in 0..Len(files) : AllOf(n) \in Seq(Entry)
         /\ \A n \in 1..Len(files) : AllOf(n) = AllOf(n - 1) \o IdsIn(files[n])
         /\ \A n \in 0..Len(files) : \E rest \in Seq(Entry) : Listed = AllOf(n) \o rest
         /\ Listed = AllOf(Len(files))
<1> DEFINE T == Seq(Entry)
           parts(n) == [f \in 1..n |-> IdsIn(files[f])]
           len == Len(files)
<1>1. ASSUME NEW f \in File
      PROVE  IdsIn(f) \in Seq(Entry) /\ Len(IdsIn(f)) = Len(f.local_ids) /\ Len(f.local_ids) \in Nat
  <2>1. f.local_ids \in Seq(Nat)
    BY DEF File
  <2>2. \A i \in 1..Len(f.local_ids) : <<f, f.local_ids[i]>> \in Entry
    BY <2>1 DEF Entry
  <2> QED
    BY <2>1, <2>2 DEF IdsIn
<1>2. Joinable(T)
  BY SequencesJoin
<1> HIDE DEF T
<1>3. \A f \in 1..len : IdsIn(files[f]) \in T
  BY <1>1 DEF T
<1>4. \A n \in 0..len : parts(n) \in Seq(T)
  BY <1>3
<1>5. parts(0) = <<>>
  OBVIOUS
<1>6. ASSUME NEW n \in 1..len PROVE parts(n) = Append(parts(n - 1), IdsIn(files[n]))
  OBVIOUS
<1>7. \A n : AllOf(n) = FlattenSeq(parts(n))
  BY DEF AllOf
<1>8. Listed = AllOf(len)
  BY DEF Listed, AllOf
<1>9. ASSUME NEW n \in 0..len PROVE \E rest \in T : Listed = AllOf(n) \o rest
  <2> DEFINE others == [f \in 1..(len - n) |-> IdsIn(files[n + f])]
  <2>1. others \in Seq(T)
    <3>1. \A f \in 1..(len - n) : n + f \in 1..len
      OBVIOUS
    <3> QED
      BY <1>3, <3>1
  <2>2. parts(len) = parts(n) \o others
    OBVIOUS
  <2>3. parts(n) \in Seq(T)
    BY <1>4
  <2> HIDE DEF parts, others
  <2>4. FlattenSeq(parts(n) \o others) = FlattenSeq(parts(n)) \o FlattenSeq(others)
    BY <1>2, <2>1, <2>3, FlattenConcat
  <2>5. FlattenSeq(others) \in T
    BY <1>2, <2>1, FlattenAppend
  <2> QED
    BY <1>7, <1>8, <2>2, <2>4, <2>5
<1>10. ASSUME NEW n \in 1..len PROVE AllOf(n) = AllOf(n - 1) \o IdsIn(files[n])
  <2>1. n - 1 \in 0..len
    OBVIOUS
  <2>2. parts(n - 1) \in Seq(T) /\ IdsIn(files[n]) \in T
    BY <1>3, <1>4, <2>1
  <2>3. parts(n) = Append(parts(n - 1), IdsIn(files[n]))
    BY <1>6
  <2> HIDE DEF parts
  <2>4. FlattenSeq(Append(parts(n - 1), IdsIn(files[n])))
          = FlattenSeq(parts(n - 1)) \o IdsIn(files[n])
    BY <1>2, <2>2, FlattenAppend
  <2>5. AllOf(n) = FlattenSeq(parts(n)) /\ AllOf(n - 1) = FlattenSeq(parts(n - 1))
    BY <1>7
  <2> QED
    BY <2>3, <2>4, <2>5
<1> HIDE DEF parts
<1>11. \A n \in 0..len : AllOf(n) \in T
  BY <1>2, <1>4, <1>7, FlattenAppend
<1>12. AllOf(0) = <<>>
  BY <1>2, <1>5, <1>7, FlattenAppend
<1> QED
  BY <1>1, <1>8, <1>9, <1>10, <1>11, <1>12 DEF T

\* What one begins with is a prefix.
LEMMA PrefixOfBoth ==
  ASSUME NEW S, NEW a \in Seq(S), NEW b \in Seq(S)
  PROVE  IsPrefix(a, a \o b) /\ IsPrefix(a, a)
<1>1. /\ Len(a) <= Len(a \o b) /\ SubSeq(a, 1, Len(a)) = a /\ SubSeq(a \o b, 1, Len(a)) = a
      /\ Len(a) <= Len(a)
  OBVIOUS
<1> QED
  BY <1>1 DEF IsPrefix

\* The place in a file, while one is read.
LEMMA PlaceInFile ==
  ASSUME IInv, pc \in {"read", "emit"}
  PROVE  /\ file_no \in 1..Len(files) /\ file \in File /\ file = files[file_no]
         /\ Len(file.local_ids) \in Nat /\ pos \in Nat \ {0} /\ pos - 1 \in 0..Len(file.local_ids)
         /\ available >= 2 => pos \in 1..Len(file.local_ids)
<1>1. /\ file \in File /\ Len(file.local_ids) \in Nat /\ FileSize \in Nat
      /\ FileSize <= 2 * Len(file.local_ids) + 1
  BY Kinds
<1>2. /\ file_no \in Nat \ {0} /\ file_no <= Len(files) /\ files \in Seq(File)
      /\ pos \in Nat \ {0} /\ available \in Nat
      /\ 2 * (pos - 1) + available <= FileSize
  BY DEF IInv, TypeOK, BufferOK
<1>3. file_no \in 1..Len(files) /\ file = files[file_no]
  BY <1>2 DEF file
<1>4. \A p, a, l, f \in Nat : 2 * (p - 1) + a <= f /\ f <= 2 * l + 1 /\ p # 0 =>
        p - 1 \in 0..l /\ (a >= 2 => p \in 1..l)
  OBVIOUS
<1>5. pos - 1 \in 0..Len(file.local_ids) /\ (available >= 2 => pos \in 1..Len(file.local_ids))
  <2>1. pos \in Nat /\ pos # 0
    BY <1>2
  <2> QED
    BY <1>1, <1>2, <1>4, <2>1, Zenon
<1> QED
  BY <1>1, <1>2, <1>3, <1>5

\* The IDs done are those listed first.
LEMMA DoneIsListedFirst ==
  ASSUME IInv, Progress, pc # "failed"
  PROVE  Done \in Seq(Entry) /\ \E rest \in Seq(Entry) : Listed = Done \o rest
<1> DEFINE ids == IdsIn(file)
           before == AllOf(file_no - 1)
<1>1. files \in Seq(File) /\ Len(files) \in Nat /\ file_no \in Nat \ {0} /\ file_no - 1 \in 0..Len(files)
  BY DEF IInv, TypeOK, Progress
<1>2. before \in Seq(Entry)
  BY <1>1, AllOfFacts
<1>3. ASSUME NEW n \in Nat, pc \in {"read", "emit"}, n \in 0..Len(file.local_ids),
             Done = before \o SubSeq(ids, 1, n)
      PROVE  Done \in Seq(Entry) /\ \E rest \in Seq(Entry) : Listed = Done \o rest
  <2>1. file \in File /\ file_no \in 1..Len(files) /\ file = files[file_no]
    BY <1>3, PlaceInFile
  <2>2. ids \in Seq(Entry) /\ Len(ids) = Len(file.local_ids)
    BY <1>1, <2>1, AllOfFacts
  <2>3. AllOf(file_no) = before \o ids
    BY <1>1, <2>1, AllOfFacts
  <2>4. PICK others \in Seq(Entry) : Listed = AllOf(file_no) \o others
    <3>1. file_no \in 0..Len(files)
      BY <2>1
    <3> QED
      BY <1>1, <3>1, AllOfFacts
  <2> DEFINE some == SubSeq(ids, 1, n)
             more == SubSeq(ids, n + 1, Len(ids))
  <2>5. some \in Seq(Entry) /\ more \in Seq(Entry) /\ ids = some \o more
    <3> HIDE DEF ids
    <3> QED
      BY <1>3, <2>2, CutAt
  <2> HIDE DEF before, ids, some, more
  <2>6. Joinable(Seq(Entry))
    BY SequencesJoin
  <2>7. (before \o (some \o more)) \o others = (before \o some) \o (more \o others)
        /\ more \o others \in Seq(Entry) /\ before \o some \in Seq(Entry)
    <3> DEFINE T == Seq(Entry)
    <3>1. Joinable(T) /\ before \in T /\ some \in T /\ more \in T /\ others \in T
      BY <1>2, <2>4, <2>5, <2>6
    <3> HIDE DEF T
    <3>2. more \o others \in T /\ before \o some \in T
      BY <3>1, Zenon DEF Joinable
    <3>3. (before \o some) \o more = before \o (some \o more)
      BY <3>1, Zenon DEF Joinable
    <3> DEFINE both == before \o some
    <3>4. both \in T
      BY <3>2
    <3> HIDE DEF both
    <3>5. (both \o more) \o others = both \o (more \o others)
      BY <3>1, <3>4, ZenonT(40) DEF Joinable
    <3> QED
      BY <3>2, <3>3, <3>5 DEF T, both
  <2>8. Done = before \o some
    BY <1>3 DEF some
  <2>9. Listed = Done \o (more \o others)
    BY <2>3, <2>4, <2>5, <2>7, <2>8
  <2> QED
    BY <2>7, <2>8, <2>9
<1>4. CASE pc = "read"
  <2>1. pos - 1 \in 0..Len(file.local_ids) /\ pos - 1 \in Nat
    BY <1>4, PlaceInFile
  <2>2. Done = before \o SubSeq(ids, 1, pos - 1)
    BY <1>4 DEF Done
  <2> HIDE DEF before, ids
  <2> QED
    BY <1>3, <1>4, <2>1, <2>2
<1>5. CASE pc = "emit"
  <2>1. pos \in 1..Len(file.local_ids) /\ available >= 2
    BY <1>5, PlaceInFile DEF IInv, BufferOK
  <2>2. Done = before \o SubSeq(ids, 1, pos)
    BY <1>5 DEF Done
  <2>3. pos \in 0..Len(file.local_ids) /\ pos \in Nat
    BY <2>1
  <2> HIDE DEF before, ids
  <2> QED
    BY <1>3, <1>5, <2>2, <2>3
<1>6. CASE pc \notin {"read", "emit"}
  <2>1. Done = before \o <<>>
    BY <1>6 DEF Done
  <2>2. Done = before
    <3>1. before \o <<>> = before
      BY <1>2, ConcatEmptySeq
    <3> QED
      BY <2>1, <3>1
  <2> QED
    BY <1>1, <1>2, <2>2, AllOfFacts
<1> QED
  BY <1>4, <1>5, <1>6

\* So what is written is a prefix of the whole translation.
LEMMA WrittenIsPrefix ==
  ASSUME IInv, Progress
  PROVE  IsPrefix(output, Translated(Listed))
<1>1. CASE pc = "failed"
  BY <1>1 DEF Progress
<1>2. CASE pc # "failed"
  <2> DEFINE T == Seq(IdsOf(input.tokens))
  <2>1. PICK rest \in Seq(Entry) : Listed = Done \o rest
    BY <1>2, DoneIsListedFirst
  <2>2. Done \in Seq(Entry) /\ input \in Case /\ output \in T /\ pending \in T
    BY <1>2, DoneIsListedFirst DEF IInv, TypeOK
  <2>3. Translated(Listed) = Translated(Done) \o Translated(rest) /\ Translated(rest) \in T
    BY <2>1, <2>2, TranslatedFacts
  <2>4. Translated(Done) = output \o pending
    BY <1>2 DEF Progress
  <2>5. Joinable(T)
    BY SequencesJoin
  <2>6. (output \o pending) \o Translated(rest) = output \o (pending \o Translated(rest))
        /\ pending \o Translated(rest) \in T
    <3> HIDE DEF T
    <3> QED
      BY <2>2, <2>3, <2>5, Zenon DEF Joinable
  <2>7. IsPrefix(output, output \o (pending \o Translated(rest)))
    BY <2>2, <2>6, PrefixOfBoth
  <2> QED
    BY <2>3, <2>4, <2>6, <2>7
<1> QED
  BY <1>1, <1>2

\* The translation depends only on what the run was given and on the listing.
LEMMA SameTranslation ==
  ASSUME UNCHANGED <<input, files>>
  PROVE  /\ \A s : Translated(s)' = Translated(s)
         /\ \A e : Sound(e)' = Sound(e)
         /\ \A n : AllOf(n)' = AllOf(n)
         /\ Listed' = Listed
BY DEF Translated, Translation, Sound, AllOf, Listed

\* A failure leaves what has been written.
LEMMA FailureKeepsPrefix ==
  ASSUME IInv, Progress, pc' = "failed", UNCHANGED <<input, files, output, consumed>>
  PROVE  Progress'
<1>1. IsPrefix(output, Translated(Listed))
  BY WrittenIsPrefix
<1>2. Translated(Listed)' = Translated(Listed)
  BY DEF Translated, Translation, Sound, Listed
<1>3. IsPrefix(output, Translated(Listed))'
  BY <1>1, <1>2
<1> QED
  BY <1>3 DEF Progress

\* A step that does not fail goes on with the IDs it has done and their translation.
LEMMA StepGoesOn ==
  ASSUME IInv, Progress, UNCHANGED <<input, files>>, pc # "failed", pc' # "failed",
         Done' = Done, output' \o pending' = output \o pending,
         consumed' \in Nat,
         Len(Done) = consumed' + (IF pc' = "emit" THEN 1 ELSE 0),
         file_no' <= Len(files) + 1,
         pc' \in {"build_map", "list_files"} => file_no' = 1,
         pc' \in {"flush", "write_receipt", "verdict", "passed"} => file_no' = Len(files) + 1
  PROVE  Progress'
<1>1. Translated(Done)' = Translated(Done)
  BY DEF Translated, Translation, Sound
<1>2. (output \o pending = Translated(Done))'
  BY <1>1 DEF Progress
<1>3. (\A k \in 1..Len(Done) : Sound(Done[k]))'
  <2>1. \A k \in 1..Len(Done) : Sound(Done[k])
    BY DEF Progress
  <2>2. \A e : Sound(e)' = Sound(e)
    BY DEF Sound
  <2> QED
    BY <2>1, <2>2
<1> QED
  BY <1>2, <1>3 DEF Progress

\* Nothing has been done at first.
LEMMA InitProgress == Init => Progress /\ WholeIds
<1> SUFFICES ASSUME Init PROVE Progress /\ WholeIds
  OBVIOUS
<1>1. IInv /\ input \in Case /\ files \in Seq(File) /\ files = <<>>
  BY InitInvariant DEF IInv, TypeOK, Init
<1>2. AllOf(0) = <<>> /\ Translated(<<>>) = <<>>
  BY <1>1, AllOfFacts, TranslatedFacts
<1>3. Done = <<>>
  <2>1. Done = AllOf(0) \o <<>>
    BY DEF Init, Done
  <2> QED
    BY <1>2, <2>1
<1> QED
  BY <1>2, <1>3 DEF Init, Progress, WholeIds

\* The translation advances by the expansion of each ID in turn.
LEMMA ConsumeIdProgress == IInv /\ Progress /\ ConsumeId => Progress'
<1> SUFFICES ASSUME IInv, Progress, ConsumeId PROVE Progress'
  OBVIOUS
<1>1. /\ pc = "read" /\ available >= 2
      /\ UNCHANGED <<input, files, file_no, pos, available, consumed, output>>
  BY DEF ConsumeId, cursor
<1>2. CASE pc' = "failed"
  BY <1>1, <1>2, FailureKeepsPrefix
<1>3. CASE pc' # "failed"
  <2> DEFINE e == <<file, local_id>>
             ids == IdsIn(file)
             before == AllOf(file_no - 1)
             T == Seq(IdsOf(input.tokens))
  <2>1. /\ pc' = "emit" /\ UNCHANGED error
        /\ local_id < Len(file.gmap) /\ global_id < Len(input.du_vocab)
        /\ pending' = GreedyIds(input.tokens, du_lexeme)
    BY <1>3 DEF ConsumeId, Fail
  <2>2. /\ file \in File /\ pos \in 1..Len(file.local_ids) /\ files \in Seq(File)
        /\ Len(file.local_ids) \in Nat /\ file_no \in 1..Len(files) /\ input \in Case
    BY <1>1, PlaceInFile DEF IInv, TypeOK
  <2>3. ids \in Seq(Entry) /\ Len(ids) = Len(file.local_ids) /\ ids[pos] = e /\ before \in Seq(Entry)
        /\ e \in Entry
    <3>1. file_no - 1 \in 0..Len(files)
      BY <2>2
    <3>2. local_id \in Nat
      BY <2>2 DEF File, local_id
    <3> QED
      BY <2>2, <3>1, <3>2, AllOfFacts DEF IdsIn, local_id, Entry
  <2>4. Sound(e) /\ Translation(e) = pending'
    BY <2>1 DEF Sound, Translation, du_lexeme, global_id
  <2>5. /\ Done = before \o SubSeq(ids, 1, pos - 1)
        /\ Done' = before \o SubSeq(ids, 1, pos)
    <3>1. AllOf(file_no - 1)' = before /\ IdsIn(file)' = ids
      BY <1>1 DEF AllOf, IdsIn, file
    <3> QED
      BY <1>1, <2>1, <3>1 DEF Done
  <2> HIDE DEF ids, before, e, T
  <2>6. SubSeq(ids, 1, pos) = Append(SubSeq(ids, 1, pos - 1), e)
        /\ SubSeq(ids, 1, pos - 1) \in Seq(Entry)
    <3>1. pos - 1 \in 0..Len(ids) /\ pos - 1 < Len(ids) /\ (pos - 1) + 1 = pos
      BY <2>2, <2>3
    <3> QED
      BY <2>3, <3>1, CutAt
  <2>7. Done' = Append(Done, e) /\ Done \in Seq(Entry)
    <3>1. \A a, b \in Seq(Entry), x \in Entry :
            a \o Append(b, x) = Append(a \o b, x) /\ a \o b \in Seq(Entry)
      OBVIOUS
    <3> DEFINE some == SubSeq(ids, 1, pos - 1)
    <3>2. some \in Seq(Entry) /\ Done = before \o some /\ Done' = before \o Append(some, e)
      BY <2>5, <2>6
    <3> HIDE DEF some
    <3>3. before \o Append(some, e) = Append(before \o some, e) /\ before \o some \in Seq(Entry)
      BY <2>3, <3>1, <3>2
    <3> QED
      BY <3>2, <3>3
  <2>8. Translated(Append(Done, e)) = Translated(Done) \o pending'
    BY <2>2, <2>3, <2>4, <2>7, TranslatedFacts
  <2>9. output \o <<>> = output /\ output \o pending = Translated(Done) /\ pending = <<>>
    <3>1. output \in Seq(IdsOf(input.tokens))
      BY DEF IInv, TypeOK
    <3> QED
      BY <1>1, <3>1, ConcatEmptySeq DEF Progress, IInv, PendingOK
  <2>10. output' \o pending' = Translated(Done')
    BY <1>1, <2>7, <2>8, <2>9
  <2>11. /\ \A s : Translated(s)' = Translated(s)
         /\ \A x : Sound(x)' = Sound(x)
    BY <1>1, SameTranslation
  <2>12. (output \o pending = Translated(Done))'
    BY <2>10, <2>11
  <2>13. /\ Len(Done') = consumed' + 1
         /\ \A k \in 1..Len(Done') : Sound(Done'[k])
    <3>1. /\ Len(Done) = consumed /\ \A k \in 1..Len(Done) : Sound(Done[k])
      BY <1>1 DEF Progress
    <3>2. /\ Len(Append(Done, e)) = Len(Done) + 1 /\ Append(Done, e)[Len(Done) + 1] = e
          /\ \A k \in 1..Len(Done) : Append(Done, e)[k] = Done[k]
          /\ Len(Done) \in Nat
      BY <2>3, <2>7
    <3>3. \A k \in 1..(Len(Done) + 1) : k \in 1..Len(Done) \/ k = Len(Done) + 1
      BY <3>2
    <3> QED
      BY <1>1, <2>4, <2>7, <3>1, <3>2, <3>3
  <2>14. consumed \in Nat /\ file_no <= Len(files) + 1
    BY <1>1 DEF Progress
  <2> QED
    BY <1>1, <2>1, <2>11, <2>12, <2>13, <2>14 DEF Progress
<1> QED
  BY <1>2, <1>3

\* The listing is taken before the first file is read.
LEMMA ListFilesProgress == IInv /\ Progress /\ ListFiles => Progress'
<1> SUFFICES ASSUME IInv, Progress, ListFiles PROVE Progress'
  OBVIOUS
<1>1. pc = "list_files" /\ UNCHANGED <<input, file_no, pending, consumed, output>>
  BY DEF ListFiles, summary
<1>2. CASE pc' = "failed"
  <2>1. UNCHANGED files
    BY <1>2 DEF ListFiles
  <2> QED
    BY <1>1, <1>2, <2>1, FailureKeepsPrefix
<1>3. CASE pc' # "failed"
  <2>1. pc' = "open"
    BY <1>3 DEF ListFiles, Fail
  <2>2. files \in Seq(File) /\ file_no = 1
    BY <1>1 DEF IInv, TypeOK, Progress
  <2>3. AllOf(0) = <<>>
    BY <2>2, AllOfFacts
  <2>4. AllOf(0)' = AllOf(0)
    BY DEF AllOf
  <2>5. Done = <<>> /\ Done' = <<>>
    <3>1. Done = AllOf(0) \o <<>> /\ Done' = AllOf(0)' \o <<>>
      BY <1>1, <2>1, <2>2 DEF Done
    <3> QED
      BY <2>3, <2>4, <3>1
  <2>6. Translated(<<>>)' = Translated(<<>>)
    BY <1>1 DEF Translated, Translation, Sound
  <2>7. output' \o pending' = Translated(Done)'
    BY <1>1, <2>5, <2>6 DEF Progress
  <2>8. consumed = 0
    BY <1>1, <2>5 DEF Progress
  <2>9. Len(files') \in Nat
    BY NextInvariant DEF IInv, TypeOK, Next
  <2> QED
    BY <1>1, <2>1, <2>2, <2>5, <2>7, <2>8, <2>9 DEF Progress
<1> QED
  BY <1>2, <1>3

\* A file that has been opened has had none of its IDs done.
LEMMA OpenFileProgress == IInv /\ Progress /\ OpenFile => Progress'
<1> SUFFICES ASSUME IInv, Progress, OpenFile PROVE Progress'
  OBVIOUS
<1>1. /\ pc = "open" /\ pc' \in {"failed", "read", "flush"}
      /\ UNCHANGED <<input, files, file_no, pending, consumed, output>>
  BY DEF OpenFile, Fail
<1>2. CASE pc' = "failed"
  BY <1>1, <1>2, FailureKeepsPrefix
<1>3. files \in Seq(File) /\ file_no \in Nat \ {0} /\ Len(files) \in Nat
  BY DEF IInv, TypeOK
<1>4. file_no <= Len(files) + 1 /\ Len(Done) = consumed /\ consumed \in Nat
  BY <1>1 DEF Progress
<1>5. Done = AllOf(file_no - 1) \o <<>> /\ AllOf(file_no - 1)' = AllOf(file_no - 1)
  BY <1>1 DEF Done, AllOf
<1>6. CASE pc' = "read"
  <2>1. pos' = 1 /\ file_no <= Len(files)
    BY <1>6 DEF OpenFile, Fail
  <2>2. file \in File /\ IdsIn(file) \in Seq(Entry)
    <3>1. file \in File
      BY <1>3, <2>1 DEF file
    <3> QED
      BY <1>3, <3>1, AllOfFacts
  <2>3. SubSeq(IdsIn(file), 1, 1 - 1) = <<>>
    BY <2>2
  <2>4. SubSeq(IdsIn(file)', 1, pos' - 1) = <<>>
    <3>1. IdsIn(file)' = IdsIn(file)
      BY <1>1 DEF IdsIn, file
    <3> QED
      BY <2>1, <2>3, <3>1
  <2>5. Done' = Done
    BY <1>5, <1>6, <2>4 DEF Done
  <2> QED
    BY <1>1, <1>4, <1>6, <2>5, StepGoesOn
<1>7. CASE pc' = "flush"
  <2>1. file_no > Len(files)
    BY <1>7 DEF OpenFile, Fail
  <2>2. file_no = Len(files) + 1
    BY <1>3, <1>4, <2>1
  <2>3. Done' = Done
    BY <1>5, <1>7 DEF Done
  <2> QED
    BY <1>1, <1>4, <1>7, <2>2, <2>3, StepGoesOn
<1> QED
  BY <1>1, <1>2, <1>6, <1>7

\* A file is left when all its IDs are done.
LEMMA FillBufferProgress == IInv /\ Progress /\ FillBuffer => Progress'
<1> SUFFICES ASSUME IInv, Progress, FillBuffer PROVE Progress'
  OBVIOUS
<1>1. /\ pc = "read" /\ pc' \in {"failed", "read", "open"}
      /\ UNCHANGED <<input, files, pos, pending, consumed, output>>
  BY DEF FillBuffer, Fail, summary
<1>2. CASE pc' = "failed"
  BY <1>1, <1>2, FailureKeepsPrefix
<1>3. Len(Done) = consumed /\ consumed \in Nat /\ file_no <= Len(files) + 1
  BY <1>1 DEF Progress
<1>4. /\ file \in File /\ file_no \in 1..Len(files) /\ file = files[file_no]
      /\ pos - 1 \in 0..Len(file.local_ids) /\ Len(file.local_ids) \in Nat
      /\ files \in Seq(File) /\ Len(files) \in Nat
  BY <1>1, PlaceInFile DEF IInv, TypeOK
<1>5. CASE pc' = "read"
  <2>1. file_no' = file_no
    BY <1>5 DEF FillBuffer, Fail
  <2>2. AllOf(file_no - 1)' = AllOf(file_no - 1) /\ IdsIn(file)' = IdsIn(file)
    BY <1>1, <2>1 DEF AllOf, IdsIn, file
  <2>3. Done' = Done
    BY <1>1, <1>5, <2>2 DEF Done
  <2> QED
    BY <1>1, <1>3, <1>5, <2>1, <2>3, StepGoesOn
<1>6. CASE pc' = "open"
  <2> DEFINE ids == IdsIn(file)
  <2>1. file_no' = file_no + 1 /\ available = 0 /\ Unread = 0
    BY <1>1, <1>6 DEF FillBuffer, Fail
  <2>2. pos - 1 = Len(file.local_ids)
    <3>1. FileSize \in Nat /\ FileSize = 2 * (pos - 1)
      <4>1. FileSize \in Nat
        BY Kinds, <1>1
      <4>2. FileSize - 2 * (pos - 1) - 0 = 0
        BY <2>1 DEF Unread
      <4>3. \A f, n \in Nat : f - 2 * n - 0 = 0 => f = 2 * n
        OBVIOUS
      <4>4. pos - 1 \in Nat
        BY <1>4
      <4> QED
        BY <4>1, <4>2, <4>3, <4>4, Zenon
    <3>2. FileSize = 2 * Len(file.local_ids) + 1 \/ FileSize = 2 * Len(file.local_ids) + 0
      BY Zenon DEF FileSize
    <3> QED
      BY <1>4, <3>1, <3>2
  <2>3. ids \in Seq(Entry) /\ Len(ids) = Len(file.local_ids)
    BY <1>4, AllOfFacts
  <2>4. AllOf(file_no) = AllOf(file_no - 1) \o ids /\ AllOf(file_no) \in Seq(Entry)
    <3>1. file_no \in 0..Len(files)
      BY <1>4
    <3> QED
      BY <1>4, <3>1, AllOfFacts
  <2>5. Done = AllOf(file_no)
    <3>1. Done = AllOf(file_no - 1) \o SubSeq(ids, 1, pos - 1)
      BY <1>1 DEF Done
    <3> HIDE DEF ids
    <3>2. Len(ids) \in 0..Len(ids)
      BY <2>3
    <3>3. SubSeq(ids, 1, Len(ids)) = ids
      BY <2>3, <3>2, CutAt
    <3> QED
      BY <2>2, <2>3, <2>4, <3>1, <3>3
  <2>6. Done' = Done
    <3>1. Done' = (AllOf(file_no - 1))' \o <<>>
      BY <1>6 DEF Done
    <3>2. file_no' - 1 = file_no
      BY <1>4, <2>1
    <3>3. (AllOf(file_no - 1))' = AllOf(file_no)
      BY <1>1, <3>2 DEF AllOf
    <3>4. AllOf(file_no) \o <<>> = AllOf(file_no)
      BY <2>4, ConcatEmptySeq
    <3> QED
      BY <2>5, <3>1, <3>3, <3>4
  <2>7. file_no' <= Len(files) + 1
    BY <1>4, <2>1
  <2> QED
    BY <1>1, <1>3, <1>6, <2>6, <2>7, StepGoesOn
<1> QED
  BY <1>1, <1>2, <1>5, <1>6

\* An expansion is written in its order; what is written of it stays written.
LEMMA EmitIdProgress == IInv /\ Progress /\ EmitId => Progress'
<1> SUFFICES ASSUME IInv, Progress, EmitId PROVE Progress'
  OBVIOUS
<1>1. /\ pc = "emit" /\ pending # <<>>
      /\ UNCHANGED <<input, files, file_no, pos, consumed>>
  BY DEF EmitId, cursor
<1>2. CASE pc' = "failed"
  <2>1. UNCHANGED output
    BY <1>1, <1>2 DEF EmitId
  <2> QED
    BY <1>1, <1>2, <2>1, FailureKeepsPrefix
<1>3. CASE pc' # "failed"
  <2> DEFINE T == Seq(IdsOf(input.tokens))
  <2>1. pc' = "emit" /\ output' = Append(output, Head(pending)) /\ pending' = Tail(pending)
    BY <1>1, <1>3 DEF EmitId, Fail
  <2>2. output \in T /\ pending \in T
    BY DEF IInv, TypeOK
  <2>3. output' \o pending' = output \o pending
    <3>1. /\ Head(pending) \in IdsOf(input.tokens) /\ Tail(pending) \in T
          /\ pending = <<Head(pending)>> \o Tail(pending)
      BY <1>1, <2>2
    <3>2. Append(output, Head(pending)) = output \o <<Head(pending)>> /\ <<Head(pending)>> \in T
      BY <2>2, <3>1, AppendIsConcat
    <3>3. (output \o <<Head(pending)>>) \o Tail(pending) = output \o (<<Head(pending)>> \o Tail(pending))
      BY <2>2, <3>1, <3>2, ConcatAssociative
    <3> QED
      BY <2>1, <3>1, <3>2, <3>3
  <2>4. Len(Done) = consumed + 1 /\ consumed \in Nat /\ file_no <= Len(files) + 1
    BY <1>1 DEF Progress
  <2>5. AllOf(file_no - 1)' = AllOf(file_no - 1) /\ IdsIn(file)' = IdsIn(file)
    BY <1>1 DEF AllOf, IdsIn, file
  <2>6. Done' = Done
    BY <1>1, <2>1, <2>5 DEF Done
  <2> QED
    BY <1>1, <2>1, <2>3, <2>4, <2>6, StepGoesOn
<1> QED
  BY <1>2, <1>3

\* A step changes the translation and the IDs done together.
LEMMA NextProgress == IInv /\ Progress /\ [Next \/ Terminated]_vars => Progress'
<1> SUFFICES ASSUME IInv, Progress, [Next \/ Terminated]_vars PROVE Progress'
  OBVIOUS
<1>1. ASSUME UNCHANGED <<input, files, file_no, pos, pending, consumed, output>>,
             pc # "failed", pc' # "failed",
             pc \notin {"read", "emit"}, pc' \notin {"read", "emit"},
             pc' \in {"build_map", "list_files"} => file_no = 1,
             pc' \in {"flush", "write_receipt", "verdict", "passed"} => file_no = Len(files) + 1
      PROVE  Progress'
  <2>1. AllOf(file_no - 1)' = AllOf(file_no - 1)
    BY <1>1 DEF AllOf
  <2>2. Done' = Done
    BY <1>1, <2>1 DEF Done
  <2>3. Len(Done) = consumed + 0 /\ consumed \in Nat /\ file_no <= Len(files) + 1
    BY <1>1 DEF Progress
  <2>4. pc' # "emit"
    BY <1>1
  <2> QED
    BY <1>1, <2>2, <2>3, <2>4, StepGoesOn
<1>2. ASSUME pc' = "failed", UNCHANGED <<input, files, output, consumed>>
      PROVE  Progress'
  BY <1>2, FailureKeepsPrefix
<1>3. CASE BuildMap
  <2>1. /\ pc = "build_map" /\ pc' \in {"failed", "list_files"} /\ file_no = 1
        /\ UNCHANGED <<input, files, file_no, pos, pending, consumed, output>>
    BY <1>3 DEF BuildMap, Fail, cursor, summary, Progress
  <2> QED
    BY <1>1, <1>2, <2>1
<1>4. CASE ListFiles
  BY <1>4, ListFilesProgress
<1>5. CASE OpenFile
  BY <1>5, OpenFileProgress
<1>6. CASE FillBuffer
  BY <1>6, FillBufferProgress
<1>7. CASE ConsumeId
  BY <1>7, ConsumeIdProgress
<1>8. CASE EmitId
  BY <1>8, EmitIdProgress
<1>9. CASE EndPosition
  <2>1. /\ pc = "emit" /\ pc' = "read" /\ pos' = pos + 1 /\ consumed' = consumed + 1
        /\ UNCHANGED <<input, files, file_no, pending, output>>
    BY <1>9 DEF EndPosition
  <2>2. AllOf(file_no - 1)' = AllOf(file_no - 1) /\ IdsIn(file)' = IdsIn(file)
    BY <2>1 DEF AllOf, IdsIn, file
  <2>3. pos' - 1 = pos
    BY <2>1 DEF IInv, TypeOK
  <2>4. Done' = Done
    BY <2>1, <2>2, <2>3 DEF Done
  <2>5. Len(Done) = consumed + 1 /\ consumed \in Nat /\ file_no <= Len(files) + 1
    BY <2>1 DEF Progress
  <2>6. consumed' \in Nat /\ Len(Done) = consumed' + 0
    BY <2>1, <2>5
  <2> QED
    BY <2>1, <2>4, <2>5, <2>6, StepGoesOn
<1>10. CASE Flush
  <2>1. /\ pc = "flush" /\ pc' \in {"failed", "write_receipt"}
        /\ UNCHANGED <<input, files, file_no, pos, pending, consumed, output>>
    BY <1>10 DEF Flush, Fail, cursor, summary
  <2>2. file_no = Len(files) + 1
    BY <2>1 DEF Progress
  <2> QED
    BY <1>1, <1>2, <2>1, <2>2
<1>11. CASE WriteReceipt
  <2>1. /\ pc = "write_receipt" /\ pc' \in {"failed", "verdict"}
        /\ UNCHANGED <<input, files, file_no, pos, pending, consumed, output>>
    BY <1>11 DEF WriteReceipt, Fail, cursor, summary
  <2>2. file_no = Len(files) + 1
    BY <2>1 DEF Progress
  <2> QED
    BY <1>1, <1>2, <2>1, <2>2
<1>12. CASE Verdict
  <2>1. /\ pc = "verdict" /\ pc' \in {"failed", "passed"}
        /\ UNCHANGED <<input, files, file_no, pos, pending, consumed, output>>
    BY <1>12 DEF Verdict, Fail, cursor, summary
  <2>2. file_no = Len(files) + 1
    BY <2>1 DEF Progress
  <2> QED
    BY <1>1, <1>2, <2>1, <2>2
<1>13. CASE UNCHANGED vars
  <2>1. UNCHANGED <<input, pc, files, file_no, pos, pending, consumed, output>>
    BY <1>13 DEF vars, cursor, summary
  <2>2. AllOf(file_no - 1)' = AllOf(file_no - 1) /\ IdsIn(file)' = IdsIn(file)
    BY <2>1 DEF AllOf, IdsIn, file
  <2>3. Done' = Done
    BY <2>1, <2>2 DEF Done
  <2>4. CASE pc = "failed"
    BY <1>2, <2>1, <2>4
  <2>5. CASE pc # "failed"
    BY <2>1, <2>3, <2>5, StepGoesOn DEF Progress
  <2> QED
    BY <2>4, <2>5
<1> QED
  BY <1>3, <1>4, <1>5, <1>6, <1>7, <1>8, <1>9, <1>10, <1>11, <1>12, <1>13 DEF Next, Terminated

\* When reads return whole IDs, what is left in the buffer is whole IDs too,
\* until the end of an odd file.
LEMMA NextWholeIds ==
  ASSUME EvenReads
  PROVE  IInv /\ WholeIds /\ [Next \/ Terminated]_vars => WholeIds'
<1> SUFFICES ASSUME IInv, WholeIds, [Next \/ Terminated]_vars PROVE WholeIds'
  OBVIOUS
<1>1. ASSUME error' # "odd", pc' \notin {"read", "emit"} PROVE WholeIds'
  BY <1>1 DEF WholeIds
<1>2. pc # "failed" => error # "odd"
  BY DEF IInv, TypeOK
<1>3. CASE BuildMap \/ ListFiles \/ Flush \/ WriteReceipt \/ Verdict
  <2>1. pc # "failed" /\ pc' \notin {"read", "emit"} /\ (error' = error \/ error' # "odd")
    BY <1>3 DEF BuildMap, ListFiles, Flush, WriteReceipt, Verdict, Fail
  <2> QED
    BY <1>1, <1>2, <2>1
<1>4. CASE OpenFile
  <2>1. pc = "open" /\ error' # "odd" /\ UNCHANGED available
    BY <1>2, <1>4 DEF OpenFile, Fail
  <2>2. available' = 2 * 0
    BY <2>1 DEF IInv, BufferOK
  <2> QED
    BY <2>1, <2>2 DEF WholeIds
<1>5. CASE FillBuffer
  <2>1. /\ pc = "read" /\ UNCHANGED <<files, pos>> /\ error # "odd"
        /\ pos \in Nat \ {0} /\ available \in Nat
    BY <1>2, <1>5 DEF FillBuffer, IInv, TypeOK
  <2>2. /\ FileSize \in Nat /\ Len(file.local_ids) \in Nat
        /\ pos - 1 \in Nat
    BY <2>1, Kinds
  <2>3. CASE error' = "odd"
    <3>1. available = 1 /\ UNCHANGED file_no /\ pc' = "failed"
      BY <1>5, <2>1, <2>3 DEF FillBuffer, Fail, OddStream
    <3>2. 2 * (pos - 1) + 1 = FileSize
      <4>1. ~ \E half \in Nat : available = 2 * half
        BY <3>1
      <4> QED
        BY <2>1, <3>1, <4>1 DEF WholeIds
    <3>3. \/ FileSize = 2 * Len(file.local_ids) + 1 /\ file.odd
          \/ FileSize = 2 * Len(file.local_ids) + 0
      BY Zenon DEF FileSize
    <3>4. \A n, l \in Nat : 2 * n + 1 # 2 * l + 0 /\ (2 * n + 1 = 2 * l + 1 => n = l)
      OBVIOUS
    <3>5. file.odd /\ pos - 1 = Len(file.local_ids)
      BY <2>2, <3>2, <3>3, <3>4, Zenon
    <3>6. file' = file /\ pos = Len(file.local_ids) + 1
      <4>1. file' = file
        BY <2>1, <3>1 DEF file
      <4> QED
        BY <2>1, <3>5, <4>1
    <3> QED
      BY <2>1, <3>1, <3>5, <3>6 DEF WholeIds
  <2>4. CASE error' # "odd" /\ pc' # "read"
    <3>1. pc' \notin {"read", "emit"}
      BY <1>5, <2>4 DEF FillBuffer, Fail
    <3> QED
      BY <1>1, <2>4, <3>1
  <2>5. CASE error' # "odd" /\ pc' = "read"
    <3>1. PICK size \in ReadSizes : available' = Min({size, Unread}) /\ available = 0 /\ Unread > 0
      BY <1>5, <2>5 DEF FillBuffer, Fail
    <3>2. UNCHANGED file_no
      BY <1>5, <2>5 DEF FillBuffer, Fail
    <3>3. FileSize' = FileSize
      BY <2>1, <3>2 DEF FileSize, file
    <3>4. size \in Nat /\ \E half \in Nat : size = 2 * half
      BY InputsAssumption DEF EvenReads
    <3>5. Unread = FileSize - 2 * (pos - 1) /\ Unread \in Nat
      BY <2>1, <2>2, <3>1 DEF Unread
    <3>6. \E m \in {size, Unread} : \A k \in {size, Unread} : m <= k
      BY <3>4, <3>5
    <3>7. available' = size \/ available' = Unread
      BY <3>1, <3>6 DEF Min
    <3>8. \A f, n \in Nat : 2 * n + (f - 2 * n) = f
      OBVIOUS
    <3>9. 2 * (pos - 1) + Unread = FileSize
      BY <2>2, <3>5, <3>8, Zenon
    <3>10. (\E half \in Nat : available' = 2 * half) \/ 2 * (pos' - 1) + available' = FileSize'
      BY <2>1, <3>3, <3>4, <3>7, <3>9
    <3> QED
      BY <2>5, <3>10 DEF WholeIds
  <2> QED
    BY <2>3, <2>4, <2>5
<1>6. ASSUME pc \in {"read", "emit"}, UNCHANGED <<files, file_no, pos, available>>, error' # "odd"
      PROVE  WholeIds'
  <2>1. FileSize' = FileSize
    BY <1>6 DEF FileSize, file
  <2> QED
    BY <1>6, <2>1 DEF WholeIds
<1>7. CASE ConsumeId \/ EmitId
  <2>1. /\ pc \in {"read", "emit"} /\ UNCHANGED <<files, file_no, pos, available>>
        /\ (error' = error \/ error' # "odd")
    BY <1>7 DEF ConsumeId, EmitId, Fail, cursor
  <2>2. error' # "odd"
    BY <1>2, <2>1
  <2> QED
    BY <1>6, <2>1, <2>2
<1>8. CASE EndPosition
  <2>1. /\ pc = "emit" /\ UNCHANGED <<files, file_no, error>> /\ error # "odd"
        /\ pos' = pos + 1 /\ available' = available - 2
    BY <1>2, <1>8 DEF EndPosition
  <2>2. pos \in Nat \ {0} /\ available \in Nat /\ available >= 2 /\ FileSize \in Nat
    BY <2>1, Kinds DEF IInv, TypeOK, BufferOK
  <2>3. FileSize' = FileSize
    BY <2>1 DEF FileSize, file
  <2>4. ASSUME NEW half \in Nat, available = 2 * half PROVE available' = 2 * (half - 1) /\ half - 1 \in Nat
    BY <2>1, <2>2, <2>4
  <2>5. 2 * (pos' - 1) + available' = 2 * (pos - 1) + available
    BY <2>1, <2>2
  <2>6. (\E half \in Nat : available = 2 * half) \/ 2 * (pos - 1) + available = FileSize
    BY <2>1 DEF WholeIds
  <2>7. (\E half \in Nat : available' = 2 * half) \/ 2 * (pos' - 1) + available' = FileSize'
    BY <2>3, <2>4, <2>5, <2>6
  <2> QED
    BY <2>1, <2>7 DEF WholeIds
<1>9. CASE UNCHANGED vars
  BY <1>9 DEF vars, cursor, WholeIds, FileSize, file
<1> QED
  BY <1>3, <1>4, <1>5, <1>7, <1>8, <1>9 DEF Next, Terminated

\* What a run writes is in the order of its files, complete when it ends, and
\* made of IDs that all have a lexeme.
WritesInOrder ==
  /\ IsPrefix(output, Translated(Listed))
  /\ pc \in {"flush", "write_receipt", "verdict", "passed"} =>
       /\ output = Translated(Listed)
       /\ consumed = Len(Listed)
       /\ \A k \in 1..Len(Listed) : Sound(Listed[k])

\* The IDs done are all that are listed when the last file has been left.
LEMMA OrderFollows == IInv /\ Progress => WritesInOrder
<1> SUFFICES ASSUME IInv, Progress PROVE WritesInOrder
  OBVIOUS
<1>1. ASSUME pc \in {"flush", "write_receipt", "verdict", "passed"}
      PROVE  /\ output = Translated(Listed) /\ consumed = Len(Listed)
             /\ \A k \in 1..Len(Listed) : Sound(Listed[k])
  <2>1. file_no = Len(files) + 1 /\ files \in Seq(File) /\ Len(files) \in Nat
    BY <1>1 DEF IInv, TypeOK, Progress
  <2>2. AllOf(file_no - 1) = Listed /\ Listed \in Seq(Entry)
    <3>1. file_no - 1 = Len(files) /\ Len(files) \in 0..Len(files)
      BY <2>1
    <3>2. Listed = AllOf(Len(files)) /\ AllOf(Len(files)) \in Seq(Entry)
      BY <2>1, <3>1, AllOfFacts
    <3> QED
      BY <3>1, <3>2
  <2>3. Done = Listed
    <3>1. Done = AllOf(file_no - 1) \o <<>>
      BY <1>1 DEF Done
    <3>2. Listed \o <<>> = Listed
      BY <2>2, ConcatEmptySeq
    <3> QED
      BY <2>2, <3>1, <3>2
  <2>4. pending = <<>> /\ output \in Seq(IdsOf(input.tokens))
    BY <1>1 DEF IInv, TypeOK, PendingOK
  <2>5. output \o pending = output
    BY <2>4, ConcatEmptySeq
  <2>6. /\ output \o pending = Translated(Done) /\ Len(Done) = consumed + 0 /\ consumed \in Nat
        /\ \A k \in 1..Len(Done) : Sound(Done[k])
    BY <1>1 DEF Progress
  <2> QED
    BY <2>3, <2>5, <2>6
<1> QED
  BY <1>1, WrittenIsPrefix DEF WritesInOrder

\* Whatever the reads return and wherever a run fails, its output is a prefix of
\* the translation in file order, and whole when the run gets to its end.
THEOREM OutputAlwaysInOrder == Spec => []WritesInOrder
<1>1. IInv /\ Progress /\ [Next \/ Terminated]_vars => IInv' /\ Progress'
  BY NextInvariant, NextProgress
<1> QED
  BY <1>1, InitInvariant, InitProgress, OrderFollows, PTL DEF Spec

\* When reads return whole IDs, a file is moreover refused as odd only if it is,
\* and after all its IDs.
THEOREM OutputAlwaysPrefix ==
  ASSUME EvenReads
  PROVE  Spec => []OutputIsPrefix
<1>1. IInv /\ Progress /\ WholeIds /\ [Next \/ Terminated]_vars => IInv' /\ Progress' /\ WholeIds'
  BY NextInvariant, NextProgress, NextWholeIds
<1>2. IInv /\ Progress /\ WholeIds => OutputIsPrefix
  BY OrderFollows DEF WholeIds, WritesInOrder, OutputIsPrefix
<1> QED
  BY <1>1, <1>2, InitInvariant, InitProgress, PTL DEF Spec
=============================================================================
