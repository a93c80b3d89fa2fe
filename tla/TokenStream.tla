---------------------------- MODULE TokenStream ----------------------------
(***************************************************************************)
(* TokenizerStream (src/bridge.rs): importing a native tokenizer's JSONL   *)
(* records, and the validation every stream passes before it is aligned.   *)
(*                                                                         *)
(* A stream reaches validate in two ways: built by import_jsonl, which     *)
(* reads lines, decodes them and attaches the identity of the raw bytes it *)
(* was given; or handed over as it stands, built by `unchecked` or         *)
(* deserialized, when its identity and its tokens may be anything.         *)
(*                                                                         *)
(* A JSONL line is a record, blank, or bad in one of the ways that         *)
(* import_jsonl tells apart.                                               *)
(***************************************************************************)
EXTENDS Spans

CONSTANTS Imports,   \* [raw, lines]: a file to import against raw bytes
          Presented  \* [raw, stream]: a stream presented for validation

BadLine == {"unreadable", "bad_json", "bad_hex"}

\* A line of the file: its kind, and the token if it is a record.
Line == (({"blank"} \cup BadLine) \X {<<>>}) \cup ({"record"} \X NativeToken)

ASSUME InputsAssumption ==
  /\ \A i \in Imports : i.raw \in Bytes /\ i.lines \in Seq(Line)
  /\ \A p \in Presented : p.raw \in Bytes /\ p.stream \in TokenizerStream

VARIABLES raw,             \* the raw bytes the stream must cover
          lines,           \* the lines of the imported file, or <<>>
          stream,          \* the TokenizerStream
          pc,
          line_no,         \* import_jsonl: the line about to be read
          index,           \* validate: the token about to be checked
          expected_start,  \* validate: where that token must start
          error            \* why the call failed, or "none"

vars == <<raw, lines, stream, pc, line_no, index, expected_start, error>>

NoStream == [raw_len |-> 0, raw_sha256 |-> <<>>, tokens |-> <<>>]

Init ==
  /\ \/ \E i \in Imports : /\ raw = i.raw
                           /\ lines = i.lines
                           /\ stream = NoStream
                           /\ pc = "read_line"
     \/ \E p \in Presented : /\ raw = p.raw
                             /\ lines = <<>>
                             /\ stream = p.stream
                             /\ pc = "identity"
  /\ line_no = 1
  /\ index = 1
  /\ expected_start = 0
  /\ error = "none"

\* Mutated: the reason is lost.
FailUnnamed(reason) == pc' = "failed" /\ UNCHANGED error

Fail(reason) == pc' = "failed" /\ error' = reason

\* Mutated: a line that does not parse is skipped like a blank one.
ReadLineLenient ==
  /\ pc = "read_line"
  /\ line_no <= Len(lines)
  /\ stream' = IF lines[line_no][1] = "record"
               THEN [stream EXCEPT !.tokens = Append(@, lines[line_no][2])] ELSE stream
  /\ line_no' = line_no + 1
  /\ UNCHANGED <<raw, lines, pc, index, expected_start, error>>

\* import_jsonl skips blank lines, stops at the first line it cannot read,
\* parse or decode, and keeps the records in file order.
ReadLine ==
  /\ pc = "read_line"
  /\ line_no <= Len(lines)
  /\ LET line == lines[line_no]
     IN  \/ /\ line[1] = "blank"
            /\ UNCHANGED <<stream, pc, error>>
         \/ /\ line[1] = "record"
            /\ stream' = [stream EXCEPT !.tokens = Append(@, line[2])]
            /\ UNCHANGED <<pc, error>>
         \/ /\ line[1] \in BadLine
            /\ Fail(line[1])
            /\ UNCHANGED stream
  /\ line_no' = line_no + 1
  /\ UNCHANGED <<raw, lines, index, expected_start>>

\* TokenizerStream::new attaches the identity of the raw bytes and validates.
BuildStream ==
  /\ pc = "read_line"
  /\ line_no > Len(lines)
  /\ stream' = [stream EXCEPT !.raw_len = Len(raw), !.raw_sha256 = Sha256(raw)]
  /\ pc' = "identity"
  /\ UNCHANGED <<raw, lines, line_no, index, expected_start, error>>

\* validate compares the length before it looks at the digest.
CheckIdentity ==
  /\ pc = "identity"
  /\ CASE stream.raw_len # Len(raw)           -> Fail("raw_len")
       [] stream.raw_len = Len(raw)
          /\ stream.raw_sha256 # Sha256(raw)  -> Fail("raw_sha256")
       [] OTHER                               -> pc' = "tokens" /\ UNCHANGED error
  /\ UNCHANGED <<raw, lines, stream, line_no, index, expected_start>>

\* Mutated: an empty token is accepted.
TokenErrorEmptyAllowed(t) ==
  IF t.byte_start < expected_start THEN "overlap"
  ELSE IF t.byte_start > expected_start THEN "gap"
  ELSE IF t.byte_end < t.byte_start THEN "reversed"
  ELSE IF t.byte_end > Len(raw) THEN "beyond"
  ELSE IF t.bytes # Slice(raw, t.byte_start, t.byte_end) THEN "bytes"
  ELSE "none"

\* Mutated: the bytes of a token are not compared.
TokenErrorSpansOnly(t) ==
  IF t.byte_start < expected_start THEN "overlap"
  ELSE IF t.byte_start > expected_start THEN "gap"
  ELSE IF t.byte_end < t.byte_start THEN "reversed"
  ELSE IF t.byte_end = t.byte_start THEN "empty"
  ELSE IF t.byte_end > Len(raw) THEN "beyond"
  ELSE "none"

\* The first of the loop's checks that the token fails; the byte comparison
\* comes last, when the span is known to lie inside the raw bytes.
TokenError(t) ==
  IF t.byte_start < expected_start THEN "overlap"
  ELSE IF t.byte_start > expected_start THEN "gap"
  ELSE IF t.byte_end < t.byte_start THEN "reversed"
  ELSE IF t.byte_end = t.byte_start THEN "empty"
  ELSE IF t.byte_end > Len(raw) THEN "beyond"
  ELSE IF t.bytes # Slice(raw, t.byte_start, t.byte_end) THEN "bytes"
  ELSE "none"

CheckToken ==
  /\ pc = "tokens"
  /\ index <= Len(stream.tokens)
  /\ LET t == stream.tokens[index]
     IN  \/ /\ TokenError(t) = "none"
            /\ expected_start' = t.byte_end
            /\ index' = index + 1
            /\ UNCHANGED <<pc, error>>
         \/ /\ TokenError(t) # "none"
            /\ Fail(TokenError(t))
            /\ UNCHANGED <<expected_start, index>>
  /\ UNCHANGED <<raw, lines, stream, line_no>>

CheckEnd ==
  /\ pc = "tokens"
  /\ index > Len(stream.tokens)
  /\ IF expected_start # Len(raw) THEN Fail("trailing_gap")
     ELSE pc' = "reconstruct" /\ UNCHANGED error
  /\ UNCHANGED <<raw, lines, stream, line_no, index, expected_start>>

CheckReconstruction ==
  /\ pc = "reconstruct"
  /\ IF Reconstruct(stream.tokens) # raw THEN Fail("reconstruction")
     ELSE pc' = "valid" /\ UNCHANGED error
  /\ UNCHANGED <<raw, lines, stream, line_no, index, expected_start>>

Next == \/ ReadLine \/ BuildStream \/ CheckIdentity \/ CheckToken \/ CheckEnd
        \/ CheckReconstruction

Terminated == pc \in {"valid", "failed"} /\ UNCHANGED vars

Spec == Init /\ [][Next \/ Terminated]_vars
-----------------------------------------------------------------------------
TypeOK ==
  /\ raw \in Bytes
  /\ pc \in {"read_line", "identity", "tokens", "reconstruct", "valid", "failed"}
  /\ lines \in Seq(Line)
  /\ stream \in TokenizerStream
  /\ line_no \in 1..(Len(lines) + 1)
  /\ index \in 1..(Len(stream.tokens) + 1)
  /\ expected_start \in 0..Len(raw)
  /\ (error = "none") = (pc # "failed")

\* A stream that validate accepts is fit to be aligned, whatever was presented.
AcceptsOnlyWellFormed == pc = "valid" => WellFormed(stream, raw)

\* The tokens of the records among the first lines of a file, in order.
RecordsUpTo(some_lines) ==
  LET upTo[k \in 0..Len(some_lines)] ==
        IF k = 0 THEN <<>>
        ELSE IF some_lines[k][1] = "record" THEN Append(upTo[k - 1], some_lines[k][2])
        ELSE upTo[k - 1]
  IN  upTo

\* The verdict is that of what was presented, a file's records or a stream's
\* tokens: they are turned down only for a bad line or for being no partition of
\* the raw bytes, and accepted only as they are, all of them, in order.
VerdictIsOfTheFile ==
  LET presented == IF lines = <<>> THEN stream.tokens ELSE RecordsUpTo(lines)[Len(lines)]
      badLine   == \E i \in 1..Len(lines) : lines[i][1] \in BadLine
  IN  /\ pc = "failed" /\ error \notin BadLine =>
           ~badLine /\ ~WellFormed([stream EXCEPT !.tokens = presented], raw)
      /\ pc = "valid" => ~badLine /\ stream.tokens = presented
      /\ error \in BadLine =>
           /\ lines[line_no - 1][1] = error
           /\ \A i \in 1..(line_no - 2) : lines[i][1] \notin BadLine

\* The reported token is the first faulty one: those before it cut the raw
\* bytes up to expected_start exactly, so a caller may trust that prefix.
DiagnosisNamesFirstFault ==
  pc = "failed" /\ error \in {"overlap", "gap", "reversed", "empty", "beyond", "bytes"} =>
    LET before == SubSeq(stream.tokens, 1, index - 1)
        sound  == Slice(raw, 0, expected_start)
    IN  /\ WellFormed([stream EXCEPT !.tokens = before, !.raw_len = expected_start,
                                     !.raw_sha256 = Sha256(sound)], sound)
        /\ \A n \in expected_start..Len(raw) :
             ~WellFormed([stream EXCEPT !.tokens = SubSeq(@, 1, index), !.raw_len = n,
                                        !.raw_sha256 = Sha256(Slice(raw, 0, n))],
                         Slice(raw, 0, n))
=============================================================================
