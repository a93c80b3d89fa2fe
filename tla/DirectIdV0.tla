----------------------------- MODULE DirectIdV0 -----------------------------
(***************************************************************************)
(* nereids-direct-id-fixture: the V0 correctness fixture.  It tokenizes    *)
(* the fixture and the bytes restored from DU, decodes both ID lists, and  *)
(* writes a receipt whether they agree or not; its exit code is the        *)
(* verdict.  A decoding that cannot be had is recorded, not an error.      *)
(* The server's answers reach it as replies (WireReply), which may be cut  *)
(* short by a connection that closes.                                      *)
(***************************************************************************)
EXTENDS DirectId, FiniteSetsExt

CONSTANTS Fixtures,  \* [fixture, restored, server]: what a run is given
          Wide       \* the bytes of characters a server may escape in two halves

ASSUME FixturesAssumption ==
  Fixtures \subseteq [fixture : Bytes, restored : Bytes, server : Servers]

VARIABLES fixture, restored, native_server,
          stage,
          native_ids, nereids_ids,        \* their tokenizations
          native_decode, nereids_decode,  \* whether these decode to the fixture
          v0_receipt,                     \* the receipt file
          exit_code

given == <<fixture, restored, native_server>>
tokens == <<native_ids, nereids_ids>>
decodes == <<native_decode, nereids_decode>>
fixtureVars == <<given, stage, tokens, decodes, v0_receipt, exit_code>>

Wire == INSTANCE WireReply WITH LargestId <- MaxId

Running == 3  \* no exit code yet

FixtureInit ==
  /\ \E i \in Fixtures :
       fixture = i.fixture /\ restored = i.restored /\ native_server = i.server
  /\ stage = "tokenize_native"
  /\ native_ids = <<>> /\ nereids_ids = <<>>
  /\ native_decode = "unavailable" /\ nereids_decode = "unavailable"
  /\ v0_receipt \in FoundReceipts
  /\ exit_code = Running

Exit(code) == stage' = "exited" /\ exit_code' = code

\* The ID lists that may be read from a reply to a text, of whatever length; the
\* IDs a server lists may be too large.
ReadIds(bytes) ==
  UNION {Wire!ParseTokens(reply) :
           reply \in UNION {Wire!Arrivals(Wire!TokenReplies(ids)) :
                              ids \in Tokenized(native_server, bytes) \cap Seq(Nat)}}

\* Both given are checked to be text before the first call.
TokenizeNative ==
  /\ stage = "tokenize_native"
  /\ IsText(fixture) /\ IsText(restored)
  /\ native_ids' \in ReadIds(fixture)
  /\ stage' = "tokenize_nereids"
  /\ UNCHANGED <<given, nereids_ids, decodes, v0_receipt, exit_code>>

TokenizeNereids ==
  /\ stage = "tokenize_nereids"
  /\ nereids_ids' \in ReadIds(restored)
  /\ stage' = "hash_ids"
  /\ UNCHANGED <<given, native_ids, decodes, v0_receipt, exit_code>>

\* The ID lists are hashed by sha256sum, through a temporary file.
HashIds ==
  /\ stage = "hash_ids"
  /\ stage' = "decode_native"
  /\ UNCHANGED <<given, tokens, decodes, v0_receipt, exit_code>>

\* Either tokenization and the hashing may fail: an error of the run.
CallOrHashFails ==
  /\ stage \in {"tokenize_native", "tokenize_nereids", "hash_ids"}
  /\ Exit(1)
  /\ UNCHANGED <<given, tokens, decodes, v0_receipt>>

\* A failed call or an answer without a string leaves the decoding unknown.
Decoded(ids) ==
  LET replies == UNION {Wire!Arrivals(Wire!ContentReplies(bytes, Wide)) :
                          bytes \in Detokenize(native_server, ids)}
  IN  {"unavailable"} \cup
      {IF bytes = fixture THEN "exact" ELSE "different" :
         bytes \in UNION {Wire!ParseContent(reply) : reply \in replies}}

DecodeNative ==
  /\ stage = "decode_native"
  /\ native_decode' \in Decoded(native_ids)
  /\ stage' = "decode_nereids"
  /\ UNCHANGED <<given, tokens, nereids_decode, v0_receipt, exit_code>>

DecodeNereids ==
  /\ stage = "decode_nereids"
  /\ nereids_decode' \in Decoded(nereids_ids)
  /\ stage' = "write_receipt"
  /\ UNCHANGED <<given, tokens, native_decode, v0_receipt, exit_code>>

\* Mutated: only the common part of the lists is compared.
FirstDivergenceInCommon(a, b) ==
  LET differ == {i \in 1..Min({Len(a), Len(b)}) : a[i] # b[i]}
  IN  IF differ = {} THEN 0 ELSE Min(differ)

\* The least index at which two ID lists differ, the shorter one padded with
\* null; 0 stands for None.
FirstDivergence(a, b) ==
  LET at(list, i) == IF i <= Len(list) THEN {list[i]} ELSE {}
      differ == {i \in 1..Max({Len(a), Len(b)}) : at(a, i) # at(b, i)}
  IN  IF differ = {} THEN 0 ELSE Min(differ)

RestoreExact == fixture = restored
IdsExact == native_ids = nereids_ids

\* The receipt is written before the verdict is taken.
WriteV0Receipt ==
  /\ stage = "write_receipt"
  /\ \/ /\ v0_receipt' =
             [file                 |-> "complete",
              du_restore_exact     |-> RestoreExact,
              ids_exact            |-> IdsExact,
              first_divergence     |-> FirstDivergence(native_ids, nereids_ids),
              native_decode        |-> native_decode,
              nereids_decode       |-> nereids_decode,
              detokenize_available |-> \/ native_decode # "unavailable"
                                       \/ nereids_decode # "unavailable"]
        /\ stage' = "verdict"
        /\ UNCHANGED exit_code
     \/ /\ v0_receipt' \in {v0_receipt, TruncatedReceipt}
        /\ Exit(1)
  /\ UNCHANGED <<given, tokens, decodes>>

Verdict ==
  /\ stage = "verdict"
  /\ Exit(IF RestoreExact /\ IdsExact THEN 0 ELSE 2)
  /\ UNCHANGED <<given, tokens, decodes, v0_receipt>>

FixtureNext == \/ TokenizeNative \/ TokenizeNereids \/ HashIds \/ CallOrHashFails
               \/ DecodeNative \/ DecodeNereids \/ WriteV0Receipt \/ Verdict

FixtureEnded == stage = "exited" /\ UNCHANGED fixtureVars

FixtureSpec == FixtureInit /\ [][FixtureNext \/ FixtureEnded]_fixtureVars
-----------------------------------------------------------------------------
\* The exit code and the receipt tell the same story: a verdict (0 or 2) leaves
\* a complete receipt and an error (1) none, and 0 is the verdict exactly when
\* the receipt says that the bytes were restored and the IDs equal, which they
\* are exactly when the receipt names no divergence.
VerdictMatchesReceipt ==
  stage = "exited" =>
    /\ (exit_code = 1) = (v0_receipt.file # "complete")
    /\ exit_code # 1 =>
         /\ v0_receipt.ids_exact = (v0_receipt.first_divergence = 0)
         /\ (exit_code = 0) = (v0_receipt.du_restore_exact /\ v0_receipt.ids_exact)

\* Whatever is recorded is an answer of the server, whole: a reply that was cut
\* off, or one the fixture cannot read, is an error or an unknown decoding and
\* never another list, another text, or a shorter one.
RecordsOwnAnswers ==
  LET answered(ids, decode) ==
        /\ decode = "exact" => fixture \in Detokenize(native_server, ids)
        /\ decode = "different" => Detokenize(native_server, ids) \ {fixture} # {}
  IN  /\ stage \notin {"tokenize_native", "exited"} =>
           native_ids \in Tokenize(native_server, fixture)
      /\ stage \notin {"tokenize_native", "tokenize_nereids", "exited"} =>
           nereids_ids \in Tokenize(native_server, restored)
      /\ answered(native_ids, native_decode) /\ answered(nereids_ids, nereids_decode)

\* "Pass iff [...] decode(native_ids) == fixture bytes, if /detokenize is
\* available", and the same of nereids_ids: no decoding that was had differs.
PassRequiresDecoding ==
  exit_code = 0 => v0_receipt.native_decode # "different" /\ v0_receipt.nereids_decode # "different"
=============================================================================
