# A verification model of nereids

TLA+ modules for the parts of this repository whose correctness depends on
order, boundaries and failure: the token streams and their alignment
(`src/bridge.rs`), the Direct-ID repair of native token IDs (`src/direct_id.rs`
and its three fixtures under `src/bin/`), the files of DU runs, the streams
loaded from them and the span ledger (`src/lib.rs`), the DU-to-target remapping
(`src/du_remap.rs`), the two benchmarks and the files that the commands of
`src/main.rs` leave.  TLC checks each module on small instances; TLAPS proves
the central results of most of them for all values of the constants.

## 1. The system

Nereids describes one raw byte sequence by several token streams (a source
tokenizer's, the DU lexemes', a target tokenizer's) and asks how their
boundaries relate, and whether a native tokenizer's IDs can be carried across
an edit of the text without tokenizing all of it again.

| Component | State it keeps | Operations | Talks to |
|---|---|---|---|
| Token streams (`bridge.rs` 12-370) | `raw_len`, `raw_sha256`, tokens with spans and bytes | `import_jsonl`, `new`, `from_native_records`, `unchecked`, `validate`, `reconstruct` | files; used by everything below |
| Span alignment (`bridge.rs` 372-562) | two cursors into the right stream, the records so far | `align_token_spans` | validated streams |
| Bridge (`bridge.rs` 564-650) | nothing between calls | `bridge_tokenizer_streams`: validate 3, align 3, count | validation and alignment |
| Direct-ID V0 fixture (`bin/nereids-direct-id-fixture.rs`) | ID lists, two decodings, the receipt file | tokenize, decode, hash, write, verdict | HTTP server, `sha256sum`, file system |
| Direct-ID V1 append repair (`direct_id.rs` 150-300, `bin/nereids-direct-id-repair-fixture.rs`) | snapshot IDs, trials, receipt file | `search_exact_repair`, `construct_repair_candidate`, verification | HTTP server (through callbacks), file system |
| Direct-ID V2 DU-aware repair (`direct_id.rs` 330-790, `bin/nereids-direct-id-du-aware-fixture.rs`) | snapshot of IDs, spans, prefix hash and DU state; trials; receipt file | validation, fixed-drop construction, oracle search, verification | DU streams, span file, HTTP server |
| Native tokenizer server (external) | its model | `/tokenize`, `/detokenize` | called by the fixtures |
| Loaded DU and target streams (`lib.rs` 75-575) | dictionary or `model.bin` vocabulary; ids, parts, bounds | `decode_du_lexeme`, `load_du_dict`, `load_model_bin`, the readers of u16, u32 and gmap files, `load_du_stream`, `load_target_stream`, range reconstruction, boundary search | files; used by V2 and the ledger |
| Span ledger (`lib.rs` 577-695) | counters and samples of one report | `span_ledger_report` | two loaded streams and the raw bytes |
| DU remapping (`du_remap.rs`) | byte trie, packed map, hashes and counters of a translation | `GreedyTrie`, `PrecomputedDuTargetMap::build`, `translate_du_run` | DU run files, output writer |
| Command line (`main.rs`) | receipts named by second, `report.json` | `smoke`, `lexeme-decode`, `span-ledger`, `bridge-jsonl` | the library; other runs through a directory they share |
| Benchmarks (`bin/nereids-bench.rs`, `bin/nereids-target-greedy-bench.rs`) | the result of the last repetition, the ID file, the receipt file | align in both directions; project, verify, write | the library, file system |
| Python tools and prototypes (`tools`, `legacy`) | files | fixture generation, earlier versions | the command line |

What is hard here is seldom concurrency: every program is one thread, and only
the receipt directory is shared between runs.  It is
(a) cursors that are carried over thousands of tokens and never reset, (b) half
open ranges, streams cut off at a limit, empty tokens and the end of the input,
(c) checks that depend on earlier checks, (d) data that comes from two sources
and must agree (oracle and candidate, spans and IDs, DU state and prefix), (e) a
server that may fail, or be another one, at every call, (f) receipts that
survive the run and must not claim more than was verified, and (g) files and
replies that may be cut off anywhere and must not be read as something shorter.

What makes each component correct:

- *Token streams*: what `validate` accepts is an ordered partition of the raw
  bytes that carries them; what it turns down is not; the fault it names is the
  first one; an import takes over all records of the file or none.
- *Alignment*: each left token is related to exactly the right tokens that share
  a byte with it, with the right boundary flags, whatever came before it.
- *Bridge*: it reports only when all three streams are exact, and its three
  tables count the same overlaps.
- *Direct-ID repair*: the window put to the tokenizer is a proper suffix of the
  text and is text; the drop chosen is the first exact one; nothing passes and
  no complete receipt is left without verification against oracle and bytes; a
  fixed-drop candidate does not depend on the oracle.
- *Loaded streams, ledger*: loading stops at the token that reaches the limit;
  every byte range is answered exactly; the cut-off does not change what the
  ledger says of the tokens it tests; a dictionary line or a `model.bin` that is
  not wholly what it should be is turned down.
- *Remapping*: every expansion is the greedy one and decodes to its lexeme; the
  translation of a run that fails midway is a prefix of the whole; a run passes
  only when what it wrote decodes to the raw input it was given.
- *Benchmarks, commands*: a complete receipt is of the whole result and of the
  files beside it; a finished run's files stay whole unless another run of the
  same command shares their name.

## 2. Modules

| Module | Models | Correspondence |
|---|---|---|
| `Spans` | span arithmetic of `bridge.rs` | `Partition`, `WellFormed`, `CoveredBy` and `Record` are the reference definitions; a hash is an injective function of the bytes |
| `TokenStream` | `import_jsonl`, `new`, `unchecked`, `validate` | one action per line read and per token checked; `TokenError` lists the checks of the loop in the code's order |
| `SpanAlignment` | the promise of `align_token_spans` | one action per left token, no cursors |
| `AlignTokenSpans` | `align_token_spans` | `right_start`, `right_end` and one action per iteration of either `while` loop and per record pushed; indices count from 1 |
| `TokenizerBridge` | `bridge_tokenizer_streams` | composes the promises of the two above: three validations, three alignments, the report |
| `DirectId` | what the fixtures share | the server by the answers it may give, what makes one faithful and what a splice of its pieces is, the trial record, the receipt file (absent, truncated, complete) |
| `NativeServer` | the native tokenizer server (external) | two small greedy vocabularies; one cuts a two-byte character, both have joining pieces; undecodable bytes come back as the replacement character |
| `VerifiedRepair` | the promise of a Direct-ID fixture | passes, with a complete receipt, only for a verified candidate |
| `DirectIdV1` | `search_exact_repair`, `construct_repair_candidate` and `run` of the V1 fixture | one action per server call, per drop and per write |
| `DirectIdV2` | snapshot validation, both construction modes and `run` of the V2 fixture | `Preflight` loads and checks the files in the code's order; `Validate` is the second validation, against the snapshot's own DU state |
| `DirectIdV0` | `run` of the V0 fixture | from the two files to the exit code; answers arrive as replies, whole or cut short |
| `WireReply` | the hand-written reply parsers of the V0 fixture | a reply is a list of symbols; the searches for keys, brackets, colons and quotes are the code's; the encodings of a server are external |
| `ByteBounds` | `make_loaded_stream`, `upper_bound`, `lower_bound` | running totals, and the binary searches as the bisections they are, over pairs of places |
| `DuLexeme` | `decode_du_lexeme`, `decode_base64_unpadded_or_padded`, the lines of `load_du_dict` | texts are sequences of code points; `LexemeDenotes` and `Base64Denotes` are reference definitions that do not scan |
| `BinaryFiles` | `load_model_bin`, `read_fixed_u16`, `read_fixed_u32`, `load_gmap` | files are byte sequences; `Export`, `Written` and `Word` are their writers |
| `LoadedStream` | `load_du_dict`, `load_du_stream`, `load_target_stream`, `validate_structure`, `reconstruct_range`, `from_loaded_stream` | from the bytes of the files on; one action per dictionary line, per file, per ID loaded and per part copied |
| `SpanLedger` | `target_du_span`, `span_ledger_report` | one action per target token placed; loading at the promise of `LoadedStream` |
| `ReportFiles` | `write_receipt` of `main.rs` and the files of the commands | several runs and a clock; opening a file truncates it, blocks are written one after the other |
| `LedgerCommand` | the `span-ledger` command | composes the two above |
| `TargetVocab` | `TargetVocab` by its promise | the reference greedy segmentation: longest token, lowest ID |
| `DuTargetMap` | `GreedyTrie`, `PrecomputedDuTargetMap::build`, `lookup` | the trie by the set of its paths; one action per token inserted, per match and per lexeme packed |
| `GreedyProjection` | `nereids-target-greedy-bench` | extends `DuTargetMap`; one action per match, per pass and per step of writing either file |
| `SpanBench` | `nereids-bench` | extends `TokenizerBridge`; one action per import, per round and per step of writing the receipt |
| `DuRemap` | `translate_du_run` driven by `nereids-du-remap-bench` | one action per local ID read and per target ID written, through a read buffer |

`MC*` modules give the constants their small values.  `*_proofs` modules hold
theorems: `Bridge_proofs` those of `AlignTokenSpans` and `SpanBench`,
`DirectId_proofs` those of `DirectIdV0` and `DirectIdV1`, `Streams_proofs` those
of `LoadedStream` and `LedgerCommand`, and the others those of the module they
are named for.  `SpanLemmas` has the facts about spans, joined sequences and
bounds that they share.  Two components that one module proves about name their
parts apart: `SweepSpec`, `LoadSpec`, `FixtureSpec`, `CommandSpec` are the
specifications of `AlignTokenSpans`, `LoadedStream`, `DirectIdV0` and
`LedgerCommand`, and `SweepNext`, `LoadNext` and so on their steps.  Operators whose comment begins with
"Mutated" are plausible bugs: put in place of the definition that follows them
they break the property named for them in `PROJECT.json`, under the run's own
configuration.

Abstractions that hold everywhere: names, timings, error texts, ratios and the
layout of JSON are left out; a byte is a small number; SHA-256 is injective
(`Sha256(bytes) == bytes`), so equal digests mean equal bytes.

The composition follows the calls.  `TokenStream` shows that a validated stream
is a partition; that is what `AlignTokenSpans` assumes of its input, and both
promises together are what `TokenizerBridge` composes (that the promise is what
the sweep returns is a theorem, `SweepGivesAlignment`).  `LoadedStream` shows
what loading returns; `SpanLedger` starts from it, `LedgerCommand` goes on to
the files it leaves, and `BridgesUnlessEmpty` ties it to `TokenStream`.
`DuTargetMap` shows what the packed map holds; `DuRemap` and `GreedyProjection`
start from it.  `DirectIdV1` and `DirectIdV2` both implement `VerifiedRepair`.

## 3. Runs

| Run | States | Shows |
|---|---|---|
| `align_sweep` | 17,554 | the two cursors return the abstract alignment (`Refines`), neighbours share exactly a cut token (`RecordsMeet`), the sweep ends |
| `token_stream` | 23,279 | validation accepts exactly the well-formed streams and names the first fault; the verdict is that of the records of the file, all of them (`VerdictIsOfTheFile`) |
| `bridge` | 72,030 | only exact streams are reported, the tables of a bridge and of a benchmark balance (`TablesBalance`), and going through the DU loses no target token (`ThroughDu`) |
| `v1_repair` | 303,554 | first exact drop with a faithful server; verification, proper windows, an accountable receipt and termination with any server, also where an older receipt lies |
| `v2_repair` | 348,126 | as above from stored spans and DU streams, intact or damaged; the oracle does not touch a fixed-drop candidate; the second validation never fails; every run ends |
| `v2_search_aborts` | violation | see section 6 |
| `v0_verdict` | 108,845 | exit code and receipt never contradict each other; what is recorded is a whole answer of the server, though replies may be cut off (`RecordsOwnAnswers`) |
| `v0_decode_not_gated` | violation | see section 6 |
| `loaded_stream` | 186,236 | dictionaries and `model.bin` are what they say or are turned down (`VocabAsWritten`); the shortest prefix that reaches the limit; exact ranges, empty lexemes included; which loaded streams the bridge accepts |
| `span_ledger` | 333,516 | the ledger of cut-off streams has the counts of the whole ones, of the starts and ends inside a DU token too; samples are the first cuts and their slices are in range; the files of a finished run survive the others (`ReportsSurvive`) |
| `du_target_map` | 159,647 | every expansion is greedy, and a build fails only where no token matches; a projection's receipt names the IDs in the file beside it (`ReceiptNamesIds`) |
| `du_remap` | 170,037 | the two hashes keep pace, the output is always a prefix of the translation, a pass means the raw input, every run ends |

Bounds and why they are enough:

- `align_sweep`, `bridge`: all partitions of 0 to 5 bytes.  Two cursors
  interact through three consecutive tokens of either stream at most (one that
  ends inside, one that is covered, one that begins inside), which fit in five
  bytes in every arrangement; larger streams are covered by the proof.  The
  benchmark is followed for every pair of them, with 0 or 1 warm-up and 0, 1 or
  2 repetitions: what it keeps depends only on which round is the last.
- `token_stream`: raw inputs of 0 to 3 bytes, up to two presented tokens from
  all right and wrong spans, plus full partitions with one token left out; JSONL
  files of up to four lines of every kind.  The loop carries only
  `expected_start` from one token to the next.
- `v1_repair`: prefixes of up to 4 bytes, deltas of up to 2, inclusive drop
  limits 0, 1 and 4 (none, some, more than there are tokens) with a faithful
  server; prefixes of up to 3 bytes and limit 4 with one that changes its model
  between calls.  Tokens of one to three bytes, joining across the append
  position and cutting a character, occur.
- `v2_repair`: the same with deltas of up to 1, fixed drops 0, 1 and 4, span
  files that are the model's, one token per byte, too long, with a hole, empty,
  with wrong bytes or too large an ID, and DU streams with an extra byte.
- `v0_verdict`: files of up to 3 bytes; replies with the answer under either
  key, escaped or not, and every prefix of them.
- `loaded_stream`: up to two files of up to two local IDs, torn files, IDs
  outside gmap and vocabulary, global IDs of more than one byte, 24- and 32-bit
  gmaps or both or neither, an empty lexeme, limits 0, 1, 2, 3 and one beyond the
  run, ranges over 0..5, and structures with each field wrong in turn.  A
  directory entry that cannot be read is passed over (`sorted_files`): such a run
  is one of those with fewer files.
  Dictionaries of up to two of 43 units: every mark alone and paired, base64
  sections with each kind of ending, padding and error, characters of one to four
  bytes and what only looks like one, line feeds and carriage returns; the scan carries only its position from one unit to the next, so two
  neighbours are what can go wrong.  `model.bin`: the exports of vocabularies of
  up to two tokens, all their prefixes, a byte too many, another count.
- `span_ledger`: up to three lexemes of 0 to 3 bytes on either side, limits 0, 3
  and 9, a cap of one sample (80 in the code) so that it is reached.  For one
  pair of streams two further runs share the directory, one of the same command
  and one of another, with a clock of two values that may go back, reports of
  one and two blocks, and an end at every step.
- `du_target_map`: vocabularies of up to three tokens in every order, repeated,
  empty and overlapping; dictionaries of up to two lexemes; projections of up to
  four bytes with limits, 0 or 1 warm-up, 0 to 3 repetitions, with and without an
  ID file, over files of an earlier run or none.
- `du_remap`: up to two files of up to three IDs, bad local and global IDs, odd
  files, chunk limits 0, 1 and 2, with and without a raw input.  A read returns
  two or four bytes: regular files fill the 8 KiB buffer, so reads but the last
  are even.  A file system that returned an odd number of bytes in the middle of
  an even file would be reported as an odd-sized stream; that case is excluded.

Deadlock is checked in every run; a terminated run stutters (`Terminated`), so
TLC also shows that no run stops anywhere else.

Fairness.  Every program is a single thread with no waiting on another part of
itself, so a step that can be taken is taken: `WF_vars(Next)`.  For the fixtures
this also says that a call to the server ends, with an answer or an error.  The
code sets no read timeout, so a server that accepts a connection and never
answers would block a run for good; `Terminates` says nothing of that server.
Liveness is stated where a loop could fail to advance (`AlignTokenSpans`,
`DirectIdV1`, `DirectIdV2`, `DuRemap`); the other specifications are safety only.
In `LedgerCommand` the runs that share a directory interleave freely and may stop
at any step; nothing is assumed of their scheduling.

## 4. Proofs

Every invariant proved here holds of every instance: streams, files, limits and
texts of any length, any number of runs, and any server.  The assumptions are
those the modules name, and TLC evaluates them on each run; the one theorem with
a further hypothesis is marked.

`Bridge_proofs`, of `align_token_spans` (for all streams of any length that are
partitions, `StreamsAssumption`; this is what `TokenStream` promises):

- `TypeCorrect`, `SweepExact` (`RecordsExact`), `NeighboursMeet`
  (`RecordsMeet`), `SweepCovers`, `CursorsNeverRetreat` (an action property) and
  `SweepRefines` (every step of the sweep is a step of `SpanAlignment` or
  stutters).
- The postcondition is not inductive: a record can be right only if the cursors
  stand right when it is made.  The invariant adds `BehindCursors` (every token
  behind `right_start` ends before the current left token, every token behind
  `right_end` starts before its end) and `StartIsSettled` (once the first loop
  is left its exit condition holds while the second runs).  `BehindCursors`
  survives the step to the next left token because that token starts where this
  one ends, which is why cursors need never be reset.
- `SweepGivesAlignment`: what `TokenizerBridge` and `SpanBench` take an alignment
  to be (`Alignment`, by its promise) is what the sweep returns of any two
  well-formed streams of the same bytes.

`Bridge_proofs`, of the bridge and of the benchmark (for all raw inputs and
triples of streams):

- `OnlyExactReported` (`ReportsOnlyExact`), `NothingLostThroughDu` (`ThroughDu`)
  and `TablesAlwaysBalance` (`TablesBalance`), of the bridge and of the benchmark.
- `BenchInv` says which streams are validated at each point of the program and
  that a kept alignment is the one promised for the streams it is of.  That the
  tables balance is then a fact about two partitions of the same bytes: they
  share as many pairs of tokens as there are boundaries in either
  (`OverlapCount`), each pair being counted at the byte where it begins.

`TokenStream_proofs` (for all inputs of the right types, `InputsAssumption`):

- `TypeCorrect` and `ValidMeansWellFormed` (`AcceptsOnlyWellFormed`).  The
  invariant `Checked` says of the tokens before `index` what `WellFormed` says of
  all; it carries their pairwise order, which the code never compares and which
  follows one token at a time from `expected_start`.
- `VerdictOfEveryFile` (`VerdictIsOfTheFile`).  `FileRead` says that the tokens
  taken over are the records of the lines read; `Found` says what each verdict
  means.  That a stream turned down is no partition of its bytes needs, besides
  the fault itself, that the tokens before it leave no other choice
  (`NextFits`: what is well-formed so far can go on in one way only).
- `FaultNamedIsTheFirst` (`DiagnosisNamesFirstFault`).

`DirectId_proofs`, of V1 (for all prefixes, deltas, drop limits and servers;
`InputsAssumption` says that text after a text prefix is text, as UTF-8 has it,
`MaxIdAssumption` that IDs are bounded):

- `TypeCorrect`, `WindowsAreProperText` (`WindowIsProperText`) and
  `RepairIsVerified` (`Refines`).  The invariant follows three facts from the
  call that establishes them to the step that relies on them: the whole input is
  text, the kept bytes are a nonempty text prefix of the snapshot, and the chosen
  candidate is the oracle.
- `ReceiptsAccountForDrops` (`ReceiptAccountsForDrops`).  `AccountsInv` adds that
  the trials so far are those of the drops before the current one, all inexact.
- `FirstExactDropIsSelected` (`SelectsFirstExactDrop`), of a server that is
  faithful.  What that means is an assumption, `FaithfulAssumption`: on the texts
  of a run such a server answers every call from one model, which stands for
  each ID by a piece (`Piece`), tokenizes a text into IDs whose pieces are the
  text, and decodes the first of these to their pieces when they are text.  That
  is what the documentation asks of a tokenizer; TLC evaluates it for the servers
  of the runs.  An exact drop (`ExactSplice`) is said of the pieces, without any
  call.  `SelectInv` says that no drop gone past is exact: the lengths of the kept
  pieces fix where the window begins, so what the calls compare is the splice
  (`TrialDecides`).

`DirectId_proofs`, of V0 (for all fixtures, servers, and places at which a reply
is cut off; `FixturesAssumption` types the inputs):

- `VerdictIsInReceipt` (`VerdictMatchesReceipt`) and `AnswersAreRecorded`
  (`RecordsOwnAnswers`).
- `FixtureInv` says of every stage which lists and decodings were asked for and
  are answers, that a decoding is unknown before its call, and that the receipt
  is an older one or none until it is complete.  An answer is read out of a reply
  by a search for marks.  In what a server sends only the marks of the value have
  their kinds (`PartsOfWhole`), so if the closing one is found, the opening one
  was, and what is between them is all of the value (`ValueIsWhole`): a reply cut
  off anywhere yields the list (`ListIsRead`) or the string (`StringIsRead`), or
  nothing.

`DirectIdV2_proofs` (for all span files, DU streams, drops and servers):

- `TypeCorrect`, `RevalidationNeverFails` (`ValidatedOnce`),
  `WindowsCompleteTheKeptTokens` (`WindowCompletesKeptTokens`), `FixedDropIsFinal`
  (`FixedDropIgnoresOracle`, an action property) and `RepairIsVerified`
  (`Refines`).
- The invariant keeps what the preflight found out of the files (`Loaded`: the
  snapshot is that of files in order) for every later step, and says that the
  boundary of the kept tokens is that of one of them (`KeptOK`).  That kept
  tokens and window together are the text follows from the spans being a
  partition that carries the prefix, which `Preflight` checked and `Validate`
  checks again.
- `FirstExactDropIsChosen` (`ChoosesFirstExactDrop`), of a faithful server and
  spans that are those of its own pieces (`OwnSpans`, part of the property): the
  window begins where the kept pieces end, so a trial is exact exactly if the
  splice of the pieces is.

`Streams_proofs`, of loading (for all files, dictionaries, limits and ranges
within `InputsAssumption`):

- `RangesAreExact` (`RangeExact`) and `LoadedStreamBridges`
  (`BridgesUnlessEmpty`).  `LoadInv` says that the parts so far are the lexemes of
  the IDs so far (`LoadingInv`), that a stream is built with the bounds of its
  parts, and that while a range is copied the bytes are those of the parts in
  front of `index`, as far as the range holds them (`CopyInv`): `FirstPart` finds
  the part that holds the start, however many empty ones are there too, so the
  length check behind the loop never fires.
- `ShortestPrefixLoaded` (`LoadsShortestPrefix`).  `PrefixInv` ties the IDs
  loaded to the words of the files in front of the current one and of this one up
  to `pos` (`FirstWords`, `Consumed`), and says that the limit was not reached by
  the last part but one (`Below`).  A word is read back as the number it was
  written for (`WordReadsBack`), whatever its width.  This is what
  `LoadUpTo`, from which the ledger starts, takes for granted.
- `VocabularyAsWritten` (`VocabAsWritten`), of texts of any length and of
  `model.bin` of any content.  With `LoadInv` the property is inductive; its
  steps rest on four lemmas that compare a reader with what it reads.
  `Base64IsInverse`: `DecodeBase64` finds the one byte string whose encoding the
  characters are, or none.  Bits of bytes and of values are read through a window
  of two neighbours, so the offsets within three bytes and four characters are
  all there are (`OctetBits`, `SextetBits`), and reading back gives the values
  exactly if the bits that no byte takes are zero (`SextetsAreValues`).
  `LexemeMeans`: the decoder finds all that the cuts of a line into units give,
  and it is one byte string at most.  A unit ends where the decoder ends it
  (`OnlyUnit`), so a cut that means something is the decoder's own
  (`CutsAreDecoded`, `DecodedIsCut`).  `LinesAreTexts`: the lines with their line
  feeds are the text again, up to a line feed at its end.  `ModelIsExport` and
  `ExportIsRead`: a content is read only as a vocabulary whose export it is, and
  the export of a vocabulary is read, provided that the count and the lengths fit
  their words (`Exportable`, a part of `InputsAssumption`).

`Streams_proofs`, of the `span-ledger` command (for all lexemes, raw inputs,
limits and sample caps within `CasesAssumption`, and any number of runs, blocks
and seconds):

- `FinishedReportsSurvive` (`ReportsSurvive`).  `FilesInv` follows a file from
  the step that truncates it: as long as no other run has taken its name it
  holds as many blocks of its writer as that has written, in order.
- `CutOffNeverSeen` (`CutOffUnseen`), `FirstCutsSampled` (`SamplesAreFirstCuts`)
  and `ExactClaimsHold` (`ExactMeansSame`).  What is loaded is the first lexemes
  of a run, all or enough to reach `max_bytes` (`LoadsFirst`), so the limit, the
  bytes up to it (`FirstDecodes`) and the place of a span that ends within it
  (`PlaceFacts`) are those of the whole run.  `PlaceFacts` rests on what the two
  bisections return on bounds that never decrease but may repeat
  (`UpperBoundIs`, `LowerBoundIs`).  `LedgerInv` says that counters and samples
  are those of the tokens placed so far.

`DuRemap_proofs` (for all vocabularies, files, chunk limits and read sizes
within `InputsAssumption`):

- `HashesAlwaysKeepPace` (`HashesKeepPace`) and `PassingMeansRaw`
  (`PassMeansRaw`).  The invariant says that the map holds only lexemes that
  their expansions decode to, that no ID is read beyond its file, and that no
  expansion is left half written.
- `OutputAlwaysInOrder`: what is written, with what is still to be written of the
  current expansion, is the translation of the IDs done, in file order
  (`Progress`); a failure leaves a prefix of the translation behind.
- `OutputAlwaysPrefix` (`OutputIsPrefix`) says also that a file refused as odd is
  odd.  It has the hypothesis `EvenReads`: every read returns whole IDs or the
  rest of the file, as reads of regular files into an 8 KiB buffer do.  Without
  it the claim is false of the code (section 3); `OutputAlwaysInOrder` does not
  need it.

`GreedyProjection_proofs` (for all vocabularies, dictionaries, texts, limits and
numbers of passes):

- `MapAlwaysGreedy` and `MapGreedyAmongProjections` (`MapIsGreedy`), of the build
  alone and of a process that may project instead.  The invariant says
  what the trie holds of the tokens inserted so far (`TrieOK`), that what is
  segmented is the beginning of the greedy segmentation and stands for the bytes
  passed (`Segmenting`), and that the packed array holds the expansions of the
  lexemes before the current one at their offsets (`PackOK`).
- `ReceiptAlwaysNamesIds` (`ReceiptNamesIds`): every pass gives the same IDs, the
  receipt is written last, and the ID file is whole before it.

Induction over data.  What a recursive function computes is proved in
`SpanLemmas` without an induction rule: a set of numbers with 0 and every
successor has all (`Induction`, from the least member of a nonempty set), and
the function is then shown to be one of the sequences that solve its recursion
(`ReconstructStepwise`, `TotalStepwise`, `FlattenStepwise`, `BisectionExists`;
`RecordsStepwise` in `TokenStream_proofs`; `LittleEndianStepwise`,
`Base64Stepwise`, `LexemeStepwise`, `DenotesStepwise`, `LinesStepwise` and
`ModelStepwise` in `Streams_proofs`, `IdsOfItems` in `DirectId_proofs`).  For that
reason no module uses a RECURSIVE operator.

Only model-checked:

- Liveness and everything that rests on ENABLED, which the prover does not
  handle: `Terminates` of `AlignTokenSpans`, `DirectIdV1`, `DirectIdV2`, `DuRemap`.
- The two disagreements of section 6 are counterexamples, not theorems.

## 5. Not modelled

- `main.rs` around the library: argument parsing, printing, and the work of
  `smoke`, `lexeme-decode` and `bridge-jsonl` before their receipts.  A report
  printed to a closed pipe ends the process after its files are written, which
  for the files is the same as `done`.
- HTTP: the status line and the separation of head and body.  A call yields a
  body, whole or (in V0) cut short, or fails.  A chunked reply, whose chunk
  lengths would lie between its symbols, is outside the model, and so is a reply
  of another shape than an object with the answer under one key.
- V1 and V2 parse replies with `serde_json`, which turns down what is cut off;
  they are modelled by the answer or the failure.
- Times, medians, rates and peak memory of the benchmarks.
- `load_model_bin` reserves room for the count in the first four bytes before it
  looks at the rest; a model has no memory to run out of.
- `tools`, `legacy`: fixture generation, inspection and earlier prototypes in
  Python, of which only the writer of `model.bin` is used, as the reference.

One hazard in `PROJECT.json` has no property: a server that accepts a connection
and never answers blocks a run, as no read timeout is set.

## 6. Where code and documentation disagree

- `v0_decode_not_gated`: `docs/tasks/direct-id-adapter-v0-fixture.md` (45-52)
  makes the two decodings a condition of a pass where `/detokenize` is
  available.  The verdict (`nereids-direct-id-fixture.rs` 568) looks at the
  restored bytes and the IDs only: a run exits 0 with a receipt that says that a
  decoding differs.
- `v2_search_aborts`: the search "uses the oracle to select the first exact drop
  depth" (`nereids-direct-id-du-aware-fixture.rs` 389-390).  A stored native
  token may end inside a character; the window is then no text, `tokenize`
  refuses it before it calls the server, and that error ends the search although
  a larger drop of the range is exact.  V1 asks the server to decode the kept
  IDs, records such a drop as rejected and goes on.

Further facts that the models show and that contradict no document.  A DU
dictionary with an empty lexeme loads and passes `validate_structure`, and the
bridge refuses the stream made of it (`BridgesUnlessEmpty`).  A translation
whose directory listing lost a file is consistent with itself: only the
comparison with `--raw` finds it (`PassMeansRaw` says so only for runs that have
a raw input).  A u16 file that is cut off between two IDs loads as a shorter one
(`LoadsShortestPrefix` speaks of the words that are there).  A base64 end marker
outside a section is a character like any other, and a dictionary line loses one
carriage return even if its lexeme ends with it (`VocabAsWritten` is stated
accordingly).  Two runs of one command that end in the same second leave one
receipt, which may be neither's (`ReportsSurvive` excepts them).  The benchmarks
hash their input files again after they were used, so the receipt names the files
as they are then.

## 7. What is left

- A bound on how long a call to the server may take, once the fixtures have one
  to model: with it the hazard that no property covers would have one.
