--------------------------- MODULE MCLoadedStream ---------------------------
(***************************************************************************)
(* LoadedStream on runs of up to two short files over a vocabulary with an *)
(* empty lexeme, with IDs outside their gmap and outside the vocabulary    *)
(* and files that end inside a word; on dictionaries put together from     *)
(* whole and broken units; on exports of small vocabularies, cut, extended *)
(* and with a wrong count; and on deserialized streams with a field wrong. *)
(***************************************************************************)
EXTENDS LoadedStream

CONSTANTS MaxBytes,  \* the values of max_bytes
          MaxUnits   \* the most units a dictionary is put together from

Vocab == << <<1>>, <<>>, <<2, 3>> >>

\* Dictionary text, the first of one lexeme a line: "A", "" and a tab and "B".
Dict == <<65, LF, LF, TabMark, 66, LF>>
Section64(encoded) == <<Base64Mark>> \o encoded \o <<Base64End>>

\* Marks and plain characters; spaces, of which 12 are too many, or not even a
\* number; base64 of "A", of "\x01a", "\xff" and of the two halves of a
\* character, the whole of it, with tail bits, and with wrong padding; of characters
\* of three and four bytes, of a surrogate, of characters in too many bytes, and of
\* one too large.
Units ==
  {<<char>> : char \in {NUL, TabMark, SpacesMark, NewlineMark, Base64Mark, Base64End, LF, CR,
                        51, 65, 233, 8364, 128512}} \cup
  {<<SpacesMark, 50, SpacesMark>>, <<SpacesMark, 49, 50, SpacesMark>>,
   <<SpacesMark, 65, SpacesMark>>, <<81, 81>>} \cup
  {Section64(encoded) :
     encoded \in {<<>>, <<81, 81>>, <<81, 81, 61>>, <<81, 81, 61, 61>>, <<81, 82>>, <<81, 61>>,
                  <<65, 87, 69>>, <<65, 87, 69, 61>>, <<65, 87, 70>>, <<65, 87, 69, 61, 61>>,
                  <<47, 119>>, <<119, 119>>, <<113, 81>>, <<119, 54, 107>>,
                  <<65, 87, 70, 105>>, <<65, 87, 70, 105, 81, 81>>, <<65, 61, 70, 105>>,
                  <<81, 81, 61, 61, 65, 87, 70, 105>>, <<61, 61, 61, 61>>, <<43, 35>>,
                  <<52, 111, 75, 115>>, <<55, 97, 67, 65>>, <<119, 89, 69>>, <<56, 74, 43, 89, 103, 65>>,
                  <<56, 73, 75, 67, 114, 65>>, <<57, 74, 67, 65, 103, 65>>}}

DictRuns ==
  {[NoRun EXCEPT !.vocab = FlattenSeq(units), !.gmaps = {24}] : units \in SeqOf(Units, MaxUnits)}

\* Local ID 2 is in no gmap; global ID 3 is not in the vocabulary, and global ID
\* 256 needs a second byte.  Of two gmap directories one may be out of date.
LocalFiles == {Written(ids, 2) : ids \in {<<>>, <<0>>, <<1>>, <<0, 1>>, <<1, 0>>, <<0, 2>>}} \cup
              {<<0, 0, 1>>, <<0, 1>>}
GmapFiles == {<<0, 2>>, <<1, 2>>, <<2, 3>>, <<256, 0>>}

DuFiles ==
  {[local |-> l, gmap24 |-> Written(g, 3), gmap32 |-> <<>>] : l \in LocalFiles, g \in GmapFiles}
Du32Files ==
  {[local |-> l, gmap24 |-> <<0>>, gmap32 |-> Written(g, 4)] : l \in LocalFiles, g \in GmapFiles}

DuRuns ==
  [kind : {"du"}, vocab : {Dict}, gmaps : {{24}}, files : SeqOf(DuFiles, 2), max_bytes : MaxBytes] \cup
  [kind : {"du"}, vocab : {Dict}, gmaps : {{}, {32}, {24, 32}}, files : SeqOf(Du32Files, 1),
   max_bytes : MaxBytes]

Target(model, ids, limit) ==
  [kind |-> "target", vocab |-> model, gmaps |-> {}, max_bytes |-> limit,
   files |-> <<[local |-> ids, gmap24 |-> <<>>, gmap32 |-> <<>>]>>]

TargetRuns ==
  {Target(Export(Vocab), ids, limit) :
     ids \in {Written(list, 4) : list \in SeqOf(0..3, 3)} \cup {<<0>>, <<0, 0, 0, 0, 1, 0>>},
     limit \in MaxBytes}

MCVocabs == SeqOf({<<>>, <<1>>, <<2, 3>>, <<0, 0, 0, 0>>}, 2) \cup {Vocab}

\* An export, a part of it, one with a byte too many, one whose count is not its.
ModelRuns ==
  {Target(model, <<>>, 0) :
     model \in UNION {{Slice(Export(v), 0, n) : n \in 0..Len(Export(v))} \cup
                      {Append(Export(v), 0), [Append(Export(v), 0) EXCEPT ![1] = 2]} : v \in MCVocabs}}

MCRuns == DictRuns \cup DuRuns \cup TargetRuns \cup ModelRuns

Sound == MakeLoadedStream(<<0, 1, 2>>, Vocab)

MCPresented ==
  {Sound, MakeLoadedStream(<<>>, <<>>), Unbuilt,
   [Sound EXCEPT !.ids = <<0, 1>>],
   [Sound EXCEPT !.parts = << <<1>>, <<>>, <<2>> >>],
   [Sound EXCEPT !.bounds = <<0, 1, 1>>],
   [Sound EXCEPT !.bounds = <<1, 1, 1, 3>>],
   [Sound EXCEPT !.bounds = <<0, 1, 2, 3>>]}
=============================================================================
