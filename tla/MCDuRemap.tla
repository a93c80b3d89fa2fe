------------------------------ MODULE MCDuRemap ------------------------------
(***************************************************************************)
(* DuRemap on runs of up to two files of up to three IDs, against raw      *)
(* inputs that they do and do not translate to.  Reads return two or four  *)
(* bytes, so a file of three IDs takes several and an odd one ends in one. *)
(***************************************************************************)
EXTENDS DuRemap

DuVocab == << <<1>>, <<1, 2>>, <<>> >>
Target  == << <<2>>, <<1>>, <<1, 1>> >>

\* Local ID 2 is in no gmap; global ID 3 is not in the dictionary.
Files ==
  [gmap : {<<0, 1>>, <<1, 2>>}, local_ids : {<<>>, <<0>>, <<0, 1>>, <<1, 0, 0>>},
   odd : BOOLEAN] \cup
  [gmap : {<<0, 3>>}, local_ids : {<<0, 1>>, <<0, 2>>}, odd : {FALSE}]

MCCases ==
  [du_vocab : {DuVocab}, tokens : {Target}, files : SeqOf(Files, 2),
   raw : {NoRaw, <<1, 1, 2>>, <<1, 2, 1>>}, chunk : {0, 1, 2}] \cup
  [du_vocab : {<< <<1, 1, 3>> >>}, tokens : {Target}, files : {<<>>}, raw : {NoRaw}, chunk : {1}]
=============================================================================
