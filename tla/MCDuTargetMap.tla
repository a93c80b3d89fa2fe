---------------------------- MODULE MCDuTargetMap ----------------------------
(***************************************************************************)
(* DuTargetMap on target vocabularies of up to three tokens, with equal,   *)
(* empty and overlapping ones in every order, and on dictionaries of up to *)
(* two lexemes, of which some cannot be segmented, or not greedily; and    *)
(* GreedyProjection of short inputs onto the same vocabularies.            *)
(***************************************************************************)
EXTENDS GreedyProjection

Tokens  == {<<>>, <<1>>, <<2>>, <<1, 2>>, <<1, 1, 2>>, <<2, 1>>}
Lexemes == {<<>>, <<1>>, <<1, 1>>, <<1, 2, 1>>, <<1, 1, 2, 1>>, <<2, 1, 2>>}

MCCases == [du_vocab : SeqOf(Lexemes, 2), tokens : SeqOf(Tokens, 3)]

Job(raw, limit, warmups, repeats, output) ==
  [raw |-> raw, max_bytes |-> limit, warmups |-> warmups, repeats |-> repeats, id_output |-> output]

MCJobs ==
  {Job(raw, limit, 1, 2, TRUE) : raw \in {<<>>, <<1, 2, 1>>, <<1, 1, 2, 1>>}, limit \in {0, 2, 9}} \cup
  {Job(<<1, 2>>, 0, 0, 1, FALSE), Job(<<1, 2>>, 0, 0, 3, TRUE), Job(<<1>>, 0, 1, 0, TRUE)}
=============================================================================
