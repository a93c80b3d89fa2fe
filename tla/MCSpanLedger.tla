---------------------------- MODULE MCSpanLedger ----------------------------
(***************************************************************************)
(* SpanLedger on every pair of runs of up to three lexemes of zero to      *)
(* three equal bytes, cut off at different limits, against a raw input     *)
(* that may be shorter or longer; and on runs that decode to other bytes.  *)
(* In one case a second ledger and a smoke run write to the same directory *)
(* at the same time, with reports of different lengths.                    *)
(***************************************************************************)
EXTENDS LedgerCommand

CONSTANT MaxBytes  \* the values of max_bytes

Ones(n) == [k \in 1..n |-> 1]

DuLexemes     == SeqOf({Ones(n) : n \in {0, 1, 2}}, 3)
TargetLexemes == SeqOf({Ones(n) : n \in {0, 1, 3}}, 3)
Wrong   == SeqOf({<<>>, <<1>>, <<2>>, <<1, 2>>}, 2)

MCCases ==
  [raw : {Ones(4)}, du : DuLexemes, target : TargetLexemes, max_bytes : MaxBytes] \cup
  [raw : {<<>>, <<1, 2, 1>>}, du : Wrong, target : Wrong, max_bytes : MaxBytes]

MCBusy == {[raw |-> Ones(4), du |-> <<Ones(2)>>, target |-> <<Ones(1)>>, max_bytes |-> 9]}

MCRuns == {"me", "other", "smoke"}
MCCommand == [r \in MCRuns |-> IF r = "smoke" THEN "smoke" ELSE "span-ledger"]
MCBlocks == [r \in MCRuns |-> IF r = "me" THEN 2 ELSE 1]
=============================================================================
