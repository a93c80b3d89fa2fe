--------------------------- MODULE LedgerCommand ---------------------------
(***************************************************************************)
(* The span-ledger command of nereids (src/main.rs): the ledger is made of *)
(* the loaded streams (SpanLedger), then written as report.json and as a   *)
(* receipt into a directory that other runs may be writing to as well      *)
(* (ReportFiles).                                                          *)
(***************************************************************************)
EXTENDS SpanLedger, ReportFiles

CONSTANTS Me,   \* the run whose ledger is followed
          Busy  \* the cases in which the other runs take part

ASSUME LedgerAssumption == Me \in Runs /\ Command[Me] = "span-ledger" /\ Busy \subseteq Cases

CommandInit ==
  /\ Init
  /\ FilesInit(IF input \in Busy THEN Runs ELSE {Me})

\* No file is touched before the ledger is made.
CommandNext ==
  \/ Next /\ UNCHANGED fileVars
  \/ pc = "done" /\ FileNext /\ UNCHANGED vars

CommandTerminated == pc = "done" /\ Ended /\ UNCHANGED <<vars, fileVars>>

CommandSpec == CommandInit /\ [][CommandNext \/ CommandTerminated]_<<vars, fileVars>>
=============================================================================
