---------------------------- MODULE ReportFiles ----------------------------
(***************************************************************************)
(* The files that the commands of nereids (src/main.rs) leave in a receipt *)
(* directory, when several runs share it.  Every command writes a receipt  *)
(* named by its stem and the second it is written in; span-ledger writes   *)
(* report.json before that.                                                *)
(*                                                                         *)
(* fs::write opens the file, which truncates it, and then writes block     *)
(* after block, each behind the one before, wherever the file ends by      *)
(* then.  Nothing is locked, a run may stop at any step, and the clock may *)
(* be set.  A block is given by the run that wrote it; its place tells     *)
(* which of the run's blocks it is.                                        *)
(***************************************************************************)
EXTENDS Integers, Sequences

CONSTANTS Runs,       \* the runs of a command
          Command,    \* the command of each run
          Blocks,     \* how many blocks each run's report has
          MaxSecond   \* the clock shows a second in 0..MaxSecond

Commands == {"smoke", "lexeme-decode", "span-ledger", "bridge-jsonl"}

ASSUME RunsAssumption ==
  /\ Command \in [Runs -> Commands] /\ Blocks \in [Runs -> Nat \ {0}]
  /\ Runs \cap {"hole", "older"} = {}

VARIABLES now,      \* the second the clock shows
          at,       \* where each run is
          second,   \* the second in the name of its receipt
          written,  \* how many blocks of the open file it has written
          files     \* the blocks of each file; a missing file has none

fileVars == <<now, at, second, written, files>>

Seconds == 0..MaxSecond
NotStamped == -1

ReportJson == [stem |-> "report", second |-> NotStamped]

\* Mutated: the stem is left out of the name.
ReceiptNameless(r) == [stem |-> "smoke", second |-> second[r]]

Receipt(r) == [stem |-> Command[r], second |-> second[r]]

Paths == {ReportJson} \cup [stem : Commands, second : Seconds]

FilesInit(taking_part) ==
  /\ now \in Seconds
  /\ at = [r \in Runs |-> IF r \in taking_part THEN "compute" ELSE "none"]
  /\ second = [r \in Runs |-> NotStamped]
  /\ written = [r \in Runs |-> 0]
  /\ \E found \in {<<>>, <<"older">>} :
       files = [p \in Paths |-> IF p = ReportJson THEN found ELSE <<>>]

Goto(r, step) == at' = [at EXCEPT ![r] = step]

\* The command's own work, of which no file shows anything.
Compute(r) ==
  /\ at[r] = "compute"
  /\ Goto(r, IF Command[r] = "span-ledger" THEN "open_report" ELSE "open_receipt")
  /\ UNCHANGED <<now, second, written, files>>

Truncate(r, path) ==
  /\ files' = [files EXCEPT ![path] = <<>>]
  /\ written' = [written EXCEPT ![r] = 0]

\* Block k of run r: what lay behind the file's end before is a hole.
PutBlock(content, r, k) ==
  [i \in 1..(IF k > Len(content) THEN k ELSE Len(content)) |->
     IF i = k THEN r ELSE IF i <= Len(content) THEN content[i] ELSE "hole"]

WriteBlock(r, path, next) ==
  /\ files' = [files EXCEPT ![path] = PutBlock(@, r, written[r] + 1)]
  /\ written' = [written EXCEPT ![r] = @ + 1]
  /\ IF written'[r] = Blocks[r] THEN Goto(r, next) ELSE UNCHANGED at

OpenReport(r) ==
  /\ at[r] = "open_report"
  /\ Truncate(r, ReportJson)
  /\ Goto(r, "write_report")
  /\ UNCHANGED <<now, second>>

WriteReport(r) ==
  /\ at[r] = "write_report"
  /\ WriteBlock(r, ReportJson, "open_receipt")
  /\ UNCHANGED <<now, second>>

\* write_receipt: the clock is read, and a file of that name is truncated.
OpenReceipt(r) ==
  /\ at[r] = "open_receipt"
  /\ second' = [second EXCEPT ![r] = now]
  /\ Truncate(r, Receipt(r)')
  /\ Goto(r, "write_receipt")
  /\ UNCHANGED now

WriteReceipt(r) ==
  /\ at[r] = "write_receipt"
  /\ WriteBlock(r, Receipt(r), "done")
  /\ UNCHANGED <<now, second>>

\* An error, or the end of the process.
Stop(r) ==
  /\ at[r] \notin {"none", "done", "ended"}
  /\ Goto(r, "ended")
  /\ UNCHANGED <<now, second, written, files>>

\* The clock goes on, or is set back; it matters to a run about to read it.
Tick ==
  /\ \E r \in Runs : at[r] = "open_receipt"
  /\ now' \in Seconds
  /\ UNCHANGED <<at, second, written, files>>

FileNext ==
  \/ \E r \in Runs : \/ Compute(r) \/ OpenReport(r) \/ WriteReport(r)
                     \/ OpenReceipt(r) \/ WriteReceipt(r) \/ Stop(r)
  \/ Tick

Ended == \A r \in Runs : at[r] \in {"none", "done", "ended"}
-----------------------------------------------------------------------------
HoldsAll(r, path) == files[path] = [k \in 1..Blocks[r] |-> r]

\* A finished run's receipt is its whole report and stays it, whatever the other
\* runs do, unless one of the same command read the same second, which the code
\* does not keep apart; and its report.json is the same report as long as no other
\* span-ledger has opened it at all, neither before this one nor after.
ReportsSurvive ==
  \A r \in Runs : at[r] = "done" =>
    LET others == Runs \ {r}
        alone  == \A q \in others : second[q] # second[r] \/ Command[q] # Command[r]
        latest == \A q \in others : \/ Command[q] # "span-ledger"
                                    \/ at[q] \in {"none", "compute", "open_report"}
    IN  /\ alone => HoldsAll(r, Receipt(r))
        /\ Command[r] = "span-ledger" /\ latest => HoldsAll(r, ReportJson)
=============================================================================
