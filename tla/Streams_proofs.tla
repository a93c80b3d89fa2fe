--------------------------- MODULE Streams_proofs ---------------------------
(***************************************************************************)
(* Proofs about LedgerCommand, for any number of runs, blocks and seconds, *)
(* and for all lexemes, raw inputs, limits and sample caps; and about      *)
(* LoadedStream, for all files, vocabularies, limits and ranges.           *)
(*                                                                         *)
(* The files: the report of a finished run is whole and stays so unless    *)
(* another run takes its name.  The invariant follows a file from the step *)
(* that truncates it to the last block: as long as nobody else has taken   *)
(* its name it holds as many blocks of its writer as the writer has        *)
(* written, in order.                                                      *)
(*                                                                         *)
(* The ledger: what is loaded are the first lexemes of either run, enough  *)
(* of them to reach the limit, so bounds, bytes and places up to the limit *)
(* are those of the whole runs; the counters and samples are those of the  *)
(* tokens placed so far.                                                   *)
(*                                                                         *)
(* One stream: the tokens loaded so far are those of the words consumed so *)
(* far, a file at a time, and the limit was not reached before the last;   *)
(* the parts in front of `index` are copied as far as the range holds      *)
(* them, and the first one copied holds the start of the range.            *)
(*                                                                         *)
(* Its vocabulary: base64 is decoded to what it is the encoding of, a line *)
(* has one cut into units that mean something, and it is the one the       *)
(* decoder makes; a model is read to its end exactly if it was written as  *)
(* the export of what is read.                                             *)
(***************************************************************************)
EXTENDS LedgerCommand, LoadedStream, SpanLemmas

Steps == {"none", "compute", "open_report", "write_report", "open_receipt", "write_receipt",
          "done", "ended"}

\* The first n blocks of a run.
Own(r, n) == [k \in 1..n |-> r]

\* No other run has taken the name of the receipt, or of report.json.
Alone(r) == \A q \in Runs \ {r} : second[q] # second[r] \/ Command[q] # Command[r]

Latest(r) ==
  \A q \in Runs \ {r} : \/ Command[q] # "span-ledger"
                        \/ at[q] \in {"none", "compute", "open_report"}

FilesTyped ==
  /\ now \in Seconds
  /\ at \in [Runs -> Steps]
  /\ second \in [Runs -> Seconds \cup {NotStamped}]
  /\ written \in [Runs -> Nat]
  /\ files = [p \in Paths |-> files[p]]

\* A run writes what it has opened, and has a block left to write.
WritersOK ==
  \A r \in Runs :
    /\ at[r] \in {"write_receipt", "done"} => second[r] \in Seconds
    /\ second[r] # NotStamped => at[r] \in {"write_receipt", "done", "ended"}
    /\ at[r] \in {"open_report", "write_report"} => Command[r] = "span-ledger"
    /\ at[r] \in {"write_report", "write_receipt"} => written[r] < Blocks[r]

ReceiptOK(r) ==
  at[r] \in {"write_receipt", "done"} /\ Alone(r) =>
    files[Receipt(r)] = Own(r, IF at[r] = "done" THEN Blocks[r] ELSE written[r])

ReportOK(r) ==
  /\ Command[r] = "span-ledger" /\ Latest(r)
  /\ at[r] \in {"write_report", "open_receipt", "write_receipt", "done"}
  => files[ReportJson] = Own(r, IF at[r] = "write_report" THEN written[r] ELSE Blocks[r])

FilesInv == FilesTyped /\ WritersOK /\ \A r \in Runs : ReceiptOK(r) /\ ReportOK(r)
-----------------------------------------------------------------------------
\* The next block of a run extends what the run has written.
LEMMA PutExtends ==
  ASSUME NEW r, NEW n \in Nat
  PROVE  PutBlock(Own(r, n), r, n + 1) = Own(r, n + 1)
<1>1. Len(Own(r, n)) = n /\ \A i \in 1..n : Own(r, n)[i] = r
  BY DEF Own
<1>2. PutBlock(Own(r, n), r, n + 1)
        = [i \in 1..(n + 1) |-> IF i = n + 1 THEN r
                                ELSE IF i <= n THEN Own(r, n)[i] ELSE "hole"]
  BY <1>1 DEF PutBlock
<1> QED
  BY <1>1, <1>2 DEF Own

\* Receipts are not report.json, and runs that share a receipt's name share a
\* command and a second.
LEMMA NamesApart ==
  ASSUME NEW r \in Runs, NEW q \in Runs
  PROVE  /\ Receipt(r) # ReportJson
         /\ Receipt(r) = Receipt(q) => second[q] = second[r] /\ Command[q] = Command[r]
         /\ second[r] \in Seconds => Receipt(r) \in Paths
         /\ ReportJson \in Paths
         /\ NotStamped \notin Seconds
<1>1. Command[r] \in Commands /\ "report" \notin Commands
  BY RunsAssumption DEF Commands
<1>2. Receipt(r) = [stem |-> Command[r], second |-> second[r]]
      /\ Receipt(q) = [stem |-> Command[q], second |-> second[q]]
  BY DEF Receipt
<1>3. Receipt(r) # ReportJson
  BY <1>1, <1>2 DEF ReportJson
<1>4. Receipt(r) = Receipt(q) => second[q] = second[r] /\ Command[q] = Command[r]
  BY <1>2
<1>5. second[r] \in Seconds => Receipt(r) \in Paths
  BY <1>1, <1>2 DEF Paths
<1>6. NotStamped \notin Seconds
  BY DEF NotStamped, Seconds
<1> QED
  BY <1>3, <1>4, <1>5, <1>6 DEF Paths

\* No run has opened a file at first.
LEMMA InitFiles == CommandInit => FilesInv
<1> SUFFICES ASSUME CommandInit PROVE FilesInv
  OBVIOUS
<1>1. PICK taking_part : FilesInit(taking_part)
  BY DEF CommandInit
<1>2. /\ now \in Seconds
      /\ at = [r \in Runs |-> IF r \in taking_part THEN "compute" ELSE "none"]
      /\ second = [r \in Runs |-> NotStamped]
      /\ written = [r \in Runs |-> 0]
      /\ files = [p \in Paths |-> files[p]]
  BY <1>1 DEF FilesInit
<1>3. FilesTyped
  BY <1>2 DEF FilesTyped, Steps
<1>4. \A r \in Runs : at[r] \in {"compute", "none"} /\ second[r] = NotStamped
  BY <1>2
<1> QED
  BY <1>3, <1>4 DEF FilesInv, WritersOK, ReceiptOK, ReportOK

\* What a step of one run may do to the files, and what it must show of its own.
LEMMA RunStep ==
  ASSUME FilesInv, FilesTyped', NEW q \in Runs,
         \A r \in Runs \ {q} : at'[r] = at[r] /\ second'[r] = second[r] /\ written'[r] = written[r],
         second'[q] = second[q] \/ second[q] = NotStamped,
         at'[q] \in {"none", "compute", "open_report"} =>
           at[q] \in {"none", "compute", "open_report"},
         \A p \in Paths :
           \/ files'[p] = files[p]
           \/ p = [stem |-> Command[q], second |-> second'[q]]
           \/ /\ p = ReportJson /\ Command[q] = "span-ledger"
              /\ at'[q] \notin {"none", "compute", "open_report"},
         at'[q] \in {"write_receipt", "done"} => second'[q] \in Seconds,
         second'[q] # NotStamped => at'[q] \in {"write_receipt", "done", "ended"},
         at'[q] \in {"open_report", "write_report"} => Command[q] = "span-ledger",
         at'[q] \in {"write_report", "write_receipt"} => written'[q] < Blocks[q],
         ReceiptOK(q)', ReportOK(q)'
  PROVE  FilesInv'
<1>1. WritersOK'
  BY DEF FilesInv, WritersOK
<1>2. ASSUME NEW r \in Runs \ {q} PROVE ReceiptOK(r)'
  <2> SUFFICES ASSUME at'[r] \in {"write_receipt", "done"}, Alone(r)'
               PROVE  (files[Receipt(r)] =
                         Own(r, IF at[r] = "done" THEN Blocks[r] ELSE written[r]))'
    BY DEF ReceiptOK
  <2>1. at[r] \in {"write_receipt", "done"} /\ second[r] \in Seconds
    BY DEF FilesInv, WritersOK
  <2>2. second'[q] # second[r] \/ Command[q] # Command[r]
    BY DEF Alone
  <2>3. Alone(r)
    <3>1. second[q] # second[r] \/ Command[q] # Command[r]
      BY <2>1, <2>2, NamesApart
    <3> QED
      BY <3>1 DEF Alone
  <2>4. Receipt(r) = [stem |-> Command[r], second |-> second[r]] /\ Receipt(r)' = Receipt(r)
    BY DEF Receipt
  <2>5. /\ Receipt(r) \in Paths /\ Receipt(r) # ReportJson
        /\ Receipt(r) # [stem |-> Command[q], second |-> second'[q]]
    BY <2>1, <2>2, <2>4, NamesApart
  <2>6. files'[Receipt(r)] = files[Receipt(r)]
    BY <2>5
  <2>7. files[Receipt(r)] = Own(r, IF at[r] = "done" THEN Blocks[r] ELSE written[r])
    BY <2>1, <2>3 DEF FilesInv, ReceiptOK
  <2> QED
    BY <2>4, <2>6, <2>7 DEF Own
<1>3. ASSUME NEW r \in Runs \ {q} PROVE ReportOK(r)'
  <2> SUFFICES ASSUME Command[r] = "span-ledger", Latest(r)',
                      at'[r] \in {"write_report", "open_receipt", "write_receipt", "done"}
               PROVE  (files[ReportJson] =
                         Own(r, IF at[r] = "write_report" THEN written[r] ELSE Blocks[r]))'
    BY DEF ReportOK
  <2>1. Command[q] # "span-ledger" \/ at'[q] \in {"none", "compute", "open_report"}
    BY DEF Latest
  <2>2. Latest(r)
    BY <2>1 DEF Latest
  <2>3. ReportJson \in Paths /\ ReportJson # [stem |-> Command[q], second |-> second'[q]]
    BY RunsAssumption, NamesApart DEF ReportJson, Commands
  <2>4. files'[ReportJson] = files[ReportJson]
    BY <2>1, <2>3
  <2>5. files[ReportJson] = Own(r, IF at[r] = "write_report" THEN written[r] ELSE Blocks[r])
    BY <2>2 DEF FilesInv, ReportOK
  <2>6. ReportJson' = ReportJson
    BY DEF ReportJson, NotStamped
  <2> QED
    BY <2>4, <2>5, <2>6 DEF Own
<1> QED
  BY <1>1, <1>2, <1>3 DEF FilesInv

\* A block put at the end of the file is the writer's next.
LEMMA BlockWritten ==
  ASSUME FilesInv, NEW q \in Runs, NEW path \in Paths, NEW next \in Steps,
         WriteBlock(q, path, next), written[q] < Blocks[q]
  PROVE  /\ files' = [p \in Paths |-> files'[p]]
         /\ \A p \in Paths : p # path => files'[p] = files[p]
         /\ files[path] = Own(q, written[q]) => files'[path] = Own(q, written'[q])
         /\ written' \in [Runs -> Nat] /\ written'[q] = written[q] + 1
         /\ \A r \in Runs \ {q} : written'[r] = written[r] /\ at'[r] = at[r]
         /\ at' \in [Runs -> Steps]
         /\ \/ at'[q] = next /\ written'[q] = Blocks[q]
            \/ at'[q] = at[q] /\ written'[q] < Blocks[q]
<1>1. /\ at \in [Runs -> Steps] /\ written \in [Runs -> Nat] /\ Blocks[q] \in Nat
      /\ files = [p \in Paths |-> files[p]]
  BY RunsAssumption DEF FilesInv, FilesTyped
<1>2. /\ files' = [files EXCEPT ![path] = PutBlock(@, q, written[q] + 1)]
      /\ written' = [written EXCEPT ![q] = @ + 1]
      /\ IF written'[q] = Blocks[q] THEN at' = [at EXCEPT ![q] = next] ELSE at' = at
  BY DEF WriteBlock, Goto
<1>3. files' = [p \in Paths |-> files'[p]] /\ \A p \in Paths : p # path => files'[p] = files[p]
  BY <1>1, <1>2
<1>4. files'[path] = PutBlock(files[path], q, written[q] + 1)
  BY <1>1, <1>2
<1>5. written' \in [Runs -> Nat] /\ written'[q] = written[q] + 1 /\ written[q] \in Nat
      /\ \A r \in Runs \ {q} : written'[r] = written[r]
  BY <1>1, <1>2
<1>6. files[path] = Own(q, written[q]) => files'[path] = Own(q, written'[q])
  BY <1>4, <1>5, PutExtends
<1>7. /\ at' \in [Runs -> Steps] /\ \A r \in Runs \ {q} : at'[r] = at[r]
      /\ \/ at'[q] = next /\ written'[q] = Blocks[q]
         \/ at'[q] = at[q] /\ written'[q] # Blocks[q]
  BY <1>1, <1>2
<1> QED
  BY <1>1, <1>3, <1>5, <1>6, <1>7

\* A step of one run preserves the invariant.
LEMMA RunPreserves ==
  ASSUME FilesInv, NEW q \in Runs,
         Compute(q) \/ OpenReport(q) \/ WriteReport(q) \/ OpenReceipt(q) \/ WriteReceipt(q) \/ Stop(q)
  PROVE  FilesInv'
<1>1. /\ now \in Seconds /\ at \in [Runs -> Steps] /\ written \in [Runs -> Nat]
      /\ second \in [Runs -> Seconds \cup {NotStamped}]
      /\ files = [p \in Paths |-> files[p]]
  BY DEF FilesInv, FilesTyped
<1>2. /\ at[q] \in {"write_receipt", "done"} => second[q] \in Seconds
      /\ second[q] # NotStamped => at[q] \in {"write_receipt", "done", "ended"}
      /\ at[q] \in {"open_report", "write_report"} => Command[q] = "span-ledger"
      /\ at[q] \in {"write_report", "write_receipt"} => written[q] < Blocks[q]
  BY DEF FilesInv, WritersOK
<1>3. /\ Blocks[q] \in Nat \ {0} /\ ReportJson \in Paths /\ ReportJson' = ReportJson
      /\ NotStamped \notin Seconds /\ Seconds' = Seconds /\ Paths' = Paths
  BY RunsAssumption, NamesApart DEF ReportJson, NotStamped, Seconds, Paths
<1>4. CASE Compute(q) \/ Stop(q)
  <2>1. /\ UNCHANGED <<now, second, written, files>>
        /\ \/ /\ at[q] = "compute"
              /\ at' = [at EXCEPT ![q] = IF Command[q] = "span-ledger" THEN "open_report"
                                         ELSE "open_receipt"]
           \/ at[q] \notin {"none", "done", "ended"} /\ at' = [at EXCEPT ![q] = "ended"]
    BY <1>4 DEF Compute, Stop, Goto
  <2>2. FilesTyped' /\ \A r \in Runs \ {q} : at'[r] = at[r]
    BY <1>1, <1>3, <2>1 DEF FilesTyped, Steps
  <2>3. \/ at[q] = "compute" /\ at'[q] = "open_report" /\ Command[q] = "span-ledger"
        \/ at[q] = "compute" /\ at'[q] = "open_receipt" /\ Command[q] # "span-ledger"
        \/ at'[q] = "ended"
    BY <1>1, <2>1
  <2>4. ReceiptOK(q)' /\ ReportOK(q)'
    BY <2>3 DEF ReceiptOK, ReportOK
  <2> QED
    BY <1>2, <2>1, <2>2, <2>3, <2>4, RunStep
<1>5. CASE OpenReport(q)
  <2>1. /\ at[q] = "open_report" /\ UNCHANGED <<now, second>>
        /\ files' = [files EXCEPT ![ReportJson] = <<>>]
        /\ written' = [written EXCEPT ![q] = 0]
        /\ at' = [at EXCEPT ![q] = "write_report"]
    BY <1>5 DEF OpenReport, Truncate, Goto
  <2>2. FilesTyped'
    BY <1>1, <1>3, <2>1 DEF FilesTyped, Steps
  <2>3. /\ \A r \in Runs \ {q} : at'[r] = at[r] /\ written'[r] = written[r]
        /\ at'[q] = "write_report" /\ written'[q] = 0 /\ Command[q] = "span-ledger"
        /\ files'[ReportJson] = <<>> /\ \A p \in Paths : p # ReportJson => files'[p] = files[p]
    BY <1>1, <1>2, <1>3, <2>1
  <2>4. ReceiptOK(q)'
    BY <2>3 DEF ReceiptOK
  <2>5. ReportOK(q)'
    BY <1>3, <2>3 DEF ReportOK, Own
  <2> QED
    BY <1>2, <1>3, <2>1, <2>2, <2>3, <2>4, <2>5, RunStep
<1>6. CASE WriteReport(q)
  <2>1. /\ at[q] = "write_report" /\ UNCHANGED <<now, second>>
        /\ WriteBlock(q, ReportJson, "open_receipt") /\ written[q] < Blocks[q]
        /\ "open_receipt" \in Steps /\ Command[q] = "span-ledger"
    BY <1>2, <1>6 DEF WriteReport, Steps
  <2>2. /\ files' = [p \in Paths |-> files'[p]]
        /\ \A p \in Paths : p # ReportJson => files'[p] = files[p]
        /\ files[ReportJson] = Own(q, written[q]) => files'[ReportJson] = Own(q, written'[q])
        /\ written' \in [Runs -> Nat]
        /\ \A r \in Runs \ {q} : written'[r] = written[r] /\ at'[r] = at[r]
        /\ at' \in [Runs -> Steps]
        /\ \/ at'[q] = "open_receipt" /\ written'[q] = Blocks[q]
           \/ at'[q] = "write_report" /\ written'[q] < Blocks[q]
    BY <1>3, <2>1, BlockWritten
  <2>3. FilesTyped'
    BY <1>1, <1>3, <2>1, <2>2 DEF FilesTyped
  <2>4. ReceiptOK(q)'
    BY <2>2 DEF ReceiptOK
  <2>5. ReportOK(q)'
    <3>1. Latest(q)' => Latest(q)
      BY <2>2 DEF Latest
    <3>2. Latest(q) => files[ReportJson] = Own(q, written[q])
      BY <2>1 DEF FilesInv, ReportOK
    <3> QED
      BY <1>3, <2>2, <3>1, <3>2 DEF ReportOK, Own
  <2> QED
    BY <1>2, <1>3, <2>1, <2>2, <2>3, <2>4, <2>5, RunStep
<1>7. CASE OpenReceipt(q)
  <2>1. /\ at[q] = "open_receipt" /\ now' = now
        /\ second' = [second EXCEPT ![q] = now]
        /\ files' = [files EXCEPT ![Receipt(q)'] = <<>>]
        /\ written' = [written EXCEPT ![q] = 0]
        /\ at' = [at EXCEPT ![q] = "write_receipt"]
    BY <1>7 DEF OpenReceipt, Truncate, Goto
  <2>2. FilesTyped'
    BY <1>1, <1>3, <2>1 DEF FilesTyped, Steps
  <2>3. /\ \A r \in Runs \ {q} : /\ at'[r] = at[r] /\ written'[r] = written[r]
                                /\ second'[r] = second[r]
        /\ at'[q] = "write_receipt" /\ written'[q] = 0 /\ second'[q] = now
        /\ second[q] = NotStamped
    BY <1>1, <1>2, <2>1
  <2>4. /\ Receipt(q)' = [stem |-> Command[q], second |-> second'[q]]
        /\ Receipt(q)' \in Paths /\ Receipt(q)' # ReportJson
    BY <1>1, <2>3, RunsAssumption DEF Receipt, Paths, ReportJson, Commands
  <2>5. /\ files'[Receipt(q)'] = <<>>
        /\ \A p \in Paths : p # Receipt(q)' => files'[p] = files[p]
    BY <1>1, <2>1, <2>4
  <2>6. ReceiptOK(q)'
    BY <2>3, <2>5 DEF ReceiptOK, Own
  <2>7. ReportOK(q)'
    <3>1. Latest(q)' => Latest(q)
      BY <2>3 DEF Latest
    <3>2. Command[q] = "span-ledger" /\ Latest(q) => files[ReportJson] = Own(q, Blocks[q])
      BY <2>1 DEF FilesInv, ReportOK
    <3>3. files'[ReportJson] = files[ReportJson]
      BY <1>3, <2>4, <2>5
    <3> QED
      BY <1>3, <2>3, <3>1, <3>2, <3>3 DEF ReportOK, Own
  <2>8. \A p \in Paths : \/ files'[p] = files[p]
                         \/ p = [stem |-> Command[q], second |-> second'[q]]
    BY <2>4, <2>5
  <2>9. second'[q] \in Seconds /\ written'[q] < Blocks[q]
    BY <1>1, <1>3, <2>3
  <2> QED
    BY <2>2, <2>3, <2>6, <2>7, <2>8, <2>9, RunStep
<1>8. CASE WriteReceipt(q)
  <2>1. /\ at[q] = "write_receipt" /\ UNCHANGED <<now, second>>
        /\ WriteBlock(q, Receipt(q), "done") /\ written[q] < Blocks[q]
        /\ "done" \in Steps /\ second[q] \in Seconds
    BY <1>2, <1>8 DEF WriteReceipt, Steps
  <2>2. /\ Receipt(q) \in Paths /\ Receipt(q) # ReportJson /\ Receipt(q)' = Receipt(q)
        /\ Receipt(q) = [stem |-> Command[q], second |-> second'[q]]
    BY <2>1, NamesApart DEF Receipt
  <2>3. /\ files' = [p \in Paths |-> files'[p]]
        /\ \A p \in Paths : p # Receipt(q) => files'[p] = files[p]
        /\ files[Receipt(q)] = Own(q, written[q]) => files'[Receipt(q)] = Own(q, written'[q])
        /\ written' \in [Runs -> Nat]
        /\ \A r \in Runs \ {q} : written'[r] = written[r] /\ at'[r] = at[r]
        /\ at' \in [Runs -> Steps]
        /\ \/ at'[q] = "done" /\ written'[q] = Blocks[q]
           \/ at'[q] = "write_receipt" /\ written'[q] < Blocks[q]
    BY <2>1, <2>2, BlockWritten
  <2>4. FilesTyped'
    BY <1>1, <1>3, <2>1, <2>3 DEF FilesTyped
  <2>5. ReceiptOK(q)'
    <3>1. Alone(q)' => Alone(q)
      BY <2>1 DEF Alone
    <3>2. Alone(q) => files[Receipt(q)] = Own(q, written[q])
      BY <2>1 DEF FilesInv, ReceiptOK
    <3> QED
      BY <2>2, <2>3, <3>1, <3>2 DEF ReceiptOK, Own
  <2>6. ReportOK(q)'
    <3>1. Latest(q)' => Latest(q)
      BY <2>3 DEF Latest
    <3>2. Command[q] = "span-ledger" /\ Latest(q) => files[ReportJson] = Own(q, Blocks[q])
      BY <2>1 DEF FilesInv, ReportOK
    <3>3. files'[ReportJson] = files[ReportJson]
      BY <1>3, <2>2, <2>3
    <3> QED
      BY <1>3, <2>3, <3>1, <3>2, <3>3 DEF ReportOK, Own
  <2> QED
    BY <1>2, <1>3, <2>1, <2>2, <2>3, <2>4, <2>5, <2>6, RunStep
<1> QED
  BY <1>4, <1>5, <1>6, <1>7, <1>8

\* So does every step of the command and of the runs beside it.
LEMMA NextFiles ==
  FilesInv /\ [CommandNext \/ CommandTerminated]_<<vars, fileVars>> => FilesInv'
<1> SUFFICES ASSUME FilesInv, [CommandNext \/ CommandTerminated]_<<vars, fileVars>>
             PROVE  FilesInv'
  OBVIOUS
<1>1. CASE FileNext
  <2>1. CASE Tick
    BY <2>1, ZenonT(90) DEF Tick, FilesInv, FilesTyped, WritersOK, ReceiptOK, ReportOK, Alone, Latest, Own,
       Receipt, ReportJson, Seconds, Paths, NotStamped
  <2> QED
    BY <1>1, <2>1, RunPreserves DEF FileNext
<1>2. CASE UNCHANGED fileVars
  BY <1>2 DEF fileVars, FilesInv, FilesTyped, WritersOK, ReceiptOK, ReportOK, Alone, Latest,
     Own, Receipt, ReportJson, Seconds, Paths, NotStamped
<1> QED
  BY <1>1, <1>2 DEF CommandNext, CommandTerminated

\* The receipt of a run that has finished is its whole report and stays it,
\* whatever the other runs do and wherever they stop, unless one of the same
\* command read the same second; and its report.json stays until another
\* span-ledger opens it.
THEOREM FinishedReportsSurvive == CommandSpec => []ReportsSurvive
<1>1. FilesInv => ReportsSurvive
  <2> SUFFICES ASSUME FilesInv, NEW r \in Runs, at[r] = "done"
               PROVE  /\ Alone(r) => HoldsAll(r, Receipt(r))
                      /\ Command[r] = "span-ledger" /\ Latest(r) => HoldsAll(r, ReportJson)
    BY DEF ReportsSurvive, Alone, Latest
  <2> QED
    BY DEF FilesInv, ReceiptOK, ReportOK, HoldsAll, Own
<1> QED
  BY <1>1, InitFiles, NextFiles, PTL DEF CommandSpec
-----------------------------------------------------------------------------
\* first_mismatch of two beginnings of the same length is the first place at
\* which they differ, or there is none.
LEMMA MismatchFacts ==
  ASSUME NEW a \in Bytes, NEW b \in Bytes, NEW n \in Nat, n <= Len(a), n <= Len(b),
         NEW m, m = FirstMismatch(Slice(a, 0, n), Slice(b, 0, n))
  PROVE  /\ m = NoMismatch <=> Slice(a, 0, n) = Slice(b, 0, n)
         /\ m # NoMismatch => /\ m \in Nat /\ m < n
                              /\ Slice(a, 0, m) = Slice(b, 0, m)
                              /\ Slice(a, 0, m + 1) # Slice(b, 0, m + 1)
<1> DEFINE x == Slice(a, 0, n)
           y == Slice(b, 0, n)
           differs == {k \in 1..n : a[k] # b[k]}
<1>1. /\ x \in Bytes /\ Len(x) = n /\ \A k \in 1..n : x[k] = a[k]
      /\ y \in Bytes /\ Len(y) = n /\ \A k \in 1..n : y[k] = b[k]
  BY SliceFacts
<1>2. Min({Len(x), Len(y)}) = n
  <2>1. {Len(x), Len(y)} = {n}
    BY <1>1
  <2>2. {n} \in SUBSET Nat /\ {n} # {}
    OBVIOUS
  <2>3. Min({n}) \in {n}
    BY <2>2, MinFacts
  <2> HIDE DEF x, y
  <2> QED
    BY <2>1, <2>3
<1>3. {k \in 1..n : x[k] # y[k]} = differs
  <2> HIDE DEF x, y
  <2> QED
    BY <1>1
<1>4. m = IF differs # {} THEN Min(differs) - 1 ELSE NoMismatch
  <2>0. m = FirstMismatch(x, y)
    OBVIOUS
  <2> HIDE DEF x, y
  <2>1. m = CASE differs # {} -> Min(differs) - 1
              [] differs = {} /\ Len(x) # Len(y) -> n
              [] OTHER -> NoMismatch
    BY <2>0, <1>2, <1>3 DEF FirstMismatch
  <2> HIDE DEF differs
  <2> QED
    BY <1>1, <2>1
<1>5. x = y <=> differs = {}
  <2>1. x = y <=> \A k \in 1..n : a[k] = b[k]
    BY SlicesEqual
  <2> HIDE DEF x, y
  <2> QED
    BY <2>1
<1>6. CASE differs = {}
  BY <1>4, <1>5, <1>6
<1>7. CASE differs # {}
  <2>1. differs \in SUBSET Nat
    OBVIOUS
  <2>2. Min(differs) \in differs /\ \A k \in differs : Min(differs) <= k
    BY <1>7, <2>1, MinFacts
  <2>3. m = Min(differs) - 1
    BY <1>4, <1>7
  <2> DEFINE d == Min(differs)
  <2>4. d \in 1..n /\ a[d] # b[d] /\ \A k \in 1..n : a[k] # b[k] => d <= k
    BY <2>2
  <2> HIDE DEF d, differs, x, y
  <2>5. m \in Nat /\ m < n /\ m + 1 = d /\ m # NoMismatch /\ m + 1 \in Nat
    <3>1. m = d - 1
      BY <2>3 DEF d
    <3> QED
      BY <2>4, <3>1 DEF NoMismatch
  <2>6. \A k \in 1..m : a[k] = b[k]
    BY <2>4, <2>5
  <2>7. m <= Len(a) /\ m <= Len(b) /\ m + 1 <= Len(a) /\ m + 1 <= Len(b)
    <3>1. Len(a) \in Nat /\ Len(b) \in Nat
      BY DEF Bytes
    <3> QED
      BY <2>5, <3>1
  <2>8. Slice(a, 0, m) = Slice(b, 0, m)
    BY <2>5, <2>6, <2>7, SlicesEqual
  <2>9. Slice(a, 0, m + 1) # Slice(b, 0, m + 1)
    <3>1. m + 1 \in 1..(m + 1) /\ a[m + 1] # b[m + 1]
      BY <2>4, <2>5
    <3>2. Slice(a, 0, m + 1) = Slice(b, 0, m + 1) <=> \A k \in 1..(m + 1) : a[k] = b[k]
      BY <2>5, <2>7, SlicesEqual
    <3> QED
      BY <3>1, <3>2
  <2> QED
    BY <1>5, <1>7, <2>5, <2>8, <2>9 DEF x, y
<1> QED
  BY <1>6, <1>7

\* The first n lexemes of a run, as a stream.
FirstOf(lexemes, n) ==
  MakeLoadedStream([k \in 1..n |-> k - 1], SubSeq(lexemes, 1, n))

\* Loading takes the first lexemes: all, or enough of them to reach the limit.
LEMMA LoadsFirst ==
  ASSUME NEW lexemes \in Seq(Bytes), NEW max_bytes \in Nat
  PROVE  \E n \in 0..Len(lexemes) :
           /\ LoadUpTo(lexemes, max_bytes) = FirstOf(lexemes, n)
           /\ n = Len(lexemes) \/ Total(lexemes, n) >= max_bytes
<1> DEFINE len == Len(lexemes)
           reached == {k \in 1..len : Total(lexemes, k) >= max_bytes}
           n == IF reached = {} THEN len ELSE Min(reached)
<1>1. LoadUpTo(lexemes, max_bytes) = FirstOf(lexemes, n)
  BY DEF LoadUpTo, FirstOf
<1>2. reached # {} => Min(reached) \in reached
  <2>1. reached \in SUBSET Nat
    OBVIOUS
  <2> HIDE DEF reached
  <2> QED
    BY <2>1, MinFacts
<1>3. len \in Nat
  OBVIOUS
<1>4. n \in 0..len /\ (n = len \/ Total(lexemes, n) >= max_bytes)
  <2>1. reached # {} => Min(reached) \in 1..len /\ Total(lexemes, Min(reached)) >= max_bytes
    BY <1>2
  <2> HIDE DEF reached
  <2> QED
    BY <1>3, <2>1
<1> HIDE DEF n
<1> QED
  BY <1>1, <1>4

\* What the stream of the first n lexemes holds.
LEMMA FirstFacts ==
  ASSUME NEW lexemes \in Seq(Bytes), NEW n \in 0..Len(lexemes)
  PROVE  LET cut == FirstOf(lexemes, n)
         IN  /\ cut.parts = SubSeq(lexemes, 1, n) /\ Len(cut.ids) = n
             /\ cut.bounds \in Seq(Nat) /\ Len(cut.bounds) = n + 1
             /\ \A k \in 1..(n + 1) : cut.bounds[k] = Total(lexemes, k - 1)
             /\ \A i, j \in 1..(n + 1) : i <= j => cut.bounds[i] <= cut.bounds[j]
             /\ Last(cut.bounds) = Total(lexemes, n) /\ Total(lexemes, n) \in Nat
<1> DEFINE cut == FirstOf(lexemes, n)
           front == SubSeq(lexemes, 1, n)
<1>1. front \in Seq(Bytes) /\ Len(front) = n /\ n \in Nat /\ n <= Len(lexemes) /\ Len(lexemes) \in Nat
  BY CutAt
<1>2. \A k \in 0..n : Total(front, k) = Total(lexemes, k)
  BY TotalOfFront
<1>3. /\ \A k \in 0..n : Total(lexemes, k) \in Nat
      /\ \A j, k \in 0..n : j <= k => Total(lexemes, j) <= Total(lexemes, k)
  <2>1. \A k \in 0..n : k \in 0..Len(lexemes)
    BY <1>1
  <2> QED
    BY <2>1, TotalFacts
<1>4. cut = [ids |-> [k \in 1..n |-> k - 1], parts |-> front,
                bounds |-> [k \in 1..(Len(front) + 1) |-> Total(front, k - 1)]]
  BY DEF FirstOf, MakeLoadedStream
<1> HIDE DEF cut, front
<1>5. cut.bounds = [k \in 1..(n + 1) |-> Total(front, k - 1)]
  BY <1>1, <1>4
<1>6. \A k \in 1..(n + 1) : k - 1 \in 0..n
  BY <1>1
<1>7. \A k \in 1..(n + 1) : cut.bounds[k] = Total(lexemes, k - 1)
  BY <1>2, <1>5, <1>6
<1>8. cut.bounds \in Seq(Nat) /\ Len(cut.bounds) = n + 1
  <2>1. \A k \in 1..(n + 1) : Total(front, k - 1) \in Nat
    BY <1>2, <1>3, <1>6
  <2>2. n + 1 \in Nat
    BY <1>1
  <2> QED
    BY <1>5, <2>1, <2>2
<1>9. ASSUME NEW i \in 1..(n + 1), NEW j \in 1..(n + 1), i <= j
      PROVE  cut.bounds[i] <= cut.bounds[j]
  <2>1. i - 1 \in 0..n /\ j - 1 \in 0..n /\ i - 1 <= j - 1
    BY <1>1, <1>9
  <2> QED
    BY <1>3, <1>7, <2>1
<1>10. Last(cut.bounds) = Total(lexemes, n) /\ Total(lexemes, n) \in Nat
  <2>1. n + 1 \in 1..(n + 1) /\ (n + 1) - 1 = n /\ n \in 0..n
    BY <1>1
  <2> QED
    BY <1>3, <1>7, <1>8, <2>1 DEF Last
<1>11. cut.parts = SubSeq(lexemes, 1, n) /\ Len(cut.ids) = n
  <2>1. Len([k \in 1..n |-> k - 1]) = n
    BY <1>1
  <2> QED
    BY <1>4, <2>1 DEF front
<1> QED
  BY <1>7, <1>8, <1>9, <1>10, <1>11 DEF cut

\* The bytes of the first n lexemes are those the whole run begins with.
LEMMA FirstDecodes ==
  ASSUME NEW lexemes \in Seq(Bytes), NEW n \in 0..Len(lexemes)
  PROVE  LET front == FlattenSeq(SubSeq(lexemes, 1, n))
             whole == FlattenSeq(lexemes)
         IN  /\ front \in Bytes /\ Len(front) = Total(lexemes, n)
             /\ whole \in Bytes /\ Len(front) <= Len(whole)
             /\ \A m \in Nat : m <= Len(front) => Slice(front, 0, m) = Slice(whole, 0, m)
<1> DEFINE first == SubSeq(lexemes, 1, n)
           others == SubSeq(lexemes, n + 1, Len(lexemes))
           front == FlattenSeq(first)
           rest == FlattenSeq(others)
           whole == FlattenSeq(lexemes)
<1>1. first \in Seq(Bytes) /\ others \in Seq(Bytes) /\ Len(first) = n /\ lexemes = first \o others
  BY CutAt, ZenonT(120)
<1>2. n \in 0..n
  OBVIOUS
<1>3. Total(first, n) = Total(lexemes, n)
  BY <1>2, TotalOfFront
<1> HIDE DEF first, others
<1>4. front \in Bytes /\ Len(front) = Total(lexemes, n)
  BY <1>1, <1>3, TotalIsLength
<1>5. rest \in Bytes /\ whole \in Bytes /\ whole = front \o rest
  BY <1>1, FlattenBytes
<1> HIDE DEF front, rest, whole
<1>6. Len(front) <= Len(whole) /\ Len(front) \in Nat /\ Len(whole) \in Nat
      /\ \A k \in 1..Len(front) : whole[k] = front[k]
  BY <1>4, <1>5 DEF Bytes
<1>7. ASSUME NEW m \in Nat, m <= Len(front) PROVE Slice(front, 0, m) = Slice(whole, 0, m)
  <2>1. m <= Len(whole) /\ \A k \in 1..m : front[k] = whole[k]
    BY <1>6, <1>7
  <2> QED
    BY <1>4, <1>5, <1>7, <2>1, SlicesEqual
<1> QED
  BY <1>4, <1>5, <1>6, <1>7 DEF front, whole, first
-----------------------------------------------------------------------------
\* The boundaries of a whole run are where its lexemes begin and end.
LEMMA WholeFacts ==
  ASSUME NEW lexemes \in Seq(Bytes)
  PROVE  /\ Len(Whole(lexemes).tokens) = Len(lexemes)
         /\ \A k \in 1..Len(lexemes) :
              /\ Whole(lexemes).tokens[k].byte_start = Total(lexemes, k - 1)
              /\ Whole(lexemes).tokens[k].byte_end = Total(lexemes, k)
         /\ Whole(lexemes).raw_len = Total(lexemes, Len(lexemes))
         /\ Boundaries(Whole(lexemes)) = {Total(lexemes, i) : i \in 0..Len(lexemes)}
<1> DEFINE len == Len(lexemes)
           tokens == Whole(lexemes).tokens
<1>0. len \in Nat
  OBVIOUS
<1>1. tokens = [k \in 1..len |-> [byte_start |-> Total(lexemes, k - 1), byte_end |-> Total(lexemes, k)]]
      /\ Whole(lexemes).raw_len = Total(lexemes, len)
  BY DEF Whole, SpansOf
<1> HIDE DEF tokens
<1>2. Len(tokens) = len
  BY <1>0, <1>1
<1>3. \A k \in 1..len : /\ tokens[k].byte_start = Total(lexemes, k - 1)
                        /\ tokens[k].byte_end = Total(lexemes, k)
  BY <1>1
<1>4. Boundaries(Whole(lexemes))
        = {tokens[i].byte_start : i \in 1..len} \cup {Total(lexemes, len)}
  BY <1>1, <1>2 DEF Boundaries, tokens
<1>5. Boundaries(Whole(lexemes)) = {Total(lexemes, i) : i \in 0..len}
  <2>1. ASSUME NEW x \in Boundaries(Whole(lexemes))
        PROVE  x \in {Total(lexemes, i) : i \in 0..len}
    <3>1. CASE x = Total(lexemes, len)
      BY <1>0, <3>1
    <3>2. ASSUME NEW i \in 1..len, x = tokens[i].byte_start PROVE x \in {Total(lexemes, j) : j \in 0..len}
      <4>1. i - 1 \in 0..len /\ x = Total(lexemes, i - 1)
        BY <1>0, <1>3, <3>2
      <4> QED
        BY <4>1
    <3> QED
      BY <1>4, <3>1, <3>2
  <2>2. ASSUME NEW i \in 0..len PROVE Total(lexemes, i) \in Boundaries(Whole(lexemes))
    <3>1. CASE i = len
      BY <1>4, <3>1
    <3>2. CASE i # len
      <4>1. i + 1 \in 1..len /\ (i + 1) - 1 = i
        BY <1>0, <3>2
      <4>2. Total(lexemes, i) = tokens[i + 1].byte_start
        BY <1>3, <4>1
      <4> QED
        BY <1>4, <4>1, <4>2
    <3> QED
      BY <3>1, <3>2
  <2> QED
    BY <2>1, <2>2
<1> QED
  BY <1>1, <1>2, <1>3, <1>5 DEF tokens

\* The searches in the bounds of the first n lexemes, and what lies in them.
LEMMA SearchFacts ==
  ASSUME NEW lexemes \in Seq(Bytes), NEW n \in 0..Len(lexemes), NEW x \in Nat
  PROVE  LET bounds == FirstOf(lexemes, n).bounds
         IN  /\ UpperBound(bounds, x) \in 1..(n + 1)
             /\ \A i \in 0..n : Total(lexemes, i) <= x <=> i < UpperBound(bounds, x)
             /\ LowerBound(bounds, x) \in 0..(n + 1)
             /\ \A i \in 0..n : Total(lexemes, i) < x <=> i < LowerBound(bounds, x)
             /\ Range(bounds) = {Total(lexemes, i) : i \in 0..n}
<1> DEFINE bounds == FirstOf(lexemes, n).bounds
<1>1. /\ bounds \in Seq(Nat) /\ Len(bounds) = n + 1
      /\ \A k \in 1..(n + 1) : bounds[k] = Total(lexemes, k - 1)
      /\ \A i, j \in 1..(n + 1) : i <= j => bounds[i] <= bounds[j]
  BY FirstFacts
<1>2. n \in Nat /\ \A i \in 0..n : i + 1 \in 1..(n + 1) /\ (i + 1) - 1 = i
  OBVIOUS
<1> HIDE DEF bounds
<1>3. \A i \in 0..n : bounds[i + 1] = Total(lexemes, i)
  BY <1>1, <1>2
<1>4. /\ UpperBound(bounds, x) \in 0..(n + 1)
      /\ \A i \in 1..(n + 1) : bounds[i] <= x <=> i <= UpperBound(bounds, x)
  BY <1>1, UpperBoundIs
<1>5. /\ LowerBound(bounds, x) \in 0..(n + 1)
      /\ \A i \in 1..(n + 1) : bounds[i] < x <=> i <= LowerBound(bounds, x)
  BY <1>1, LowerBoundIs
<1>6. \A i \in 0..n : Total(lexemes, i) <= x <=> i < UpperBound(bounds, x)
  <2>1. \A i \in 0..n : bounds[i + 1] <= x <=> i + 1 <= UpperBound(bounds, x)
    BY <1>2, <1>4
  <2>2. \A i \in 0..n : i + 1 <= UpperBound(bounds, x) <=> i < UpperBound(bounds, x)
    BY <1>4
  <2> QED
    BY <1>3, <2>1, <2>2, Zenon
<1>7. \A i \in 0..n : Total(lexemes, i) < x <=> i < LowerBound(bounds, x)
  <2>1. \A i \in 0..n : bounds[i + 1] < x <=> i + 1 <= LowerBound(bounds, x)
    BY <1>2, <1>5
  <2>2. \A i \in 0..n : i + 1 <= LowerBound(bounds, x) <=> i < LowerBound(bounds, x)
    BY <1>5
  <2> QED
    BY <1>3, <2>1, <2>2, Zenon
<1>8. UpperBound(bounds, x) \in 1..(n + 1)
  <2>1. Total(lexemes, 0) = 0 /\ 0 \in 0..n
    BY TotalNext, <1>2
  <2>2. 0 < UpperBound(bounds, x)
    BY <1>6, <2>1
  <2> QED
    BY <1>4, <2>2
<1>9. Range(bounds) = {Total(lexemes, i) : i \in 0..n}
  <2>1. Range(bounds) = {bounds[k] : k \in 1..(n + 1)}
    <3>1. DOMAIN bounds = 1..(n + 1)
      BY <1>1
    <3> QED
      BY <3>1 DEF Range
  <2>2. \A k \in 1..(n + 1) : k - 1 \in 0..n
    BY <1>2
  <2>3. \A k \in 1..(n + 1) : bounds[k] \in {Total(lexemes, i) : i \in 0..n}
    BY <1>1, <2>2
  <2>4. \A i \in 0..n : Total(lexemes, i) \in {bounds[k] : k \in 1..(n + 1)}
    BY <1>2, <1>3
  <2> QED
    BY <2>1, <2>3, <2>4
<1> QED
  BY <1>5, <1>6, <1>7, <1>8, <1>9 DEF bounds

\* Where a target span within the first n lexemes lies among the lexemes of the
\* whole run: target_du_span counts those that share a byte with it, knows
\* whether its ends are boundaries, and covers one if they are not both.
LEMMA PlaceFacts ==
  ASSUME NEW lexemes \in Seq(Bytes), NEW n \in 0..Len(lexemes),
         NEW a \in Nat, NEW b \in Nat, a <= b, b <= Total(lexemes, n)
  PROVE  LET span == TargetDuSpan(FirstOf(lexemes, n).bounds, a, b)
             t == [byte_start |-> a, byte_end |-> b]
         IN  /\ span.starts <=> a \in Boundaries(Whole(lexemes))
             /\ span.ends <=> b \in Boundaries(Whole(lexemes))
             /\ span.count = Cardinality(CoveredBy(t, Whole(lexemes))) /\ span.count \in Nat
             /\ span.start \in Nat /\ span.end \in Nat /\ span.end <= n
             /\ ~(span.starts /\ span.ends) => span.start < span.end
<1> DEFINE bounds == FirstOf(lexemes, n).bounds
           span == TargetDuSpan(bounds, a, b)
           t == [byte_start |-> a, byte_end |-> b]
           len == Len(lexemes)
           T(i) == Total(lexemes, i)
           U == UpperBound(bounds, a)
           L == LowerBound(bounds, b)
<1>1. /\ U \in 1..(n + 1) /\ \A i \in 0..n : T(i) <= a <=> i < U
      /\ L \in 0..(n + 1) /\ \A i \in 0..n : T(i) < b <=> i < L
      /\ Range(bounds) = {T(i) : i \in 0..n}
  BY SearchFacts
<1>2. /\ \A i \in 0..len : T(i) \in Nat
      /\ \A i, j \in 0..len : i <= j => T(i) <= T(j)
  BY TotalFacts
<1>3. /\ span.start = SaturatingSub(U, 1) /\ span.end = L
      /\ span.count = SaturatingSub(L, SaturatingSub(U, 1))
      /\ span.starts = (a \in Range(bounds)) /\ span.ends = (b \in Range(bounds))
  BY DEF TargetDuSpan
<1>4. /\ Len(Whole(lexemes).tokens) = len
      /\ \A k \in 1..len : /\ Whole(lexemes).tokens[k].byte_start = T(k - 1)
                           /\ Whole(lexemes).tokens[k].byte_end = T(k)
      /\ Boundaries(Whole(lexemes)) = {T(i) : i \in 0..len}
  BY WholeFacts
<1>5. n \in Nat /\ len \in Nat /\ n <= len
  OBVIOUS
<1> HIDE DEF bounds, span, len, T, U, L
<1>6. \A x \in Nat : x <= T(n) => (x \in {T(i) : i \in 0..n} <=> x \in {T(i) : i \in 0..len})
  <2>1. ASSUME NEW x \in Nat, x <= T(n), NEW i \in 0..len, x = T(i)
        PROVE  x \in {T(j) : j \in 0..n}
    <3>1. CASE i <= n
      BY <1>5, <2>1, <3>1
    <3>2. CASE i > n
      <4>1. T(n) <= T(i) /\ T(n) \in Nat /\ n \in 0..n
        BY <1>2, <1>5, <3>2
      <4>2. x = T(n)
        BY <2>1, <4>1
      <4> QED
        BY <4>1, <4>2
    <3> QED
      BY <1>5, <3>1, <3>2
  <2>2. \A i \in 0..n : i \in 0..len
    BY <1>5
  <2> QED
    BY <2>1, <2>2
<1>7. b <= T(n) /\ a <= T(n)
  <2>1. T(n) \in Nat
    BY <1>2, <1>5
  <2> QED
    BY <2>1 DEF T
<1>8. SaturatingSub(U, 1) = U - 1 /\ U - 1 \in Nat
  BY <1>1 DEF SaturatingSub
<1>9. L <= n /\ L \in Nat
  <2>1. n \in 0..n /\ T(n) \in Nat
    BY <1>2, <1>5
  <2>2. ~(n < L)
    BY <1>1, <1>7, <2>1
  <2> QED
    BY <1>1, <1>5, <2>2
<1>10. CoveredBy(t, Whole(lexemes)) = U..L
  <2>1. \A j \in 1..len : j - 1 \in 0..len /\ j \in 0..len /\ (j <= n => j - 1 \in 0..n /\ j \in 0..n)
    BY <1>5
  <2>2. CoveredBy(t, Whole(lexemes)) = {j \in 1..len : a < T(j) /\ T(j - 1) < b}
    BY <1>4 DEF CoveredBy, Intersects
  <2>3. ASSUME NEW j \in 1..len PROVE (a < T(j) /\ T(j - 1) < b) <=> (U <= j /\ j <= L)
    <3>1. CASE j <= n
      <4>1. /\ T(j) <= a <=> j < U
            /\ T(j - 1) < b <=> j - 1 < L
        BY <1>1, <2>1, <3>1
      <4>2. T(j) \in Nat /\ T(j - 1) \in Nat
        BY <1>2, <2>1
      <4>3. /\ j < U <=> ~(U <= j)
            /\ j - 1 < L <=> j <= L
        BY <1>1, <1>5
      <4>4. a < T(j) <=> ~(T(j) <= a)
        BY <4>2
      <4> QED
        BY <4>1, <4>3, <4>4, Zenon
    <3>2. CASE j > n
      <4>1. T(n) <= T(j - 1) /\ T(j - 1) \in Nat /\ T(n) \in Nat
        <5>1. n \in 0..len /\ j - 1 \in 0..len /\ n <= j - 1
          BY <1>5, <3>2
        <5> QED
          BY <1>2, <5>1
      <4>2. ~(T(j - 1) < b)
        BY <1>7, <4>1
      <4>3. ~(j <= L)
        BY <1>5, <1>9, <3>2
      <4> QED
        BY <4>2, <4>3
    <3> QED
      BY <1>5, <3>1, <3>2
  <2>4. U..L \subseteq 1..len
    BY <1>1, <1>5, <1>9
  <2>5. \A j \in U..L : U <= j /\ j <= L /\ j \in 1..len
    BY <2>4, <1>1, <1>9
  <2>6. \A j \in 1..len : U <= j /\ j <= L => j \in U..L
    BY <1>1, <1>5, <1>9
  <2> QED
    BY <2>2, <2>3, <2>5, <2>6
<1>11. span.count = Cardinality(CoveredBy(t, Whole(lexemes))) /\ span.count \in Nat
  <2>1. Cardinality(U..L) = IF U > L THEN 0 ELSE L - U + 1
    BY <1>1, <1>9, FS_Interval
  <2>2. SaturatingSub(L, U - 1) = IF L < U - 1 THEN 0 ELSE L - (U - 1)
    BY DEF SaturatingSub
  <2>3. U \in Nat
    BY <1>1
  <2> QED
    BY <1>3, <1>8, <1>9, <1>10, <2>1, <2>2, <2>3
<1>12. ~(span.starts /\ span.ends) => span.start < span.end
  <2>1. ASSUME ~(U - 1 < L) PROVE a \in Range(bounds) /\ b \in Range(bounds)
    <3>1. U - 1 \in 0..n /\ T(U - 1) \in Nat /\ L \in 0..n /\ T(L) \in Nat
      <4>1. U - 1 \in 0..n /\ L \in 0..n
        BY <1>1, <1>5, <1>9
      <4> QED
        BY <1>2, <1>5, <4>1
    <3>2. T(U - 1) <= a
      BY <1>1, <3>1
    <3>3. ~(T(U - 1) < b)
      BY <1>1, <2>1, <3>1
    <3>4. T(U - 1) = a /\ T(U - 1) = b
      BY <3>1, <3>2, <3>3
    <3> QED
      BY <1>1, <3>1, <3>4
  <2> QED
    BY <1>3, <1>8, <1>9, <2>1
<1> QED
  BY <1>1, <1>3, <1>4, <1>6, <1>7, <1>8, <1>9, <1>11, <1>12 DEF span, bounds

\* Up to the limit, the bounds of the lexemes that end within it are all bounds.
LEMMA WithinFacts ==
  ASSUME NEW lexemes \in Seq(Bytes), NEW n \in 0..Len(lexemes), NEW lim \in Nat,
         NEW x \in Nat, x <= lim
  PROVE  LET bounds == FirstOf(lexemes, n).bounds
             whole  == SaturatingSub(UpperBound(bounds, lim), 1)
         IN  x \in Range(SubSeq(bounds, 1, Min({whole, Len(bounds) - 1}) + 1))
             <=> x \in Range(bounds)
<1> DEFINE bounds == FirstOf(lexemes, n).bounds
           U == UpperBound(bounds, lim)
           within == SubSeq(bounds, 1, U)
<1>1. /\ bounds \in Seq(Nat) /\ Len(bounds) = n + 1 /\ n \in Nat
      /\ \A k \in 1..(n + 1) : bounds[k] = Total(lexemes, k - 1)
  BY FirstFacts
<1>2. U \in 1..(n + 1) /\ \A i \in 0..n : Total(lexemes, i) <= lim <=> i < U
  BY SearchFacts
<1> HIDE DEF bounds, U
<1>3. SaturatingSub(U, 1) = U - 1 /\ U - 1 \in Nat /\ U - 1 <= n /\ (U - 1) + 1 = U
  BY <1>1, <1>2 DEF SaturatingSub
<1>4. Min({U - 1, Len(bounds) - 1}) = U - 1
  <2>1. {U - 1, Len(bounds) - 1} \in SUBSET Nat /\ Len(bounds) - 1 = n
    BY <1>1, <1>3
  <2>2. /\ Min({U - 1, n}) \in {U - 1, n}
        /\ \A y \in {U - 1, n} : Min({U - 1, n}) <= y
    BY <2>1, MinFacts
  <2>3. Min({U - 1, n}) <= U - 1
    BY <2>2
  <2> QED
    BY <1>1, <1>3, <2>1, <2>2, <2>3
<1>5. DOMAIN bounds = 1..(n + 1) /\ DOMAIN within = 1..U
      /\ \A k \in 1..U : within[k] = bounds[k] /\ k \in 1..(n + 1)
  BY <1>1, <1>2
<1>6. x \in Range(within) <=> x \in Range(bounds)
  <2>1. ASSUME x \in Range(within) PROVE x \in Range(bounds)
    BY <1>5, <2>1 DEF Range
  <2>2. ASSUME NEW k \in 1..(n + 1), x = bounds[k] PROVE k \in 1..U
    <3>1. k - 1 \in 0..n /\ Total(lexemes, k - 1) <= lim
      BY <1>1, <2>2
    <3>2. k - 1 < U
      BY <1>2, <3>1
    <3> QED
      BY <1>2, <3>2
  <2>3. ASSUME x \in Range(bounds) PROVE x \in Range(within)
    <3>1. PICK k \in 1..(n + 1) : x = bounds[k]
      BY <1>5, <2>3 DEF Range
    <3>2. k \in 1..U /\ x = within[k]
      BY <1>5, <2>2, <3>1
    <3> HIDE DEF within
    <3> QED
      BY <1>5, <3>2 DEF Range
  <2> QED
    BY <2>1, <2>3
<1> QED
  BY <1>3, <1>4, <1>6 DEF bounds, U
-----------------------------------------------------------------------------
\* The report that Report writes.
TargetMismatch == FirstMismatch(Decoded(target), Slice(input.raw, 0, limit))
DuMismatch == FirstMismatch(Decoded(du), Slice(input.raw, 0, limit))
LedgerReport ==
  [written                       |-> TRUE,
   bytes_tested                  |-> limit,
   target_tokens_tested          |-> target_count,
   du_tokens_covering_prefix     |-> du_count,
   target_decode_first_mismatch  |-> TargetMismatch,
   du_decode_first_mismatch      |-> DuMismatch,
   exact_reconstruction          |-> TargetMismatch = NoMismatch /\ DuMismatch = NoMismatch]

\* The streams are those of the first lexemes.
LoadedInv ==
  /\ input \in Cases
  /\ pc \in {"load", "scan", "done"}
  /\ pc # "load" => /\ du = LoadUpTo(input.du, input.max_bytes)
                    /\ target = LoadUpTo(input.target, input.max_bytes)

\* The scan ends with the tokens that end within the limit, then comes the report.
StreamsInv ==
  /\ LoadedInv
  /\ ti \in Nat
  /\ pc = "load" => ti = 0
  /\ pc # "load" => ti <= target_count
  /\ pc = "done" => ti = target_count
  /\ report = IF pc = "done" THEN LedgerReport ELSE [written |-> FALSE]

\* What is known of the streams once they are loaded.
LEMMA LoadedFacts ==
  ASSUME LoadedInv, pc # "load"
  PROVE  /\ input.raw \in Bytes /\ input.du \in Seq(Bytes) /\ input.target \in Seq(Bytes)
         /\ limit \in Nat /\ limit <= Len(input.raw) /\ limit <= input.max_bytes
         /\ limit = Min({Len(input.raw), Total(input.target, Len(input.target)),
                         Total(input.du, Len(input.du)), input.max_bytes})
         /\ \E n \in 0..Len(input.du) :
              /\ du = FirstOf(input.du, n) /\ limit <= Total(input.du, n)
         /\ \E m \in 0..Len(input.target) :
              /\ target = FirstOf(input.target, m) /\ limit <= Total(input.target, m)
<1>1. /\ input.raw \in Bytes /\ input.du \in Seq(Bytes) /\ input.target \in Seq(Bytes)
      /\ input.max_bytes \in Nat /\ Len(input.raw) \in Nat
  BY CasesAssumption DEF LoadedInv, Bytes
<1>2. du = LoadUpTo(input.du, input.max_bytes) /\ target = LoadUpTo(input.target, input.max_bytes)
  BY DEF LoadedInv
<1>3. PICK n \in 0..Len(input.du) :
        /\ LoadUpTo(input.du, input.max_bytes) = FirstOf(input.du, n)
        /\ n = Len(input.du) \/ Total(input.du, n) >= input.max_bytes
  BY <1>1, LoadsFirst
<1>4. PICK m \in 0..Len(input.target) :
        /\ LoadUpTo(input.target, input.max_bytes) = FirstOf(input.target, m)
        /\ m = Len(input.target) \/ Total(input.target, m) >= input.max_bytes
  BY <1>1, LoadsFirst
<1> DEFINE D == Total(input.du, n)
           D_all == Total(input.du, Len(input.du))
           T == Total(input.target, m)
           T_all == Total(input.target, Len(input.target))
<1>5. Last(du.bounds) = D /\ Last(target.bounds) = T
  BY <1>1, <1>2, <1>3, <1>4, FirstFacts, SMTT(40)
<1>6. D \in Nat /\ D_all \in Nat /\ D <= D_all
  <2>1. n \in 0..Len(input.du) /\ Len(input.du) \in 0..Len(input.du) /\ n <= Len(input.du)
    BY <1>1
  <2> QED
    BY <1>1, <2>1, TotalFacts
<1>7. T \in Nat /\ T_all \in Nat /\ T <= T_all
  <2>1. m \in 0..Len(input.target) /\ Len(input.target) \in 0..Len(input.target)
        /\ m <= Len(input.target)
    BY <1>1
  <2> QED
    BY <1>1, <2>1, TotalFacts
<1>8. (D = D_all \/ D >= input.max_bytes) /\ (T = T_all \/ T >= input.max_bytes)
  BY <1>3, <1>4
<1> HIDE DEF D, D_all, T, T_all
<1>9. limit = Min({Len(input.raw), T, D, input.max_bytes})
  BY <1>5 DEF limit
<1>10. limit \in Nat /\ limit <= Len(input.raw) /\ limit <= T /\ limit <= D /\ limit <= input.max_bytes
  BY <1>1, <1>6, <1>7, <1>9, LeastOfFour
<1>11. limit = Min({Len(input.raw), T_all, D_all, input.max_bytes})
  <2> DEFINE w == Min({Len(input.raw), T_all, D_all, input.max_bytes})
  <2>1. /\ w \in Nat /\ w \in {Len(input.raw), T_all, D_all, input.max_bytes}
        /\ w <= Len(input.raw) /\ w <= T_all /\ w <= D_all /\ w <= input.max_bytes
    BY <1>1, <1>6, <1>7, LeastOfFour
  <2>2. limit \in {Len(input.raw), T, D, input.max_bytes}
    BY <1>1, <1>6, <1>7, <1>9, LeastOfFour
  <2> HIDE DEF w
  <2>3. limit <= w
    BY <1>1, <1>6, <1>7, <1>10, <2>1
  <2>4. w <= limit
    BY <1>1, <1>6, <1>7, <1>8, <2>1, <2>2
  <2> QED
    BY <1>10, <2>1, <2>3, <2>4 DEF w
<1>12. \E k \in 0..Len(input.du) : du = FirstOf(input.du, k) /\ limit <= Total(input.du, k)
  BY <1>2, <1>3, <1>10 DEF D
<1>13. \E k \in 0..Len(input.target) :
         target = FirstOf(input.target, k) /\ limit <= Total(input.target, k)
  BY <1>2, <1>4, <1>10 DEF T
<1>14. limit = Min({Len(input.raw), Total(input.target, Len(input.target)),
                   Total(input.du, Len(input.du)), input.max_bytes})
  BY <1>11 DEF D_all, T_all
<1> QED
  BY <1>1, <1>10, <1>12, <1>13, <1>14, Zenon

\* The tokens that end within the limit.
LEMMA TestedFacts ==
  ASSUME LoadedInv, pc # "load", NEW m \in 0..Len(input.target), target = FirstOf(input.target, m)
  PROVE  /\ target_count \in 0..m
         /\ \A k \in 1..m : Total(input.target, k) <= limit <=> k <= target_count
<1>1. input.target \in Seq(Bytes) /\ limit \in Nat
  BY LoadedFacts
<1> DEFINE U == UpperBound(target.bounds, limit)
<1>2. U \in 1..(m + 1) /\ \A i \in 0..m : Total(input.target, i) <= limit <=> i < U
  BY <1>1, SearchFacts
<1>3. target_count = SaturatingSub(U, 1)
  BY DEF target_count, WholeTokens
<1> HIDE DEF U
<1>4. target_count = U - 1 /\ m \in Nat
  BY <1>1, <1>2, <1>3 DEF SaturatingSub
<1>5. \A k \in 1..m : k \in 0..m /\ (k < U <=> k <= U - 1)
  BY <1>2, <1>4
<1> QED
  BY <1>2, <1>4, <1>5

\* The target token about to be placed, and what ScanToken finds of it.
From == target.bounds[ti + 1]
To == target.bounds[ti + 2]
Covering == TargetDuSpan(du.bounds, From, To)
Within == Range(SubSeq(du.bounds, 1, Min({du_count, Len(du.bounds) - 1}) + 1))
FromIsBound == Covering.starts /\ From \in Within
ToIsBound == Covering.ends /\ To \in Within

\* Where the k-th target token lies in the whole DU run.
Place(k) == Record(Whole(input.target).tokens[k], Whole(input.du))
ExactTokens == {k \in Nat : Place(k).starts /\ Place(k).ends}
CutAtStart == {k \in Nat : ~Place(k).starts}
CutAtEnd == {k \in Nat : ~Place(k).ends}

\* A target token that does not both begin and end at a bound of the DU stream.
Inexact(k) == {target.bounds[k + 1], target.bounds[k + 2]} \cap Range(du.bounds)
              # {target.bounds[k + 1], target.bounds[k + 2]}

\* What ScanToken does, in these words.
LEMMA ScanIs ==
  ASSUME ScanToken
  PROVE  /\ pc = "scan" /\ ti < target_count /\ ti' = ti + 1
         /\ counts' = Count(Covering, FromIsBound, ToIsBound)
         /\ samples' = IF ~(FromIsBound /\ ToIsBound) /\ Room
                       THEN Append(samples, Sample(Covering)) ELSE samples
         /\ UNCHANGED <<input, pc, du, target, report>>
BY DEF ScanToken, Covering, FromIsBound, ToIsBound, From, To, Within

\* What the scan finds of a token is its place in the whole DU run.
LEMMA ScanFacts ==
  ASSUME StreamsInv, pc = "scan", ti < target_count
  PROVE  /\ ti + 1 \in 1..Len(input.target)
         /\ FromIsBound <=> Place(ti + 1).starts
         /\ ToIsBound <=> Place(ti + 1).ends
         /\ Covering.count = Cardinality(Place(ti + 1).covered) /\ Covering.count \in Nat
         /\ Covering.start \in Nat /\ Covering.end \in Nat /\ Covering.end <= Len(du.ids)
         /\ Len(du.ids) \in Nat
         /\ FromIsBound /\ ToIsBound <=> ~Inexact(ti)
         /\ Inexact(ti) => Covering.start < Covering.end
<1>1. pc # "load" /\ ti \in Nat /\ LoadedInv
  BY DEF StreamsInv
<1>2. input.du \in Seq(Bytes) /\ input.target \in Seq(Bytes) /\ limit \in Nat
  BY <1>1, LoadedFacts
<1>3. PICK n \in 0..Len(input.du) : du = FirstOf(input.du, n) /\ limit <= Total(input.du, n)
  BY <1>1, LoadedFacts
<1>4. PICK m \in 0..Len(input.target) : target = FirstOf(input.target, m)
  BY <1>1, LoadedFacts
<1>5. /\ target_count \in 0..m
      /\ \A k \in 1..m : Total(input.target, k) <= limit <=> k <= target_count
  BY <1>1, <1>4, TestedFacts
<1>6. ti + 1 \in 1..m /\ ti + 1 \in 1..(m + 1) /\ ti + 2 \in 1..(m + 1) /\ ti + 1 <= target_count
      /\ (ti + 1) - 1 = ti /\ (ti + 2) - 1 = ti + 1 /\ ti + 1 \in 1..Len(input.target)
      /\ Len(input.target) \in Nat
  BY <1>1, <1>2, <1>5
<1>7. \A k \in 1..(m + 1) : target.bounds[k] = Total(input.target, k - 1)
  BY <1>2, <1>4, FirstFacts
<1>8. From = Total(input.target, ti) /\ To = Total(input.target, ti + 1)
  BY <1>6, <1>7 DEF From, To
<1>9. From \in Nat /\ To \in Nat /\ From <= To /\ To <= limit /\ From <= limit
  <2>1. ti \in 0..Len(input.target) /\ ti + 1 \in 0..Len(input.target) /\ ti <= ti + 1
    BY <1>1, <1>6
  <2>2. From \in Nat /\ To \in Nat /\ From <= To
    BY <1>2, <1>8, <2>1, TotalFacts
  <2>3. To <= limit
    BY <1>5, <1>6, <1>8
  <2> QED
    BY <1>2, <2>2, <2>3
<1> DEFINE t == [byte_start |-> From, byte_end |-> To]
           D == Whole(input.du)
<1>10. To <= Total(input.du, n) /\ Len(du.ids) = n /\ n \in Nat
  <2>1. Total(input.du, n) \in Nat /\ Len(du.ids) = n
    BY <1>2, <1>3, FirstFacts
  <2> QED
    BY <1>2, <1>3, <1>9, <2>1
<1>11. /\ Covering.starts <=> From \in Boundaries(D)
       /\ Covering.ends <=> To \in Boundaries(D)
       /\ Covering.count = Cardinality(CoveredBy(t, D)) /\ Covering.count \in Nat
       /\ Covering.start \in Nat /\ Covering.end \in Nat /\ Covering.end <= n
       /\ ~(Covering.starts /\ Covering.ends) => Covering.start < Covering.end
  <2>1. Covering = TargetDuSpan(FirstOf(input.du, n).bounds, From, To)
    BY <1>3 DEF Covering
  <2> HIDE DEF D
  <2> QED
    BY <1>2, <1>9, <1>10, <2>1, PlaceFacts DEF D
<1>12. /\ Place(ti + 1).covered = CoveredBy(t, D)
       /\ Place(ti + 1).starts <=> From \in Boundaries(D)
       /\ Place(ti + 1).ends <=> To \in Boundaries(D)
  <2>1. /\ Whole(input.target).tokens[ti + 1].byte_start = From
        /\ Whole(input.target).tokens[ti + 1].byte_end = To
    BY <1>2, <1>6, <1>8, WholeFacts
  <2> HIDE DEF D
  <2>2. CoveredBy(Whole(input.target).tokens[ti + 1], D) = CoveredBy(t, D)
    BY <2>1 DEF CoveredBy, Intersects
  <2>3. /\ Place(ti + 1).covered = CoveredBy(Whole(input.target).tokens[ti + 1], D)
        /\ Place(ti + 1).starts <=> Whole(input.target).tokens[ti + 1].byte_start \in Boundaries(D)
        /\ Place(ti + 1).ends <=> Whole(input.target).tokens[ti + 1].byte_end \in Boundaries(D)
    BY RecordFields, Zenon DEF Place, D
  <2> HIDE DEF t
  <2> QED
    BY <2>1, <2>2, <2>3, Zenon
<1>13. \A x \in Nat : x <= limit => (x \in Within <=> x \in Range(du.bounds))
  <2>1. du_count = SaturatingSub(UpperBound(FirstOf(input.du, n).bounds, limit), 1)
    BY <1>3 DEF du_count, WholeTokens
  <2>2. Within = Range(SubSeq(FirstOf(input.du, n).bounds, 1,
                              Min({SaturatingSub(UpperBound(FirstOf(input.du, n).bounds, limit), 1),
                                   Len(FirstOf(input.du, n).bounds) - 1}) + 1))
    BY <1>3, <2>1 DEF Within
  <2> QED
    BY <1>2, <1>3, <2>2, WithinFacts
<1>14. /\ Covering.starts <=> From \in Range(du.bounds)
       /\ Covering.ends <=> To \in Range(du.bounds)
  BY DEF Covering, TargetDuSpan
<1>15. (FromIsBound <=> Covering.starts) /\ (ToIsBound <=> Covering.ends)
  BY <1>9, <1>13, <1>14, Zenon DEF FromIsBound, ToIsBound
<1>16. Inexact(ti) <=> ~(From \in Range(du.bounds) /\ To \in Range(du.bounds))
  BY DEF Inexact, From, To
<1> HIDE DEF t, D
<1> QED
  BY <1>6, <1>10, <1>11, <1>12, <1>14, <1>15, <1>16, Zenon
-----------------------------------------------------------------------------
SampleType == [target_pos : Nat, du_start_pos : Nat, du_end_pos_exclusive : Nat,
               context_start : Nat, context_end : Nat]

\* The largest of the DU counts so far, 0 before there is one.
DuSpans(n) == {0} \cup {Cardinality(Place(k).covered) : k \in 1..n}

\* The tokens among the first n that are not exact.
Cuts(n) == {k \in 0..(n - 1) : Inexact(k)}

\* The i-th sample is the i-th of these, and its context is in the DU stream.
SampleOK(s, i, cuts, du_len) ==
  /\ s.target_pos \in cuts
  /\ Cardinality({k \in cuts : k < s.target_pos}) = i - 1
  /\ s.du_start_pos < s.du_end_pos_exclusive
  /\ s.context_start <= s.du_start_pos
  /\ s.du_end_pos_exclusive <= s.context_end
  /\ s.context_end <= du_len

SamplesFit(kept, cuts, du_len) ==
  /\ Len(kept) = Min({Cardinality(cuts), SampleCap})
  /\ \A i \in 1..Len(kept) : SampleOK(kept[i], i, cuts, du_len)

\* SamplesAreFirstCuts, in these words.
LEMMA SamplesMean ==
  SamplesAreFirstCuts <=> SamplesFit(samples, Cuts(ti), Len(du.ids))
BY Zenon DEF SamplesAreFirstCuts, SamplesFit, SampleOK, Cuts, Inexact

\* The counters are those of the tokens placed so far.
CountsOK ==
  /\ counts.exact = Cardinality({k \in 1..ti : k \in ExactTokens})
  /\ counts.cut_or_cross = Cardinality({k \in 1..ti : k \in Nat \ ExactTokens})
  /\ counts.start_inside = Cardinality({k \in 1..ti : k \in CutAtStart})
  /\ counts.end_inside = Cardinality({k \in 1..ti : k \in CutAtEnd})
  /\ counts.max_du_span \in Nat
  /\ counts.max_du_span \in DuSpans(ti)
  /\ \A x \in DuSpans(ti) : x \in Nat /\ x <= counts.max_du_span

SamplesOK == samples \in Seq(SampleType) /\ SamplesAreFirstCuts

LedgerInv == StreamsInv /\ CountsOK /\ SamplesOK

\* It holds before anything is loaded.
LEMMA InitLedger == Init => LedgerInv
<1> SUFFICES ASSUME Init PROVE LedgerInv
  OBVIOUS
<1>1. StreamsInv
  BY DEF Init, StreamsInv, LoadedInv
<1>2. CountsOK
  <2>1. /\ ti = 0 /\ counts.exact = 0 /\ counts.cut_or_cross = 0 /\ counts.max_du_span = 0
        /\ counts.start_inside = 0 /\ counts.end_inside = 0
    BY DEF Init, NoCounts
  <2>2. /\ {k \in 1..0 : k \in ExactTokens} = {}
        /\ {k \in 1..0 : k \in Nat \ ExactTokens} = {}
        /\ {k \in 1..0 : k \in CutAtStart} = {} /\ {k \in 1..0 : k \in CutAtEnd} = {}
        /\ DuSpans(0) = {0}
    BY DEF DuSpans
  <2>3. Cardinality({}) = 0
    BY FS_EmptySet
  <2> QED
    BY <2>1, <2>2, <2>3 DEF CountsOK
<1>3. SamplesOK
  <2>1. ti = 0 /\ samples = <<>>
    BY DEF Init
  <2>2. Cuts(ti) = {}
    BY <2>1 DEF Cuts
  <2>3. Min({0, SampleCap}) = 0
    <3>1. {0, SampleCap} \in SUBSET Nat
      BY CasesAssumption
    <3>2. Min({0, SampleCap}) \in Nat /\ Min({0, SampleCap}) <= 0
      BY <3>1, MinFacts
    <3> QED
      BY <3>2
  <2>4. Len(samples) = 0 /\ Cardinality({}) = 0 /\ samples \in Seq(SampleType)
    BY <2>1, FS_EmptySet
  <2>5. Len(samples) = Min({Cardinality(Cuts(ti)), SampleCap}) /\ 1..Len(samples) = {}
    BY <2>2, <2>3, <2>4
  <2>6. SamplesAreFirstCuts
    BY <2>5, SamplesMean DEF SamplesFit
  <2> QED
    BY <2>4, <2>6 DEF SamplesOK
<1> QED
  BY <1>1, <1>2, <1>3 DEF LedgerInv

\* Placing a token counts it among those placed.
LEMMA ScanCounts == StreamsInv /\ CountsOK /\ ScanToken => CountsOK'
<1> SUFFICES ASSUME StreamsInv, CountsOK, ScanToken PROVE CountsOK'
  OBVIOUS
<1>1. /\ pc = "scan" /\ ti < target_count /\ ti' = ti + 1 /\ ti \in Nat
      /\ counts' = Count(Covering, FromIsBound, ToIsBound)
      /\ UNCHANGED <<input, du, target>>
  BY ScanIs DEF StreamsInv
<1>2. /\ FromIsBound <=> Place(ti + 1).starts
      /\ ToIsBound <=> Place(ti + 1).ends
      /\ Covering.count = Cardinality(Place(ti + 1).covered) /\ Covering.count \in Nat
  BY <1>1, ScanFacts
<1>3. FromIsBound /\ ToIsBound <=> ti + 1 \in ExactTokens
  BY <1>1, <1>2 DEF ExactTokens
<1>4. /\ counts'.exact = counts.exact + (IF FromIsBound /\ ToIsBound THEN 1 ELSE 0)
      /\ counts'.cut_or_cross = counts.cut_or_cross + (IF FromIsBound /\ ToIsBound THEN 0 ELSE 1)
      /\ counts'.start_inside = counts.start_inside + (IF FromIsBound THEN 0 ELSE 1)
      /\ counts'.end_inside = counts.end_inside + (IF ToIsBound THEN 0 ELSE 1)
      /\ counts'.max_du_span = Max({counts.max_du_span, Covering.count})
  BY <1>1 DEF Count
<1>5. /\ Cardinality({k \in 1..ti : k \in ExactTokens}) \in Nat
      /\ Cardinality({k \in 1..(ti + 1) : k \in ExactTokens})
           = Cardinality({k \in 1..ti : k \in ExactTokens})
             + (IF ti + 1 \in ExactTokens THEN 1 ELSE 0)
  BY <1>1, OneMore
<1>6. /\ Cardinality({k \in 1..ti : k \in Nat \ ExactTokens}) \in Nat
      /\ Cardinality({k \in 1..(ti + 1) : k \in Nat \ ExactTokens})
           = Cardinality({k \in 1..ti : k \in Nat \ ExactTokens})
             + (IF ti + 1 \in Nat \ ExactTokens THEN 1 ELSE 0)
  BY <1>1, OneMore
<1>7. ti + 1 \in Nat /\ (ti + 1 \in Nat \ ExactTokens <=> ~(ti + 1 \in ExactTokens))
  BY <1>1
<1>8. /\ ExactTokens' = ExactTokens /\ CutAtStart' = CutAtStart /\ CutAtEnd' = CutAtEnd
      /\ \A n : (DuSpans(n))' = DuSpans(n)
  BY <1>1 DEF ExactTokens, CutAtStart, CutAtEnd, DuSpans, Place
<1>9. counts'.exact = Cardinality({k \in 1..ti' : k \in ExactTokens'})
  <2>1. counts.exact = Cardinality({k \in 1..ti : k \in ExactTokens})
    BY DEF CountsOK
  <2>2. (IF FromIsBound /\ ToIsBound THEN 1 ELSE 0) = (IF ti + 1 \in ExactTokens THEN 1 ELSE 0)
    BY <1>3, Zenon
  <2>3. counts'.exact = Cardinality({k \in 1..(ti + 1) : k \in ExactTokens})
    BY <1>4, <1>5, <2>1, <2>2, Zenon
  <2> QED
    BY <1>1, <1>8, <2>3, Zenon
<1>10. counts'.cut_or_cross = Cardinality({k \in 1..ti' : k \in Nat \ ExactTokens'})
  <2>1. counts.cut_or_cross = Cardinality({k \in 1..ti : k \in Nat \ ExactTokens})
    BY DEF CountsOK
  <2>2. (IF FromIsBound /\ ToIsBound THEN 0 ELSE 1)
          = (IF ti + 1 \in Nat \ ExactTokens THEN 1 ELSE 0)
    BY <1>3, <1>7, Zenon
  <2>3. counts'.cut_or_cross = Cardinality({k \in 1..(ti + 1) : k \in Nat \ ExactTokens})
    BY <1>4, <1>6, <2>1, <2>2, Zenon
  <2> QED
    BY <1>1, <1>8, <2>3, Zenon
<1>11. /\ counts'.max_du_span \in Nat
       /\ counts'.max_du_span \in (DuSpans(ti))'
       /\ \A x \in (DuSpans(ti))' : x \in Nat /\ x <= counts'.max_du_span
  <2> DEFINE new == Cardinality(Place(ti + 1).covered)
             old == counts.max_du_span
  <2>1. old \in Nat /\ old \in DuSpans(ti) /\ \A x \in DuSpans(ti) : x \in Nat /\ x <= old
    BY DEF CountsOK
  <2>2. new \in Nat /\ Covering.count = new
    BY <1>2
  <2>3. DuSpans(ti + 1) = DuSpans(ti) \cup {new}
    <3>1. 1..(ti + 1) = 1..ti \cup {ti + 1}
      BY <1>1
    <3> QED
      BY <3>1 DEF DuSpans
  <2>4. (DuSpans(ti))' = DuSpans(ti + 1)
    BY <1>1 DEF DuSpans, Place
  <2> HIDE DEF new, old
  <2>5. counts'.max_du_span = Max({old, new})
    BY <1>4, <2>2 DEF old
  <2>6. Max({old, new}) \in {old, new} /\ old <= Max({old, new}) /\ new <= Max({old, new})
    <3>1. \E m \in {old, new} : \A x \in {old, new} : m >= x
      BY <2>1, <2>2
    <3>2. Max({old, new}) \in {old, new} /\ \A x \in {old, new} : Max({old, new}) >= x
      BY <3>1 DEF Max
    <3> QED
      BY <2>1, <2>2, <3>2
  <2> DEFINE max == Max({old, new})
  <2> HIDE DEF max
  <2>7. max \in Nat /\ max \in DuSpans(ti) \cup {new}
    BY <2>1, <2>2, <2>6 DEF max
  <2>8. ASSUME NEW x \in DuSpans(ti) \cup {new} PROVE x \in Nat /\ x <= max
    <3>1. old <= max /\ new <= max
      BY <2>6 DEF max
    <3>2. CASE x = new
      BY <2>2, <3>1, <3>2
    <3>3. CASE x \in DuSpans(ti)
      <4>1. x <= old /\ x \in Nat
        BY <2>1, <3>3
      <4> QED
        BY <2>1, <2>7, <3>1, <4>1
    <3> QED
      BY <2>8, <3>2, <3>3
  <2> QED
    BY <2>3, <2>4, <2>5, <2>7, <2>8 DEF max
<1>12. counts'.start_inside = Cardinality({k \in 1..ti' : k \in CutAtStart'})
  <2>1. counts.start_inside = Cardinality({k \in 1..ti : k \in CutAtStart})
    BY DEF CountsOK
  <2>2. ti + 1 \in CutAtStart <=> ~FromIsBound
    BY <1>2, <1>7 DEF CutAtStart
  <2>3. (IF FromIsBound THEN 0 ELSE 1) = (IF ti + 1 \in CutAtStart THEN 1 ELSE 0)
    BY <2>2, Zenon
  <2>4. Cardinality({k \in 1..(ti + 1) : k \in CutAtStart})
          = Cardinality({k \in 1..ti : k \in CutAtStart}) + (IF ti + 1 \in CutAtStart THEN 1 ELSE 0)
    BY <1>1, OneMore
  <2>5. counts'.start_inside = Cardinality({k \in 1..(ti + 1) : k \in CutAtStart})
    BY <1>4, <2>1, <2>3, <2>4, Zenon
  <2> QED
    BY <1>1, <1>8, <2>5, Zenon
<1>13. counts'.end_inside = Cardinality({k \in 1..ti' : k \in CutAtEnd'})
  <2>1. counts.end_inside = Cardinality({k \in 1..ti : k \in CutAtEnd})
    BY DEF CountsOK
  <2>2. ti + 1 \in CutAtEnd <=> ~ToIsBound
    BY <1>2, <1>7 DEF CutAtEnd
  <2>3. (IF ToIsBound THEN 0 ELSE 1) = (IF ti + 1 \in CutAtEnd THEN 1 ELSE 0)
    BY <2>2, Zenon
  <2>4. Cardinality({k \in 1..(ti + 1) : k \in CutAtEnd})
          = Cardinality({k \in 1..ti : k \in CutAtEnd}) + (IF ti + 1 \in CutAtEnd THEN 1 ELSE 0)
    BY <1>1, OneMore
  <2>5. counts'.end_inside = Cardinality({k \in 1..(ti + 1) : k \in CutAtEnd})
    BY <1>4, <2>1, <2>3, <2>4, Zenon
  <2> QED
    BY <1>1, <1>8, <2>5, Zenon
<1> QED
  BY <1>9, <1>10, <1>11, <1>12, <1>13, Zenon DEF CountsOK

\* What is sampled of a token that is not exact.
LEMMA SampleFacts ==
  ASSUME StreamsInv, pc = "scan", ti < target_count, Inexact(ti)
  PROVE  LET s == Sample(Covering)
         IN  /\ s \in SampleType /\ s.target_pos = ti
             /\ s.du_start_pos < s.du_end_pos_exclusive
             /\ s.context_start <= s.du_start_pos
             /\ s.du_end_pos_exclusive <= s.context_end
             /\ s.context_end <= Len(du.ids)
<1> DEFINE s == Sample(Covering)
           first == Covering.start
           end == Covering.end
           len == Len(du.ids)
<1>1. first \in Nat /\ end \in Nat /\ len \in Nat /\ end <= len /\ first < end /\ ti \in Nat
  BY ScanFacts DEF StreamsInv
<1>2. s = [target_pos |-> ti, du_start_pos |-> first, du_end_pos_exclusive |-> end,
           context_start |-> SaturatingSub(first, 3), context_end |-> Min({end + 3, len})]
  BY DEF Sample
<1> HIDE DEF s, first, end, len
<1>3. SaturatingSub(first, 3) \in Nat /\ SaturatingSub(first, 3) <= first
  BY <1>1 DEF SaturatingSub
<1>4. Min({end + 3, len}) \in Nat /\ Min({end + 3, len}) <= len /\ end <= Min({end + 3, len})
  <2>1. {end + 3, len} \in SUBSET Nat
    BY <1>1
  <2>2. Min({end + 3, len}) \in {end + 3, len} /\ Min({end + 3, len}) <= len
    BY <2>1, MinFacts
  <2> QED
    BY <1>1, <2>2
<1>5. s \in SampleType
  BY <1>1, <1>2, <1>3, <1>4 DEF SampleType
<1> QED
  BY <1>1, <1>2, <1>3, <1>4, <1>5 DEF s, len

\* The tokens that are not exact, one at a time.
LEMMA CutsNext ==
  ASSUME ti \in Nat
  PROVE  /\ IsFiniteSet(Cuts(ti)) /\ Cardinality(Cuts(ti)) \in Nat /\ Cuts(ti) \subseteq 0..(ti - 1)
         /\ Inexact(ti) => /\ Cuts(ti + 1) = Cuts(ti) \cup {ti}
                           /\ Cardinality(Cuts(ti + 1)) = Cardinality(Cuts(ti)) + 1
         /\ ~Inexact(ti) => Cuts(ti + 1) = Cuts(ti)
<1>1. Cuts(ti) \subseteq 0..(ti - 1)
  BY DEF Cuts
<1>2. IsFiniteSet(Cuts(ti)) /\ Cardinality(Cuts(ti)) \in Nat
  <2>1. IsFiniteSet(0..(ti - 1))
    BY FS_Interval
  <2> QED
    BY <1>1, <2>1, FS_Subset, FS_CardinalityType
<1>3. Cuts(ti + 1) = {k \in 0..ti : Inexact(k)}
  <2>1. (ti + 1) - 1 = ti
    OBVIOUS
  <2> QED
    BY <2>1 DEF Cuts
<1>4. 0..ti = 0..(ti - 1) \cup {ti} /\ ~(ti \in 0..(ti - 1))
  OBVIOUS
<1>5. ASSUME Inexact(ti) PROVE Cuts(ti + 1) = Cuts(ti) \cup {ti}
  BY <1>3, <1>4, <1>5, Zenon DEF Cuts
<1>6. ASSUME ~Inexact(ti) PROVE Cuts(ti + 1) = Cuts(ti)
  BY <1>3, <1>4, <1>6, Zenon DEF Cuts
<1>7. Inexact(ti) => Cardinality(Cuts(ti + 1)) = Cardinality(Cuts(ti)) + 1
  <2>1. ~(ti \in Cuts(ti))
    BY <1>1, <1>4
  <2> QED
    BY <1>2, <1>5, <2>1, FS_AddElement
<1> QED
  BY <1>1, <1>2, <1>5, <1>6, <1>7

\* Another token keeps the samples right that were.
LEMMA SampleStays ==
  ASSUME ti \in Nat, NEW s, NEW i, SampleOK(s, i, Cuts(ti), Len(du.ids))
  PROVE  SampleOK(s, i, Cuts(ti + 1), Len(du.ids))
<1>1. s.target_pos \in Cuts(ti) /\ s.target_pos \in 0..(ti - 1)
  BY CutsNext DEF SampleOK
<1>2. s.target_pos \in Cuts(ti + 1)
  BY <1>1, CutsNext
<1>3. {k \in Cuts(ti + 1) : k < s.target_pos} = {k \in Cuts(ti) : k < s.target_pos}
  <2>1. Cuts(ti + 1) = Cuts(ti) \/ Cuts(ti + 1) = Cuts(ti) \cup {ti}
    BY CutsNext
  <2>2. ~(ti < s.target_pos)
    BY <1>1
  <2> QED
    BY <2>1, <2>2
<1> QED
  BY <1>2, <1>3, Zenon DEF SampleOK

\* Placing a token samples it if it is one of the first that are not exact.
LEMMA ScanSamples == StreamsInv /\ SamplesOK /\ ScanToken => SamplesOK'
<1> SUFFICES ASSUME StreamsInv, SamplesOK, ScanToken PROVE SamplesOK'
  OBVIOUS
<1> DEFINE cuts == Cuts(ti)
           cuts_next == Cuts(ti + 1)
           old == Cardinality(cuts)
           new == Cardinality(cuts_next)
           du_len == Len(du.ids)
           least(c) == Min({c, SampleCap})
           s == Sample(Covering)
<1>1. /\ pc = "scan" /\ ti < target_count /\ ti' = ti + 1 /\ ti \in Nat
      /\ samples' = IF ~(FromIsBound /\ ToIsBound) /\ Room THEN Append(samples, s) ELSE samples
      /\ UNCHANGED <<input, du, target>>
  BY ScanIs DEF StreamsInv
<1>2. FromIsBound /\ ToIsBound <=> ~Inexact(ti)
  BY <1>1, ScanFacts
<1>3. /\ samples \in Seq(SampleType)
      /\ Len(samples) = least(old)
      /\ \A i \in 1..Len(samples) : SampleOK(samples[i], i, cuts, du_len)
  BY SamplesMean DEF SamplesOK, SamplesFit
<1>4. ASSUME NEW c \in Nat PROVE least(c) = IF c < SampleCap THEN c ELSE SampleCap
  <2>1. {c, SampleCap} \in SUBSET Nat /\ SampleCap \in Nat
    BY CasesAssumption
  <2>2. /\ Min({c, SampleCap}) \in {c, SampleCap}
        /\ Min({c, SampleCap}) <= c /\ Min({c, SampleCap}) <= SampleCap
    BY <2>1, MinFacts
  <2> QED
    BY <2>1, <2>2
<1>5. SampleCap \in Nat /\ Len(samples) \in Nat
  BY <1>3, CasesAssumption
<1>6. /\ old \in Nat /\ cuts \subseteq 0..(ti - 1)
      /\ Inexact(ti) => cuts_next = cuts \cup {ti} /\ new = old + 1
      /\ ~Inexact(ti) => cuts_next = cuts /\ new = old
  BY <1>1, CutsNext
<1>7. \A i \in 1..Len(samples) : SampleOK(samples[i], i, cuts_next, du_len)
  BY <1>1, <1>3, SampleStays
<1>8. Inexact(ti) => /\ s \in SampleType /\ s.target_pos = ti
                     /\ s.du_start_pos < s.du_end_pos_exclusive
                     /\ s.context_start <= s.du_start_pos
                     /\ s.du_end_pos_exclusive <= s.context_end
                     /\ s.context_end <= du_len
  BY <1>1, SampleFacts
<1> HIDE DEF cuts, cuts_next, new, du_len, least, s
<1>9. old \in Nat /\ new \in Nat /\ Len(samples) = IF old < SampleCap THEN old ELSE SampleCap
  BY <1>3, <1>4, <1>6
<1>10. least(new) = IF new < SampleCap THEN new ELSE SampleCap
  BY <1>4, <1>9
<1> HIDE DEF old
<1>11. /\ samples' \in Seq(SampleType) /\ Len(samples') = least(new)
       /\ \A i \in 1..Len(samples') : SampleOK(samples'[i], i, cuts_next, du_len)
  <2>1. CASE Inexact(ti) /\ Room
    <3>1. samples' = Append(samples, s)
      BY <1>1, <1>2, <2>1, Zenon
    <3>2. /\ samples' \in Seq(SampleType) /\ Len(samples') = Len(samples) + 1
          /\ samples'[Len(samples) + 1] = s
          /\ \A i \in 1..Len(samples) : samples'[i] = samples[i]
      BY <1>3, <1>8, <2>1, <3>1
    <3>3. Len(samples) < SampleCap /\ Len(samples) = old
      <4>1. Len(samples) < SampleCap
        BY <2>1 DEF Room
      <4> QED
        BY <1>5, <1>9, <4>1
    <3>4. Len(samples') = least(new)
      BY <1>5, <1>6, <1>9, <1>10, <2>1, <3>2, <3>3
    <3>5. SampleOK(s, old + 1, cuts_next, du_len)
      <4>1. cuts_next = cuts \cup {ti} /\ cuts \subseteq 0..(ti - 1)
        BY <1>6, <2>1
      <4>2. {k \in cuts_next : k < s.target_pos} = cuts
        <5>1. s.target_pos = ti /\ ~(ti < ti) /\ \A k \in cuts : k < ti
          BY <1>1, <1>8, <2>1, <4>1
        <5> QED
          BY <4>1, <5>1
      <4>3. s.target_pos \in cuts_next /\ (old + 1) - 1 = old
        BY <1>9, <1>8, <2>1, <4>1
      <4>4. Cardinality({k \in cuts_next : k < s.target_pos}) = (old + 1) - 1
        BY <4>2, <4>3 DEF old
      <4> QED
        BY <1>8, <2>1, <4>3, <4>4 DEF SampleOK
    <3>6. ASSUME NEW i \in 1..Len(samples') PROVE SampleOK(samples'[i], i, cuts_next, du_len)
      <4>1. CASE i \in 1..Len(samples)
        <5>1. samples'[i] = samples[i] /\ SampleOK(samples[i], i, cuts_next, du_len)
          BY <1>7, <3>2, <4>1
        <5> QED
          BY <5>1, Zenon
      <4>2. CASE i = old + 1
        <5>1. samples'[i] = s
          BY <3>2, <3>3, <4>2
        <5> QED
          BY <3>5, <4>2, <5>1, Zenon
      <4>3. i \in 1..Len(samples) \/ i = old + 1
        BY <1>5, <3>2, <3>3
      <4> QED
        BY <4>1, <4>2, <4>3, Zenon
    <3> QED
      BY <3>2, <3>4, <3>6
  <2>2. CASE ~(Inexact(ti) /\ Room)
    <3>1. samples' = samples
      BY <1>1, <1>2, <2>2, Zenon
    <3>2. Len(samples) = least(new)
      <4>1. CASE ~Inexact(ti)
        BY <1>5, <1>6, <1>9, <1>10, <4>1
      <4>2. CASE Inexact(ti) /\ ~Room
        <5>1. ~(Len(samples) < SampleCap)
          BY <4>2 DEF Room
        <5> QED
          BY <1>5, <1>6, <1>9, <1>10, <4>2, <5>1
      <4> QED
        BY <2>2, <4>1, <4>2
    <3> QED
      BY <1>3, <1>7, <3>1, <3>2, Zenon
  <2> QED
    BY <2>1, <2>2
<1>12. (Cuts(ti))' = cuts_next /\ (Len(du.ids))' = du_len
  BY <1>1 DEF Cuts, Inexact, cuts_next, du_len
<1>13. SamplesFit(samples', (Cuts(ti))', (Len(du.ids))')
  BY <1>11, <1>12, Zenon DEF SamplesFit, least, new
<1>14. SamplesAreFirstCuts'
  BY <1>13, Zenon DEF SamplesAreFirstCuts, SamplesFit, SampleOK, Cuts, Inexact
<1> QED
  BY <1>11, <1>14 DEF SamplesOK
-----------------------------------------------------------------------------
\* The number of tokens to be tested is a number.
LEMMA CountIsNumber == LoadedInv /\ pc # "load" => target_count \in Nat
<1> SUFFICES ASSUME LoadedInv, pc # "load" PROVE target_count \in Nat
  OBVIOUS
<1>1. PICK m \in 0..Len(input.target) : target = FirstOf(input.target, m)
  BY LoadedFacts
<1> QED
  BY <1>1, TestedFacts

\* A step that leaves the ledger alone leaves the streams as they are.
LEMMA StreamsStay == StreamsInv /\ UNCHANGED vars => StreamsInv'
BY SMTT(40) DEF StreamsInv, LoadedInv, vars, LedgerReport, TargetMismatch, DuMismatch, Decoded,
   limit, target_count, du_count, WholeTokens

\* So do the counters.
LEMMA CountsStay == CountsOK /\ UNCHANGED vars => CountsOK'
BY DEF CountsOK, vars, ExactTokens, CutAtStart, CutAtEnd, DuSpans, Place

\* And the samples.
LEMMA SamplesStay == SamplesOK /\ UNCHANGED vars => SamplesOK'
BY DEF SamplesOK, SamplesAreFirstCuts, vars

\* Loading starts the scan, placing a token goes on with it, and the report
\* ends it.
LEMMA NextStreams == StreamsInv /\ Next => StreamsInv'
<1> SUFFICES ASSUME StreamsInv, Next PROVE StreamsInv'
  OBVIOUS
<1>1. CASE Load
  <2>1. LoadedInv' /\ pc = "load" /\ pc' = "scan" /\ ti' = ti /\ ti = 0 /\ report' = report
    BY <1>1 DEF Load, StreamsInv, LoadedInv
  <2>2. (LoadedInv /\ pc # "load" => target_count \in Nat)'
    BY CountIsNumber, PTL
  <2>3. target_count' \in Nat
    BY <2>1, <2>2
  <2> QED
    BY <2>1, <2>3 DEF StreamsInv
<1>2. CASE ScanToken
  <2>1. /\ pc = "scan" /\ ti < target_count /\ ti' = ti + 1
        /\ UNCHANGED <<input, pc, du, target, report>>
    BY <1>2, ScanIs
  <2>2. LoadedInv' /\ ti \in Nat /\ report = [written |-> FALSE] /\ target_count \in Nat
    BY <2>1, CountIsNumber DEF StreamsInv, LoadedInv
  <2>3. target_count' = target_count
    BY <2>1 DEF target_count, WholeTokens, limit
  <2> HIDE DEF target_count
  <2>4. ti' \in Nat /\ ti' <= target_count'
    BY <2>1, <2>2, <2>3
  <2> QED
    BY <2>1, <2>2, <2>4 DEF StreamsInv
<1>3. CASE Report
  <2>1. /\ pc = "scan" /\ ti >= target_count /\ pc' = "done" /\ report' = LedgerReport
        /\ UNCHANGED <<input, du, target, ti>>
    BY <1>3, Zenon DEF Report, LedgerReport, TargetMismatch, DuMismatch
  <2>2. LoadedInv' /\ ti \in Nat /\ ti <= target_count /\ target_count \in Nat
    BY <2>1, CountIsNumber DEF StreamsInv, LoadedInv
  <2>3. LedgerReport' = LedgerReport /\ target_count' = target_count
    BY <2>1 DEF LedgerReport, TargetMismatch, DuMismatch, Decoded, limit, target_count, du_count,
       WholeTokens
  <2>4. ti = target_count
    BY <2>1, <2>2
  <2> QED
    BY <2>1, <2>2, <2>3, <2>4 DEF StreamsInv
<1> QED
  BY <1>1, <1>2, <1>3 DEF Next

\* Every step of the command preserves the invariant.
LEMMA NextLedger ==
  LedgerInv /\ [CommandNext \/ CommandTerminated]_<<vars, fileVars>> => LedgerInv'
<1> SUFFICES ASSUME LedgerInv, [CommandNext \/ CommandTerminated]_<<vars, fileVars>>
             PROVE  LedgerInv'
  OBVIOUS
<1>1. CASE UNCHANGED vars
  BY <1>1, StreamsStay, CountsStay, SamplesStay DEF LedgerInv
<1>2. CASE Next
  <2>1. StreamsInv'
    BY <1>2, NextStreams DEF LedgerInv
  <2>2. CASE ScanToken
    BY <2>1, <2>2, ScanCounts, ScanSamples DEF LedgerInv
  <2>3. CASE Load
    <3>1. pc = "load" /\ ti = 0 /\ UNCHANGED <<input, ti, counts, samples>>
      BY <2>3 DEF Load, LedgerInv, StreamsInv
    <3>2. CountsOK'
      BY <3>1 DEF LedgerInv, CountsOK, ExactTokens, CutAtStart, CutAtEnd, DuSpans, Place
    <3>3. Cuts(ti) = {} /\ (Cuts(ti))' = {}
      BY <3>1 DEF Cuts
    <3>4. SamplesFit(samples, Cuts(ti), Len(du.ids))
      BY SamplesMean DEF LedgerInv, SamplesOK
    <3>5. Len(samples) = Min({Cardinality({}), SampleCap}) /\ samples \in Seq(SampleType)
      BY <3>3, <3>4 DEF SamplesFit, LedgerInv, SamplesOK
    <3>6. Len(samples) = 0
      <4>1. {0, SampleCap} \in SUBSET Nat /\ Cardinality({}) = 0
        BY CasesAssumption, FS_EmptySet
      <4>2. Min({0, SampleCap}) \in Nat /\ Min({0, SampleCap}) <= 0
        BY <4>1, MinFacts
      <4>3. Min({0, SampleCap}) = 0
        BY <4>2
      <4> QED
        BY <3>5, <4>1, <4>3
    <3>7. 1..Len(samples) = {}
      BY <3>6
    <3>8. SamplesFit(samples', (Cuts(ti))', (Len(du.ids))')
      BY <3>1, <3>3, <3>5, <3>7, ZenonT(60) DEF SamplesFit
    <3>9. SamplesAreFirstCuts'
      BY <3>8, Zenon DEF SamplesAreFirstCuts, SamplesFit, SampleOK, Cuts, Inexact
    <3> QED
      BY <2>1, <3>1, <3>2, <3>5, <3>9 DEF LedgerInv, SamplesOK
  <2>4. CASE Report
    <3>1. UNCHANGED <<input, du, target, ti, counts, samples>>
      BY <2>4, SMTT(40) DEF Report
    <3>2. CountsOK'
      BY <3>1 DEF LedgerInv, CountsOK, ExactTokens, CutAtStart, CutAtEnd, DuSpans, Place
    <3>3. SamplesOK'
      BY <3>1 DEF LedgerInv, SamplesOK, SamplesAreFirstCuts
    <3> QED
      BY <2>1, <3>2, <3>3, SMTT(40) DEF LedgerInv
  <2> QED
    BY <1>2, <2>2, <2>3, <2>4 DEF Next
<1> QED
  BY <1>1, <1>2 DEF CommandNext, CommandTerminated, vars

\* The invariant of the ledger holds throughout.
LEMMA LedgerInvariant == CommandSpec => []LedgerInv
<1>1. CommandInit => LedgerInv
  BY InitLedger DEF CommandInit
<1> QED
  BY <1>1, NextLedger, PTL DEF CommandSpec

\* The samples of the ledger are the first target tokens that are not exact, in
\* order, as many as are kept; each shows a nonempty part of the DU stream that
\* is there, so the slices that build its context never fail.
THEOREM FirstCutsSampled == CommandSpec => []SamplesAreFirstCuts
<1>1. LedgerInv => SamplesAreFirstCuts
  BY DEF LedgerInv, SamplesOK
<1> QED
  BY <1>1, LedgerInvariant, PTL

\* The ledger claims exact reconstruction exactly when the raw input and both
\* whole runs agree on the bytes tested, and a mismatch it reports is the first
\* byte at which they differ.
THEOREM ExactClaimsHold == CommandSpec => []ExactMeansSame
<1>1. LedgerInv => ExactMeansSame
  <2> SUFFICES ASSUME LedgerInv, report.written PROVE ExactMeansSame
    BY DEF ExactMeansSame
  <2>1. LoadedInv /\ pc = "done" /\ report = LedgerReport
    <3>1. StreamsInv
      BY DEF LedgerInv
    <3>2. pc # "done" => report = [written |-> FALSE]
      BY <3>1 DEF StreamsInv
    <3>3. pc = "done"
      BY <3>2
    <3> QED
      BY <3>1, <3>3 DEF StreamsInv
  <2> DEFINE raw == input.raw
             n == limit
             t == TargetMismatch
             d == DuMismatch
             same(lexemes, m) == Slice(FlattenSeq(lexemes), 0, m) = Slice(raw, 0, m)
  <2>2. /\ raw \in Bytes /\ input.du \in Seq(Bytes) /\ input.target \in Seq(Bytes)
        /\ n \in Nat /\ n <= Len(raw)
    BY <2>1, LoadedFacts
  <2>3. ASSUME NEW lexemes \in Seq(Bytes), NEW k \in 0..Len(lexemes), n <= Total(lexemes, k),
               NEW cut, cut = FirstOf(lexemes, k),
               NEW m, m = FirstMismatch(Decoded(cut), Slice(raw, 0, n))
        PROVE  /\ m = NoMismatch <=> same(lexemes, n)
               /\ m # NoMismatch => m < n /\ same(lexemes, m) /\ ~same(lexemes, m + 1)
    <3> DEFINE front == FlattenSeq(SubSeq(lexemes, 1, k))
               whole == FlattenSeq(lexemes)
    <3>1. /\ front \in Bytes /\ Len(front) = Total(lexemes, k) /\ whole \in Bytes
          /\ Len(front) <= Len(whole)
          /\ \A i \in Nat : i <= Len(front) => Slice(front, 0, i) = Slice(whole, 0, i)
      BY <2>3, FirstDecodes
    <3>2. Decoded(cut) = Slice(front, 0, n)
      BY <2>3, FirstFacts DEF Decoded
    <3> HIDE DEF n, raw, front, whole
    <3>3. Len(front) \in Nat /\ Len(whole) \in Nat /\ n <= Len(front) /\ n <= Len(whole)
      BY <2>2, <2>3, <3>1 DEF Bytes
    <3>4. Decoded(cut) = Slice(whole, 0, n)
      BY <2>2, <3>1, <3>2, <3>3
    <3>5. m = FirstMismatch(Slice(whole, 0, n), Slice(raw, 0, n))
      BY <2>3, <3>4
    <3>6. /\ m = NoMismatch <=> Slice(whole, 0, n) = Slice(raw, 0, n)
          /\ m # NoMismatch => /\ m \in Nat /\ m < n
                               /\ Slice(whole, 0, m) = Slice(raw, 0, m)
                               /\ Slice(whole, 0, m + 1) # Slice(raw, 0, m + 1)
      BY <2>2, <3>1, <3>3, <3>5, MismatchFacts
    <3> QED
      BY <3>6 DEF whole
  <2>4. /\ t = NoMismatch <=> same(input.target, n)
        /\ t # NoMismatch => t < n /\ same(input.target, t) /\ ~same(input.target, t + 1)
    <3>1. PICK k \in 0..Len(input.target) :
            target = FirstOf(input.target, k) /\ limit <= Total(input.target, k)
      BY <2>1, LoadedFacts
    <3>2. t = FirstMismatch(Decoded(target), Slice(raw, 0, n))
      BY DEF TargetMismatch
    <3> HIDE DEF t, same
    <3> QED
      BY <2>2, <2>3, <3>1, <3>2
  <2>5. /\ d = NoMismatch <=> same(input.du, n)
        /\ d # NoMismatch => d < n /\ same(input.du, d) /\ ~same(input.du, d + 1)
    <3>1. PICK k \in 0..Len(input.du) :
            du = FirstOf(input.du, k) /\ limit <= Total(input.du, k)
      BY <2>1, LoadedFacts, ZenonT(60)
    <3>2. d = FirstMismatch(Decoded(du), Slice(raw, 0, n))
      BY Zenon DEF DuMismatch
    <3> HIDE DEF d, same
    <3> QED
      BY <2>2, <2>3, <3>1, <3>2
  <2>6. /\ report.bytes_tested = n /\ report.target_decode_first_mismatch = t
        /\ report.du_decode_first_mismatch = d
        /\ report.exact_reconstruction = (t = NoMismatch /\ d = NoMismatch)
    BY <2>1, SMTT(40) DEF LedgerReport
  <2> HIDE DEF n, t, d
  <2> QED
    BY <2>4, <2>5, <2>6, Zenon DEF ExactMeansSame
<1> QED
  BY <1>1, LedgerInvariant, PTL

\* Nothing in the report shows that the runs were cut off at max_bytes: bytes
\* and tokens tested, and the counts, are those of the whole runs, for lexemes
\* of any length, empty ones included.
THEOREM CutOffNeverSeen == CommandSpec => []CutOffUnseen
<1>1. LedgerInv => CutOffUnseen
  <2> SUFFICES ASSUME LedgerInv, report.written PROVE CutOffUnseen
    BY DEF CutOffUnseen
  <2>1. /\ LoadedInv /\ pc = "done" /\ report = LedgerReport /\ ti = target_count /\ ti \in Nat
        /\ CountsOK
    <3>1. StreamsInv /\ CountsOK
      BY DEF LedgerInv
    <3>2. pc # "done" => report = [written |-> FALSE]
      BY <3>1 DEF StreamsInv
    <3>3. pc = "done"
      BY <3>2
    <3> QED
      BY <3>1, <3>3 DEF StreamsInv
  <2> DEFINE T == input.target
             whole_du == Whole(input.du)
             whole_target == Whole(T)
             tested_bytes == Min({Len(input.raw), whole_target.raw_len, whole_du.raw_len,
                           input.max_bytes})
             tested == 1..report.target_tokens_tested
             place == [k \in tested |-> Record(whole_target.tokens[k], whole_du)]
             exact == {k \in tested : place[k].starts /\ place[k].ends}
  <2>2. report.bytes_tested = limit /\ report.target_tokens_tested = ti /\ tested = 1..ti
    BY <2>1 DEF LedgerReport
  <2>3. /\ T \in Seq(Bytes) /\ input.du \in Seq(Bytes) /\ limit \in Nat
        /\ limit = Min({Len(input.raw), Total(T, Len(T)),
                        Total(input.du, Len(input.du)), input.max_bytes})
    BY <2>1, LoadedFacts
  <2>4. /\ whole_target.raw_len = Total(T, Len(T))
        /\ whole_du.raw_len = Total(input.du, Len(input.du))
        /\ \A k \in 1..Len(T) : /\ whole_target.tokens[k].byte_start = Total(T, k - 1)
                                /\ whole_target.tokens[k].byte_end = Total(T, k)
    BY <2>3, WholeFacts
  <2>5. tested_bytes = limit
    <3> HIDE DEF whole_target, whole_du
    <3> QED
      BY <2>3, <2>4
  <2>6. PICK m \in 0..Len(T) : target = FirstOf(T, m) /\ limit <= Total(T, m)
    BY <2>1, LoadedFacts
  <2>7. ti \in 0..m /\ \A k \in 1..m : Total(T, k) <= limit <=> k <= ti
    BY <2>1, <2>6, TestedFacts
  <2>8. ASSUME NEW k \in 1..Len(T)
        PROVE  IF k \in tested THEN whole_target.tokens[k].byte_end <= limit
               ELSE \/ whole_target.tokens[k].byte_end > limit
                    \/ whole_target.tokens[k].byte_start = limit
    <3> DEFINE start == whole_target.tokens[k].byte_start
               end == whole_target.tokens[k].byte_end
    <3>1. start = Total(T, k - 1) /\ end = Total(T, k)
      BY <2>4
    <3>2. Len(T) \in Nat /\ k - 1 \in 0..Len(T) /\ k \in 0..Len(T) /\ k - 1 <= k /\ m \in Nat
          /\ m <= Len(T)
      BY <2>3, <2>6
    <3>3. start \in Nat /\ end \in Nat /\ start <= end
      BY <2>3, <3>1, <3>2, TotalFacts
    <3>4. k \in tested <=> k <= ti
      BY <2>1, <2>2
    <3> HIDE DEF start, end, tested
    <3>5. CASE k <= m
      <4>1. end <= limit <=> k <= ti
        BY <2>7, <3>1, <3>2, <3>5
      <4> QED
        BY <2>3, <3>3, <3>4, <4>1 DEF start, end
    <3>6. CASE k > m
      <4>1. ~(k \in tested)
        BY <2>7, <3>2, <3>4, <3>6
      <4>2. Total(T, m) <= start /\ Total(T, m) \in Nat
        <5>1. m <= k - 1 /\ m \in 0..Len(T)
          BY <3>2, <3>6
        <5> QED
          BY <2>3, <3>1, <3>2, <5>1, TotalFacts
      <4>3. end > limit \/ start = limit
        BY <2>3, <2>6, <3>3, <4>2
      <4> QED
        BY <4>1, <4>3 DEF start, end
    <3> QED
      BY <3>2, <3>5, <3>6
  <2>9. /\ exact = {k \in 1..ti : k \in ExactTokens}
        /\ tested \ exact = {k \in 1..ti : k \in Nat \ ExactTokens}
        /\ {k \in tested : ~place[k].starts} = {k \in 1..ti : k \in CutAtStart}
        /\ {k \in tested : ~place[k].ends} = {k \in 1..ti : k \in CutAtEnd}
    <3>1. \A k \in 1..ti : place[k] = Place(k) /\ k \in Nat
      BY <2>1, <2>2 DEF Place
    <3> HIDE DEF place, tested
    <3>2. exact = {k \in 1..ti : k \in ExactTokens}
      BY <2>2, <3>1, Zenon DEF ExactTokens
    <3>3. /\ {k \in tested : ~place[k].starts} = {k \in 1..ti : k \in CutAtStart}
          /\ {k \in tested : ~place[k].ends} = {k \in 1..ti : k \in CutAtEnd}
      BY <2>2, <3>1, Zenon DEF CutAtStart, CutAtEnd
    <3> HIDE DEF exact
    <3> QED
      BY <2>2, <3>1, <3>2, <3>3
  <2>10. {0} \cup {Cardinality(place[k].covered) : k \in tested} = DuSpans(ti)
    <3>1. \A k \in tested : place[k] = Place(k)
      BY DEF Place
    <3> HIDE DEF place, tested
    <3> QED
      BY <2>2, <3>1 DEF DuSpans
  <2>11. Max(DuSpans(ti)) = counts.max_du_span
    <3> DEFINE S == DuSpans(ti)
               m_du == counts.max_du_span
    <3>1. m_du \in S /\ m_du \in Nat /\ \A x \in S : x \in Nat /\ x <= m_du
      BY <2>1 DEF CountsOK
    <3> HIDE DEF S, m_du
    <3>2. \A x \in S : m_du >= x
      BY <3>1
    <3>3. Max(S) \in S /\ \A x \in S : Max(S) >= x
      BY <3>1, <3>2 DEF Max
    <3>4. Max(S) \in Nat /\ Max(S) <= m_du /\ Max(S) >= m_du
      BY <3>1, <3>3
    <3> QED
      BY <3>1, <3>4 DEF S, m_du
  <2>12. /\ counts.exact = Cardinality(exact)
         /\ counts.cut_or_cross = Cardinality(tested \ exact)
         /\ counts.start_inside = Cardinality({k \in tested : ~place[k].starts})
         /\ counts.end_inside = Cardinality({k \in tested : ~place[k].ends})
         /\ counts.max_du_span = Max({0} \cup {Cardinality(place[k].covered) : k \in tested})
    <3> HIDE DEF exact, tested, place
    <3> QED
      BY <2>1, <2>9, <2>10, <2>11 DEF CountsOK
  <2>13. \A k \in 1..Len(T) :
           IF k \in tested THEN whole_target.tokens[k].byte_end <= tested_bytes
           ELSE \/ whole_target.tokens[k].byte_end > tested_bytes
                \/ whole_target.tokens[k].byte_start = tested_bytes
    <3> HIDE DEF tested, whole_target, tested_bytes
    <3> QED
      BY <2>5, <2>8
  <2>14. report.bytes_tested = tested_bytes
    BY <2>2, <2>5, Zenon
  <2> QED
    BY <2>12, <2>13, <2>14, ZenonT(60) DEF CutOffUnseen
<1> QED
  BY <1>1, LedgerInvariant, PTL
-----------------------------------------------------------------------------
\* The value of a word: each byte counts 256 times less than the one behind it.
LEMMA LittleEndianStepwise ==
  ASSUME NEW word, Len(word) \in Nat, DOMAIN word = 1..Len(word)
  PROVE  \E g : /\ g[Len(word) + 1] = 0
                /\ \A k \in 1..Len(word) : g[k] = word[k] + 256 * g[k + 1]
                /\ LittleEndian(word) = g[1]
<1> DEFINE n == Len(word)
           least(s) == word[Min(s)]
           others(s) == s \ {Min(s)}
           dom(m) == SUBSET ((n - m + 1)..n)
           value(f, s) == IF s = {} THEN 0 ELSE least(s) + 256 * f[others(s)]
           Solves(f, m) == f = [s \in dom(m) |-> value(f, s)]
           P == {m \in Nat : m <= n => \E f : Solves(f, m)}
<1>1. n \in Nat /\ dom(0) = {{}} /\ dom(n) = SUBSET (1..n)
  <2>1. n - n + 1 = 1 /\ (n - 0 + 1)..n = {}
    OBVIOUS
  <2> QED
    BY <2>1
<1>2. ASSUME NEW m \in Nat, m + 1 <= n
      PROVE  /\ \A s \in dom(m + 1) : s # {} => others(s) \in dom(m)
             /\ \A s \in dom(m) : s \in dom(m + 1)
  <2>1. (n - m + 1)..n \subseteq (n - (m + 1) + 1)..n
    BY <1>1
  <2>2. ASSUME NEW s \in dom(m + 1), s # {} PROVE others(s) \in dom(m)
    <3>1. s \in SUBSET Nat
      BY <1>1, <1>2
    <3>2. Min(s) \in s /\ \A x \in s : Min(s) <= x
      BY <2>2, <3>1, MinFacts
    <3> SUFFICES ASSUME NEW x \in s, x # Min(s) PROVE x \in (n - m + 1)..n
      OBVIOUS
    <3>3. Min(s) <= x /\ Min(s) \in (n - (m + 1) + 1)..n /\ x \in (n - (m + 1) + 1)..n
      BY <3>2
    <3> QED
      BY <1>1, <1>2, <3>3
  <2> QED
    BY <2>1, <2>2
<1>3. ASSUME NEW k \in 1..n
      PROVE  /\ k..n \in SUBSET (1..n) /\ k..n # {}
             /\ others(k..n) = (k + 1)..n /\ least(k..n) = word[k]
  <2>1. k..n \in SUBSET (1..n) /\ k..n # {} /\ k..n \in SUBSET Nat
    OBVIOUS
  <2>2. Min(k..n) = k
    <3>1. Min(k..n) \in k..n /\ \A x \in k..n : Min(k..n) <= x
      BY <2>1, MinFacts
    <3>2. k \in k..n
      OBVIOUS
    <3>3. Min(k..n) <= k
      BY <3>1, <3>2
    <3> QED
      BY <3>1, <3>3
  <2>3. (k..n) \ {k} = (k + 1)..n
    OBVIOUS
  <2> QED
    BY <2>1, <2>2, <2>3
<1>4. LittleEndian(word)
        = (CHOOSE f : f = [s \in SUBSET (1..n) |-> value(f, s)])[1..n]
  BY DEF LittleEndian, FoldRight, MapThenFoldSet
<1> HIDE DEF n, least, others, dom
<1>5. 0 \in P
  <2> DEFINE f == [s \in dom(0) |-> 0]
  <2>1. ASSUME NEW s \in dom(0) PROVE f[s] = value(f, s)
    BY <1>1
  <2>2. Solves(f, 0)
    BY <2>1
  <2> HIDE DEF f, Solves
  <2> QED
    BY <2>2
<1>6. ASSUME NEW m \in Nat, m \in P PROVE m + 1 \in P
  <2>1. SUFFICES ASSUME m + 1 <= n PROVE \E h : Solves(h, m + 1)
    <3> HIDE DEF Solves
    <3> QED
      OBVIOUS
  <2>2. m <= n
    BY <1>1, <2>1
  <2>3. PICK f : Solves(f, m)
    <3> HIDE DEF Solves
    <3> QED
      BY <1>6, <2>2
  <2> DEFINE g == [s \in dom(m + 1) |-> value(f, s)]
  <2>4. ASSUME NEW s \in dom(m + 1) PROVE value(f, s) = value(g, s)
    <3>1. CASE s = {}
      BY <3>1
    <3>2. CASE s # {}
      <4>1. others(s) \in dom(m) /\ others(s) \in dom(m + 1)
        BY <1>2, <2>1, <3>2
      <4>2. f[others(s)] = value(f, others(s)) /\ g[others(s)] = value(f, others(s))
        BY <2>3, <4>1
      <4> HIDE DEF g
      <4> QED
        BY <3>2, <4>2
    <3> QED
      BY <3>1, <3>2
  <2>5. g = [s \in dom(m + 1) |-> value(g, s)]
    <3>1. g = [s \in dom(m + 1) |-> value(f, s)] /\ \A s \in dom(m + 1) : value(f, s) = value(g, s)
      BY <2>4
    <3> HIDE DEF g, value
    <3> QED
      BY <3>1, Zenon
  <2>6. Solves(g, m + 1)
    BY <2>5
  <2> HIDE DEF g, Solves
  <2> QED
    BY <2>6
<1>7. PICK f : Solves(f, n)
  <2>1. n \in P
    <3> HIDE DEF P
    <3> QED
      BY <1>1, <1>5, <1>6, Induction
  <2> HIDE DEF Solves
  <2> QED
    BY <1>1, <2>1
<1> DEFINE Folds(h) == h = [s \in SUBSET (1..n) |-> value(h, s)]
           iter == CHOOSE h : Folds(h)
<1>8. Folds(iter)
  <2>1. Folds(f)
    BY <1>1, <1>7
  <2> HIDE DEF Folds
  <2> QED
    BY <2>1
<1>9. LittleEndian(word) = iter[1..n]
  BY <1>4
<1> HIDE DEF iter
<1> DEFINE g == [k \in 1..(n + 1) |-> iter[k..n]]
<1>10. g[n + 1] = 0
  <2>1. (n + 1)..n = {} /\ {} \in SUBSET (1..n) /\ n + 1 \in 1..(n + 1)
    BY <1>1
  <2>2. iter[{}] = value(iter, {})
    BY <1>8, <2>1
  <2> QED
    BY <2>1, <2>2
<1>11. ASSUME NEW k \in 1..n PROVE g[k] = word[k] + 256 * g[k + 1]
  <2>1. iter[k..n] = value(iter, k..n)
    BY <1>3, <1>8
  <2>2. iter[k..n] = word[k] + 256 * iter[(k + 1)..n]
    <3> DEFINE s == k..n
               t == (k + 1)..n
    <3>1. s # {} /\ others(s) = t /\ least(s) = word[k] /\ iter[s] = value(iter, s)
      BY <1>3, <2>1
    <3> HIDE DEF s, t
    <3>2. iter[s] = word[k] + 256 * iter[t]
      BY <3>1
    <3> QED
      BY <3>2 DEF s, t
  <2>3. k \in 1..(n + 1) /\ k + 1 \in 1..(n + 1)
    BY <1>1
  <2> QED
    BY <2>2, <2>3
<1>12. LittleEndian(word) = g[1]
  BY <1>1, <1>9
<1> HIDE DEF g
<1> QED
  BY <1>10, <1>11, <1>12 DEF n

\* It is a number, and for the words of the files the sum it is written as.
LEMMA LittleEndianIs ==
  ASSUME NEW word \in Bytes
  PROVE  /\ LittleEndian(word) \in Nat
         /\ Len(word) = 2 => LittleEndian(word) = word[1] + 256 * word[2]
         /\ Len(word) = 3 => LittleEndian(word) = word[1] + 256 * (word[2] + 256 * word[3])
         /\ Len(word) = 4 => LittleEndian(word)
                               = word[1] + 256 * (word[2] + 256 * (word[3] + 256 * word[4]))
<1> DEFINE n == Len(word)
<1>1. n \in Nat /\ DOMAIN word = 1..n /\ \A k \in 1..n : word[k] \in Nat
  BY DEF Bytes
<1>2. PICK g : /\ g[n + 1] = 0
               /\ \A k \in 1..n : g[k] = word[k] + 256 * g[k + 1]
               /\ LittleEndian(word) = g[1]
  BY <1>1, LittleEndianStepwise
<1> HIDE DEF n
<1> DEFINE P == {m \in Nat : m <= n => g[n + 1 - m] \in Nat}
<1>3. 0 \in P
  BY <1>1, <1>2
<1>4. ASSUME NEW m \in Nat, m \in P PROVE m + 1 \in P
  <2> SUFFICES ASSUME m + 1 <= n PROVE g[n + 1 - (m + 1)] \in Nat
    OBVIOUS
  <2>1. n - m \in 1..n /\ n + 1 - m = (n - m) + 1 /\ n + 1 - (m + 1) = n - m
    BY <1>1
  <2>2. g[(n - m) + 1] \in Nat
    BY <1>1, <1>4, <2>1
  <2>3. g[n - m] = word[n - m] + 256 * g[(n - m) + 1]
    BY <1>2, <2>1
  <2> QED
    BY <1>1, <2>1, <2>2, <2>3
<1>5. LittleEndian(word) \in Nat
  <2>1. n \in P
    <3> HIDE DEF P
    <3> QED
      BY <1>1, <1>3, <1>4, Induction
  <2>2. n + 1 - n = 1
    BY <1>1
  <2> QED
    BY <1>1, <1>2, <2>1, <2>2
<1>6. n = 2 => LittleEndian(word) = word[1] + 256 * word[2]
  <2> SUFFICES ASSUME n = 2 PROVE LittleEndian(word) = word[1] + 256 * word[2]
    OBVIOUS
  <2>1. g[3] = 0 /\ g[2] = word[2] + 256 * g[3] /\ g[1] = word[1] + 256 * g[2]
    BY <1>2
  <2> QED
    BY <1>1, <1>2, <2>1
<1>7. n = 3 => LittleEndian(word) = word[1] + 256 * (word[2] + 256 * word[3])
  <2> SUFFICES ASSUME n = 3
               PROVE  LittleEndian(word) = word[1] + 256 * (word[2] + 256 * word[3])
    OBVIOUS
  <2>1. /\ g[4] = 0 /\ g[3] = word[3] + 256 * g[4] /\ g[2] = word[2] + 256 * g[3]
        /\ g[1] = word[1] + 256 * g[2]
    BY <1>2
  <2> QED
    BY <1>1, <1>2, <2>1
<1>8. n = 4 => LittleEndian(word)
                 = word[1] + 256 * (word[2] + 256 * (word[3] + 256 * word[4]))
  <2> SUFFICES ASSUME n = 4
               PROVE  LittleEndian(word)
                        = word[1] + 256 * (word[2] + 256 * (word[3] + 256 * word[4]))
    OBVIOUS
  <2>1. /\ g[5] = 0 /\ g[4] = word[4] + 256 * g[5] /\ g[3] = word[3] + 256 * g[4]
        /\ g[2] = word[2] + 256 * g[3] /\ g[1] = word[1] + 256 * g[2]
    BY <1>2
  <2> QED
    BY <1>1, <1>2, <2>1
<1> QED
  BY <1>5, <1>6, <1>7, <1>8 DEF n

\* A number in base 256 is its last digit and the number before it.
LEMMA LastDigit ==
  ASSUME NEW digit \in 0..255, NEW rest \in Nat
  PROVE  /\ digit + 256 * rest \in Nat
         /\ (digit + 256 * rest) % 256 = digit /\ (digit + 256 * rest) \div 256 = rest
OBVIOUS

\* A number put together from four digits, and the digits it is taken apart into.
PutTogether(v, a, b, c, d) == v = a + 256 * (b + 256 * (c + 256 * d))

TakenApart(v, a, b, c, d) ==
  /\ v % 256 = a /\ (v \div 256) % 256 = b
  /\ ((v \div 256) \div 256) % 256 = c
  /\ (((v \div 256) \div 256) \div 256) % 256 = d

LEMMA DigitsOf ==
  ASSUME NEW a \in 0..255, NEW b \in 0..255, NEW c \in 0..255, NEW d \in 0..255,
         NEW v, PutTogether(v, a, b, c, d)
  PROVE  TakenApart(v, a, b, c, d)
<1> DEFINE q == c + 256 * d
           r == b + 256 * q
<1>1. d \in Nat /\ d % 256 = d /\ v = a + 256 * r
  BY DEF PutTogether
<1>2. q \in Nat /\ q % 256 = c /\ q \div 256 = d
  BY <1>1, LastDigit, ZenonT(120)
<1> HIDE DEF q
<1>3. r \in Nat /\ r % 256 = b /\ r \div 256 = q
  BY <1>2, LastDigit, ZenonT(120)
<1> HIDE DEF r
<1>4. v \in Nat /\ v % 256 = a /\ v \div 256 = r
  <2>1. a + 256 * r \in Nat /\ (a + 256 * r) % 256 = a /\ (a + 256 * r) \div 256 = r
    BY <1>3, LastDigit, ZenonT(120)
  <2>2. v = a + 256 * r
    BY <1>1
  <2> QED
    BY <2>1, <2>2
<1> QED
  BY <1>1, <1>2, <1>3, <1>4 DEF TakenApart

\* The byte of a number at a place, written by dividing.
ByteAt(value, k) == (value \div 256^(k - 1)) % 256

LEMMA ByteOfNumber ==
  ASSUME NEW v \in Nat
  PROVE  /\ ByteAt(v, 1) = v % 256
         /\ ByteAt(v, 2) = (v \div 256) % 256
         /\ ByteAt(v, 3) = ((v \div 256) \div 256) % 256
         /\ ByteAt(v, 4) = (((v \div 256) \div 256) \div 256) % 256
<1>1. 256^(1 - 1) = 1 /\ 256^(2 - 1) = 256 /\ 256^(3 - 1) = 65536 /\ 256^(4 - 1) = 16777216
  BY SMT
<1>2. v \div 1 = v /\ v \div 65536 = (v \div 256) \div 256
  OBVIOUS
<1>3. v \div 16777216 = (v \div 65536) \div 256
  OBVIOUS
<1>4. ByteAt(v, 1) = (v \div 1) % 256 /\ ByteAt(v, 2) = (v \div 256) % 256
  BY <1>1 DEF ByteAt
<1>5. ByteAt(v, 3) = (v \div 65536) % 256
  BY <1>1 DEF ByteAt
<1>6. ByteAt(v, 4) = (v \div 16777216) % 256
  BY <1>1 DEF ByteAt
<1> QED
  BY <1>2, <1>3, <1>4, <1>5, <1>6, SMT

\* What a file holds are numbers.
LEMMA OctetsAreBytes ==
  ASSUME NEW word \in Seq(Octet)
  PROVE  word \in Bytes
<1>1. \A k \in 1..Len(word) : word[k] \in Octet
  OBVIOUS
<1>2. \A octet \in Octet : octet \in Nat
  BY DEF Octet
<1> QED
  BY <1>1, <1>2 DEF Bytes

\* A word is what is written for the number it is read as.
LEMMA WordReadsBack ==
  ASSUME NEW word \in Seq(Octet), NEW width \in {2, 3, 4}, Len(word) = width
  PROVE  Word(LittleEndian(word), width) = word
<1> DEFINE v == LittleEndian(word)
           digit(k) == IF k <= width THEN word[k] ELSE 0
<1>1. word \in Bytes /\ DOMAIN word = 1..width /\ \A k \in 1..width : word[k] \in 0..255
  <2>1. word \in Bytes /\ DOMAIN word = 1..width /\ \A k \in 1..width : word[k] \in Octet
    BY OctetsAreBytes
  <2> QED
    BY <2>1 DEF Octet
<1>2. /\ v \in Nat
      /\ Len(word) = 2 => v = word[1] + 256 * word[2]
      /\ Len(word) = 3 => v = word[1] + 256 * (word[2] + 256 * word[3])
      /\ Len(word) = 4 => v = word[1] + 256 * (word[2] + 256 * (word[3] + 256 * word[4]))
  BY <1>1, LittleEndianIs, ZenonT(120)
<1>3. \A k \in 1..4 : digit(k) \in 0..255
  BY <1>1
<1> HIDE DEF v
<1> DEFINE a == digit(1)
           b == digit(2)
           c == digit(3)
           d == digit(4)
<1>4. /\ a \in 0..255 /\ b \in 0..255 /\ c \in 0..255 /\ d \in 0..255
      /\ a = word[1] /\ b = word[2] /\ (width > 2 => c = word[3]) /\ (width > 3 => d = word[4])
      /\ (width = 2 => c = 0) /\ (width < 4 => d = 0)
  BY <1>3
<1> HIDE DEF digit, a, b, c, d
<1>5. v = a + 256 * (b + 256 * (c + 256 * d))
  <2>1. CASE width = 2
    BY <1>2, <1>4, <2>1
  <2>2. CASE width = 3
    BY <1>2, <1>4, <2>2
  <2>3. CASE width = 4
    BY <1>2, <1>4, <2>3
  <2> QED
    BY <2>1, <2>2, <2>3
<1>6. /\ v % 256 = a /\ (v \div 256) % 256 = b
      /\ ((v \div 256) \div 256) % 256 = c
      /\ (((v \div 256) \div 256) \div 256) % 256 = d
  <2>1. a \in 0..255 /\ b \in 0..255 /\ c \in 0..255 /\ d \in 0..255
    BY <1>4
  <2>2. PutTogether(v, a, b, c, d)
    BY <1>5 DEF PutTogether
  <2>3. TakenApart(v, a, b, c, d)
    BY <2>1, <2>2, DigitsOf, ZenonT(120)
  <2> QED
    BY <2>3 DEF TakenApart
<1>7. ByteAt(v, 1) = a /\ ByteAt(v, 2) = b /\ ByteAt(v, 3) = c /\ ByteAt(v, 4) = d
  <2>1. v \in Nat
    BY <1>2
  <2>2. /\ ByteAt(v, 1) = v % 256
        /\ ByteAt(v, 2) = (v \div 256) % 256
        /\ ByteAt(v, 3) = ((v \div 256) \div 256) % 256
        /\ ByteAt(v, 4) = (((v \div 256) \div 256) \div 256) % 256
    BY <2>1, ByteOfNumber, ZenonT(180)
  <2> QED
    BY <1>6, <2>2, ZenonT(180)
<1>8. ASSUME NEW k \in 1..width PROVE ByteAt(v, k) = word[k]
  <2>1. k \in 1..4 /\ digit(k) = word[k]
    BY DEF digit
  <2>2. k \in {1, 2, 3, 4}
    BY <2>1
  <2> HIDE DEF digit
  <2> QED
    BY <1>7, <2>1, <2>2 DEF a, b, c, d
<1>9. Word(v, width) = [k \in 1..width |-> ByteAt(v, k)]
  BY DEF Word, ByteAt
<1>10. word = [k \in 1..width |-> word[k]]
  BY <1>1
<1> QED
  BY <1>8, <1>9, <1>10, Zenon DEF v

-----------------------------------------------------------------------------
\* Texts, as sequences of characters.
Texts == Seq(Nat)

\* The three bytes of four values of six bits.
FirstByte(a, b) == ((a * 4) % 256) + (b \div 16)
SecondByte(b, c) == ((b * 16) % 256) + (c \div 4)
ThirdByte(c, d) == ((c * 64) % 256) + d

\* What two numbers hold between them, from an offset on: eight bits of values of
\* six, and six bits of bytes.
EightBits(x, y, shift) == ((x * 64 + y) \div shift) % 256
SixBits(x, y, shift) == ((x * 256 + y) \div shift) % 64

\* The bytes are what the values hold between them.
LEMMA BytesOfValues ==
  ASSUME NEW a \in 0..63, NEW b \in 0..63
  PROVE  /\ EightBits(a, b, 16) = FirstByte(a, b) /\ FirstByte(a, b) \in 0..255
         /\ EightBits(a, b, 4) = SecondByte(a, b) /\ SecondByte(a, b) \in 0..255
         /\ EightBits(a, b, 1) = ThirdByte(a, b) /\ ThirdByte(a, b) \in 0..255
<1>1. /\ (a * 4) % 256 = a * 4 /\ EightBits(a, b, 16) = FirstByte(a, b)
      /\ FirstByte(a, b) \in 0..255
  BY DEF EightBits, FirstByte
<1>2. /\ EightBits(a, b, 4) = SecondByte(a, b)
      /\ SecondByte(a, b) \in 0..255
  BY DEF EightBits, SecondByte
<1>3. /\ EightBits(a, b, 1) = ThirdByte(a, b)
      /\ ThirdByte(a, b) \in 0..255
  BY DEF EightBits, ThirdByte
<1> QED
  BY <1>1, <1>2, <1>3

\* The values are what the bytes hold between them; behind the last byte there
\* are zeros, which are the last value's own bits exactly if its tail is zero.
HeldBetween(a, b, c, d) ==
  /\ \A x \in 0..255 : /\ SixBits(FirstByte(a, b), x, 1024) = a
                        /\ SixBits(ThirdByte(c, d), x, 256) = d
  /\ SixBits(FirstByte(a, b), SecondByte(b, c), 16) = b
  /\ SixBits(SecondByte(b, c), ThirdByte(c, d), 64) = c
  /\ SixBits(FirstByte(a, b), 0, 16) = b <=> b % 16 = 0
  /\ SixBits(SecondByte(b, c), 0, 64) = c <=> c % 4 = 0

LEMMA ValuesOfBytes ==
  ASSUME NEW a \in 0..63, NEW b \in 0..63, NEW c \in 0..63, NEW d \in 0..63
  PROVE  HeldBetween(a, b, c, d)
<1>1. /\ (a * 4) % 256 = a * 4 /\ (b * 16) % 256 = (b % 16) * 16 /\ (c * 64) % 256 = (c % 4) * 64
  OBVIOUS
<1>2. \A x \in 0..255 : SixBits(FirstByte(a, b), x, 1024) = a
  BY <1>1 DEF SixBits, FirstByte
<1>3. SixBits(FirstByte(a, b), SecondByte(b, c), 16) = b
  <2> DEFINE high == b \div 16
             low  == b % 16
             over == c \div 4
  <2>1. high \in 0..3 /\ low \in 0..15 /\ over \in 0..15 /\ b = high * 16 + low
    OBVIOUS
  <2>2. FirstByte(a, b) = a * 4 + high /\ SecondByte(b, c) = low * 16 + over
    BY <1>1 DEF FirstByte, SecondByte
  <2> HIDE DEF high, low, over
  <2>3. ((a * 4 + high) * 256 + (low * 16 + over)) \div 16 = a * 64 + b
    BY <2>1
  <2>4. (a * 64 + b) % 64 = b
    OBVIOUS
  <2> QED
    BY <2>2, <2>3, <2>4 DEF SixBits
<1>4. SixBits(SecondByte(b, c), ThirdByte(c, d), 64) = c
  BY <1>1 DEF SixBits, ThirdByte, SecondByte
<1>5. \A x \in 0..255 : SixBits(ThirdByte(c, d), x, 256) = d
  BY <1>1 DEF SixBits, ThirdByte
<1>6. SixBits(FirstByte(a, b), 0, 16) = b <=> b % 16 = 0
  BY <1>1 DEF SixBits, FirstByte
<1>7. SixBits(SecondByte(b, c), 0, 64) = c <=> c % 4 = 0
  BY <1>1 DEF SixBits, SecondByte
<1> QED
  BY <1>2, <1>3, <1>4, <1>5, <1>6, <1>7 DEF HeldBetween

\* The number that follows, or zeros behind the last.
Following(list, i) == IF i < Len(list) THEN list[i + 1] ELSE 0

\* Bits are read from a window of two numbers.
LEMMA ByteWindow ==
  ASSUME NEW list, NEW offset, NEW spot, NEW rest, NEW shift,
         (offset \div 6) + 1 = spot, offset % 6 = rest, 2^(2 * 6 - 8 - rest) = shift
  PROVE  BitsAt(list, 6, offset, 8) = EightBits(list[spot], Following(list, spot), shift)
<1>1. 2^6 = 64 /\ 2^8 = 256
  BY SMT
<1>2. BitsAt(list, 6, offset, 8)
        = ((list[spot] * 2^6 + Following(list, spot)) \div 2^(2 * 6 - 8 - rest)) % 2^8
  BY ZenonT(120) DEF BitsAt, Following
<1> QED
  BY <1>1, <1>2, ZenonT(120) DEF EightBits

\* So are the six bits of a value.
LEMMA ValueWindow ==
  ASSUME NEW list, NEW offset, NEW spot, NEW rest, NEW shift,
         (offset \div 8) + 1 = spot, offset % 8 = rest, 2^(2 * 8 - 6 - rest) = shift
  PROVE  BitsAt(list, 8, offset, 6) = SixBits(list[spot], Following(list, spot), shift)
<1>1. 2^6 = 64 /\ 2^8 = 256
  BY SMT
<1>2. BitsAt(list, 8, offset, 6)
        = ((list[spot] * 2^8 + Following(list, spot)) \div 2^(2 * 8 - 6 - rest)) % 2^6
  BY ZenonT(120) DEF BitsAt, Following
<1> QED
  BY <1>1, <1>2, ZenonT(120) DEF SixBits

\* Of three bytes the first begins with a value, the others inside one.
LEMMA OctetBits ==
  ASSUME NEW list, NEW q \in Nat
  PROVE  /\ BitsAt(list, 6, 8 * (3 * q), 8)
              = EightBits(list[4 * q + 1], Following(list, 4 * q + 1), 16)
         /\ BitsAt(list, 6, 8 * (3 * q + 1), 8)
              = EightBits(list[4 * q + 2], Following(list, 4 * q + 2), 4)
         /\ BitsAt(list, 6, 8 * (3 * q + 2), 8)
              = EightBits(list[4 * q + 3], Following(list, 4 * q + 3), 1)
<1>1. BitsAt(list, 6, 8 * (3 * q), 8) = EightBits(list[4 * q + 1], Following(list, 4 * q + 1), 16)
  <2>1. ((8 * (3 * q)) \div 6) + 1 = 4 * q + 1 /\ (8 * (3 * q)) % 6 = 0
    OBVIOUS
  <2>2. 2^(2 * 6 - 8 - 0) = 16
    BY SMT
  <2> QED
    BY <2>1, <2>2, ByteWindow, ZenonT(120)
<1>2. BitsAt(list, 6, 8 * (3 * q + 1), 8) = EightBits(list[4 * q + 2], Following(list, 4 * q + 2), 4)
  <2>1. ((8 * (3 * q + 1)) \div 6) + 1 = 4 * q + 2 /\ (8 * (3 * q + 1)) % 6 = 2
    OBVIOUS
  <2>2. 2^(2 * 6 - 8 - 2) = 4
    BY SMT
  <2> QED
    BY <2>1, <2>2, ByteWindow, ZenonT(120)
<1>3. BitsAt(list, 6, 8 * (3 * q + 2), 8) = EightBits(list[4 * q + 3], Following(list, 4 * q + 3), 1)
  <2>1. ((8 * (3 * q + 2)) \div 6) + 1 = 4 * q + 3 /\ (8 * (3 * q + 2)) % 6 = 4
    OBVIOUS
  <2>2. 2^(2 * 6 - 8 - 4) = 1
    BY SMT
  <2> QED
    BY <2>1, <2>2, ByteWindow, ZenonT(120)
<1> QED
  BY <1>1, <1>2, <1>3, ZenonT(120)

\* Of four values the first begins with a byte, the others inside one.
LEMMA SextetBits ==
  ASSUME NEW list, NEW q \in Nat
  PROVE  /\ BitsAt(list, 8, 6 * (4 * q), 6)
              = SixBits(list[3 * q + 1], Following(list, 3 * q + 1), 1024)
         /\ BitsAt(list, 8, 6 * (4 * q + 1), 6)
              = SixBits(list[3 * q + 1], Following(list, 3 * q + 1), 16)
         /\ BitsAt(list, 8, 6 * (4 * q + 2), 6)
              = SixBits(list[3 * q + 2], Following(list, 3 * q + 2), 64)
         /\ BitsAt(list, 8, 6 * (4 * q + 3), 6)
              = SixBits(list[3 * q + 3], Following(list, 3 * q + 3), 256)
<1>1. BitsAt(list, 8, 6 * (4 * q), 6) = SixBits(list[3 * q + 1], Following(list, 3 * q + 1), 1024)
  <2>1. ((6 * (4 * q)) \div 8) + 1 = 3 * q + 1 /\ (6 * (4 * q)) % 8 = 0
    OBVIOUS
  <2> DEFINE shift == 1024
  <2>2. 2^(2 * 8 - 6 - 0) = shift
    <3>1. 2^10 = 1024
      BY SMT
    <3>2. 2 * 8 - 6 - 0 = 10
      OBVIOUS
    <3> QED
      BY <3>1, <3>2, SMT
  <2> HIDE DEF shift
  <2>3. BitsAt(list, 8, 6 * (4 * q), 6) = SixBits(list[3 * q + 1], Following(list, 3 * q + 1), shift)
    BY <2>1, <2>2, ValueWindow, ZenonT(120)
  <2> QED
    BY <2>3 DEF shift
<1>2. BitsAt(list, 8, 6 * (4 * q + 1), 6) = SixBits(list[3 * q + 1], Following(list, 3 * q + 1), 16)
  <2>1. ((6 * (4 * q + 1)) \div 8) + 1 = 3 * q + 1 /\ (6 * (4 * q + 1)) % 8 = 6
    OBVIOUS
  <2>2. 2^(2 * 8 - 6 - 6) = 16
    BY SMT
  <2> QED
    BY <2>1, <2>2, ValueWindow, ZenonT(120)
<1>3. BitsAt(list, 8, 6 * (4 * q + 2), 6) = SixBits(list[3 * q + 2], Following(list, 3 * q + 2), 64)
  <2>1. ((6 * (4 * q + 2)) \div 8) + 1 = 3 * q + 2 /\ (6 * (4 * q + 2)) % 8 = 4
    OBVIOUS
  <2>2. 2^(2 * 8 - 6 - 4) = 64
    BY SMT
  <2> QED
    BY <2>1, <2>2, ValueWindow, ZenonT(120)
<1>4. BitsAt(list, 8, 6 * (4 * q + 3), 6) = SixBits(list[3 * q + 3], Following(list, 3 * q + 3), 256)
  <2>1. ((6 * (4 * q + 3)) \div 8) + 1 = 3 * q + 3 /\ (6 * (4 * q + 3)) % 8 = 2
    OBVIOUS
  <2> DEFINE shift == 256
  <2>2. 2^(2 * 8 - 6 - 2) = shift
    <3>1. 2^8 = 256
      BY SMT
    <3>2. 2 * 8 - 6 - 2 = 8
      OBVIOUS
    <3> QED
      BY <3>1, <3>2, SMT
  <2> HIDE DEF shift
  <2>3. BitsAt(list, 8, 6 * (4 * q + 3), 6) = SixBits(list[3 * q + 3], Following(list, 3 * q + 3), shift)
    BY <2>1, <2>2, ValueWindow, ZenonT(120)
  <2> QED
    BY <2>3 DEF shift
<1> QED
  BY <1>1, <1>2, <1>3, <1>4, ZenonT(120)

\* The values of groups of four characters.
Valued(v, quads) == quads \in Nat \ {0} /\ \A k \in 1..(4 * quads) : v[k] \in 0..63

\* The byte at a place behind the first `group` groups: three come of a group.
ByteIn(v, group, place) ==
  CASE place = 1 -> FirstByte(v[4 * group + 1], v[4 * group + 2])
    [] place = 2 -> SecondByte(v[4 * group + 2], v[4 * group + 3])
    [] OTHER     -> ThirdByte(v[4 * group + 3], v[4 * group + 4])

ByteOf(v, k) == ByteIn(v, (k - 1) \div 3, ((k - 1) % 3) + 1)

\* A list is its first numbers.
FirstValues(v, m) == [k \in 1..m |-> v[k]]
OctetsOf(v, n) == [k \in 1..n |-> ByteOf(v, k)]

\* A byte by its group and its place in it.
LEMMA ByteOfPlace ==
  ASSUME NEW v, NEW group \in Nat, NEW place \in 1..3
  PROVE  ByteOf(v, 3 * group + place) = ByteIn(v, group, place)
<1> DEFINE k == 3 * group + place
<1>1. (k - 1) \div 3 = group /\ ((k - 1) % 3) + 1 = place
  OBVIOUS
<1> HIDE DEF k
<1> QED
  BY <1>1 DEF ByteOf

\* The bytes of a group are what its values hold between them.
LEMMA ByteInFacts ==
  ASSUME NEW v, NEW quads, Valued(v, quads), NEW group \in 0..(quads - 1)
  PROVE  /\ ByteIn(v, group, 1) = EightBits(v[4 * group + 1], v[4 * group + 2], 16)
         /\ ByteIn(v, group, 2) = EightBits(v[4 * group + 2], v[4 * group + 3], 4)
         /\ ByteIn(v, group, 3) = EightBits(v[4 * group + 3], v[4 * group + 4], 1)
         /\ \A place \in 1..3 : ByteIn(v, group, place) \in 0..255
<1> DEFINE a == v[4 * group + 1]
           b == v[4 * group + 2]
           c == v[4 * group + 3]
           d == v[4 * group + 4]
<1>1. a \in 0..63 /\ b \in 0..63 /\ c \in 0..63 /\ d \in 0..63
  BY DEF Valued
<1>2. /\ ByteIn(v, group, 1) = FirstByte(a, b)
      /\ ByteIn(v, group, 2) = SecondByte(b, c)
      /\ ByteIn(v, group, 3) = ThirdByte(c, d)
  BY DEF ByteIn
<1> HIDE DEF a, b, c, d
<1>3. /\ EightBits(a, b, 16) = FirstByte(a, b) /\ FirstByte(a, b) \in 0..255
      /\ EightBits(b, c, 4) = SecondByte(b, c) /\ SecondByte(b, c) \in 0..255
      /\ EightBits(c, d, 1) = ThirdByte(c, d) /\ ThirdByte(c, d) \in 0..255
  BY <1>1, BytesOfValues, ZenonT(120)
<1>4. \A place \in 1..3 : place = 1 \/ place = 2 \/ place = 3
  OBVIOUS
<1> QED
  BY <1>2, <1>3, <1>4 DEF a, b, c, d

\* The octets of the values before the padding are the bytes of the groups.
LEMMA OctetsAreBytesOf ==
  ASSUME NEW v, NEW quads, Valued(v, quads), NEW padding \in 0..2
  PROVE  Octets(FirstValues(v, 4 * quads - padding)) = OctetsOf(v, 3 * quads - padding)
<1> DEFINE m == 4 * quads - padding
           n == 3 * quads - padding
           list == FirstValues(v, m)
<1>1. quads \in Nat /\ quads > 0 /\ m \in Nat /\ n \in Nat /\ (6 * m) \div 8 = n
  BY DEF Valued
<1>2. Len(list) = m /\ \A k \in 1..m : list[k] = v[k]
  BY <1>1 DEF FirstValues
<1>3. \A i \in 1..m : i + 1 <= m => Following(list, i) = v[i + 1]
  BY <1>1, <1>2 DEF Following
<1>4. ASSUME NEW k \in 1..n PROVE BitsAt(list, 6, 8 * (k - 1), 8) = ByteOf(v, k)
  <2>1. PICK group \in 0..(quads - 1), place \in 1..3 : k = 3 * group + place
    <3> DEFINE g == (k - 1) \div 3
               r == ((k - 1) % 3) + 1
    <3>1. g \in 0..(quads - 1) /\ r \in 1..3 /\ k = 3 * g + r
      BY <1>1
    <3> HIDE DEF g, r
    <3> QED
      BY <3>1
  <2>2. ByteOf(v, k) = ByteIn(v, group, place)
    BY <2>1, ByteOfPlace
  <2>3. /\ ByteIn(v, group, 1) = EightBits(v[4 * group + 1], v[4 * group + 2], 16)
        /\ ByteIn(v, group, 2) = EightBits(v[4 * group + 2], v[4 * group + 3], 4)
        /\ ByteIn(v, group, 3) = EightBits(v[4 * group + 3], v[4 * group + 4], 1)
    BY <2>1, ByteInFacts, ZenonT(120)
  <2>4. 4 * group + place + 1 <= m /\ 4 * group + place \in 1..m
    BY <1>1, <2>1
  <2> HIDE DEF m, n, list
  <2>5. list[4 * group + place] = v[4 * group + place]
        /\ Following(list, 4 * group + place) = v[(4 * group + place) + 1]
    BY <1>2, <1>3, <2>4
  <2>6. /\ BitsAt(list, 6, 8 * (3 * group), 8)
             = EightBits(list[4 * group + 1], Following(list, 4 * group + 1), 16)
        /\ BitsAt(list, 6, 8 * (3 * group + 1), 8)
             = EightBits(list[4 * group + 2], Following(list, 4 * group + 2), 4)
        /\ BitsAt(list, 6, 8 * (3 * group + 2), 8)
             = EightBits(list[4 * group + 3], Following(list, 4 * group + 3), 1)
    BY <2>1, OctetBits, SMT
  <2>7. CASE place = 1
    <3>1. k - 1 = 3 * group /\ (4 * group + 1) + 1 = 4 * group + 2
      BY <2>1, <2>7
    <3> QED
      BY <2>2, <2>3, <2>5, <2>6, <2>7, <3>1
  <2>8. CASE place = 2
    <3>1. k - 1 = 3 * group + 1 /\ (4 * group + 2) + 1 = 4 * group + 3
      BY <2>1, <2>8
    <3> QED
      BY <2>2, <2>3, <2>5, <2>6, <2>8, <3>1
  <2>9. CASE place = 3
    <3>1. k - 1 = 3 * group + 2 /\ (4 * group + 3) + 1 = 4 * group + 4
      BY <2>1, <2>9
    <3> QED
      BY <2>2, <2>3, <2>5, <2>6, <2>9, <3>1
  <2> QED
    BY <2>1, <2>7, <2>8, <2>9
<1>5. Octets(list) = [k \in 1..n |-> BitsAt(list, 6, 8 * (k - 1), 8)]
  BY <1>1, <1>2 DEF Octets
<1>6. OctetsOf(v, n) = [k \in 1..n |-> ByteOf(v, k)]
  BY DEF OctetsOf
<1> HIDE DEF list, n
<1>7. Octets(list) = OctetsOf(v, n)
  BY <1>4, <1>5, <1>6, Zenon
<1> QED
  BY <1>7 DEF list, m, n

\* A value is read back from the bytes, unless it is the last and the bits that no
\* byte takes are not zero.
ReadBack(v, quads, padding, k) ==
  /\ padding = 2 /\ k = 4 * quads - 2 => v[k] % 16 = 0
  /\ padding = 1 /\ k = 4 * quads - 1 => v[k] % 4 = 0

LEMMA SextetsReadBack ==
  ASSUME NEW v, NEW quads, Valued(v, quads), NEW padding \in 0..2,
         NEW k \in 1..(4 * quads - padding)
  PROVE  BitsAt(OctetsOf(v, 3 * quads - padding), 8, 6 * (k - 1), 6) = v[k]
           <=> ReadBack(v, quads, padding, k)
<1> DEFINE m == 4 * quads - padding
           n == 3 * quads - padding
           list == OctetsOf(v, n)
<1>1. quads \in Nat /\ quads > 0 /\ m \in Nat /\ n \in Nat
  BY DEF Valued
<1>2. Len(list) = n /\ \A i \in 1..n : list[i] = ByteOf(v, i)
  BY <1>1 DEF OctetsOf
<1>3. PICK group \in 0..(quads - 1), place \in 1..4 : k = 4 * group + place
  <2> DEFINE g == (k - 1) \div 4
             r == ((k - 1) % 4) + 1
  <2>1. g \in 0..(quads - 1) /\ r \in 1..4 /\ k = 4 * g + r
    BY <1>1
  <2> HIDE DEF g, r
  <2> QED
    BY <2>1
<1> DEFINE a == v[4 * group + 1]
           b == v[4 * group + 2]
           c == v[4 * group + 3]
           d == v[4 * group + 4]
           byte(i) == list[3 * group + i]
           next(i) == Following(list, 3 * group + i)
<1>4. a \in 0..63 /\ b \in 0..63 /\ c \in 0..63 /\ d \in 0..63
  BY DEF Valued
<1>0. HeldBetween(a, b, c, d)
  <2> HIDE DEF a, b, c, d
  <2> QED
    BY <1>4, ValuesOfBytes, ZenonT(120)
<1>5. ASSUME NEW i \in 1..3
      PROVE  /\ 3 * group + i <= n => byte(i) = ByteIn(v, group, i)
             /\ i < 3 => next(i) = IF 3 * group + i + 1 <= n THEN byte(i + 1) ELSE 0
             /\ next(i) \in 0..255
  <2>1. \A j \in 1..n : ByteOf(v, j) \in 0..255
    <3> SUFFICES ASSUME NEW j \in 1..n PROVE ByteOf(v, j) \in 0..255
      OBVIOUS
    <3> DEFINE g == (j - 1) \div 3
               r == ((j - 1) % 3) + 1
    <3>1. g \in 0..(quads - 1) /\ r \in 1..3
      BY <1>1
    <3>2. ByteOf(v, j) = ByteIn(v, g, r)
      BY DEF ByteOf
    <3> HIDE DEF g, r
    <3> QED
      BY <3>1, <3>2, ByteInFacts, ZenonT(120)
  <2>2. ByteOf(v, 3 * group + i) = ByteIn(v, group, i)
    BY ByteOfPlace
  <2> HIDE DEF list, n
  <2>3. 3 * group + i <= n => 3 * group + i \in 1..n
    BY <1>1
  <2>4. 3 * group + i + 1 <= n => (3 * group + i) + 1 \in 1..n
    BY <1>1
  <2>5. next(i) = IF 3 * group + i < n THEN list[(3 * group + i) + 1] ELSE 0
    BY <1>2 DEF Following
  <2>6. (3 * group + i) + 1 = 3 * group + (i + 1) /\ (3 * group + i < n <=> 3 * group + i + 1 <= n)
    BY <1>1
  <2>7. next(i) \in 0..255
    <3> DEFINE behind == (3 * group + i) + 1
    <3>1. CASE 3 * group + i < n
      <4>1. behind \in 1..n /\ next(i) = list[behind]
        BY <2>4, <2>5, <2>6, <3>1
      <4> HIDE DEF behind, next
      <4> QED
        <5>1. ByteOf(v, behind) \in 0..255
          BY <2>1, <4>1
        <5>2. list[behind] = ByteOf(v, behind)
          BY <1>2, <4>1
        <5> QED
          BY <4>1, <5>1, <5>2
    <3>2. CASE ~(3 * group + i < n)
      BY <2>5, <3>2
    <3> QED
      BY <3>1, <3>2
  <2> QED
    BY <1>2, <2>2, <2>3, <2>5, <2>6, <2>7
<1> HIDE DEF list, n, m
<1>6. /\ BitsAt(list, 8, 6 * (4 * group), 6) = SixBits(byte(1), next(1), 1024)
      /\ BitsAt(list, 8, 6 * (4 * group + 1), 6) = SixBits(byte(1), next(1), 16)
      /\ BitsAt(list, 8, 6 * (4 * group + 2), 6) = SixBits(byte(2), next(2), 64)
      /\ BitsAt(list, 8, 6 * (4 * group + 3), 6) = SixBits(byte(3), next(3), 256)
  <2>1. group \in Nat
    OBVIOUS
  <2> QED
    BY <2>1, SextetBits, SMT
<1>7. /\ ByteIn(v, group, 1) = FirstByte(a, b)
      /\ ByteIn(v, group, 2) = SecondByte(b, c)
      /\ ByteIn(v, group, 3) = ThirdByte(c, d)
  BY DEF ByteIn
<1> DEFINE sextet == BitsAt(list, 8, 6 * (k - 1), 6)
           readback == ReadBack(v, quads, padding, k)
<1>8. ASSUME place = 1 PROVE sextet = v[k] <=> readback
  <2>1. k - 1 = 4 * group /\ 3 * group + 1 <= n /\ 1 \in 1..3 /\ v[k] = a
    BY <1>1, <1>3, <1>8 DEF n
  <2>2. sextet = SixBits(FirstByte(a, b), next(1), 1024) /\ next(1) \in 0..255
    BY <1>5, <1>6, <1>7, <2>1
  <2>3. readback
    BY <1>1, <1>3, <1>8 DEF ReadBack
  <2> HIDE DEF a, b, c, d, next, byte
  <2>4. SixBits(FirstByte(a, b), next(1), 1024) = a
    BY <1>0, <2>2 DEF HeldBetween
  <2> QED
    BY <2>1, <2>2, <2>3, <2>4
<1>9. ASSUME place = 2 PROVE sextet = v[k] <=> readback
  <2>1. k - 1 = 4 * group + 1 /\ 3 * group + 1 <= n /\ 1 \in 1..3 /\ 2 \in 1..3 /\ v[k] = b
    BY <1>1, <1>3, <1>9 DEF n
  <2>2. sextet = SixBits(FirstByte(a, b), next(1), 16)
    BY <1>5, <1>6, <1>7, <2>1
  <2>3. next(1) = IF 3 * group + 2 <= n THEN SecondByte(b, c) ELSE 0
    BY <1>5, <1>7, <2>1
  <2>4. 3 * group + 2 <= n <=> ~(padding = 2 /\ k = 4 * quads - 2)
    BY <1>1, <1>3, <1>9 DEF n
  <2>5. readback <=> (3 * group + 2 <= n \/ b % 16 = 0)
    <3>1. ~(k = 4 * quads - 1)
      BY <1>1, <1>3, <1>9
    <3> QED
      BY <2>1, <2>4, <3>1 DEF ReadBack
  <2> HIDE DEF a, b, c, d, next, byte
  <2>6. /\ SixBits(FirstByte(a, b), SecondByte(b, c), 16) = b
        /\ SixBits(FirstByte(a, b), 0, 16) = b <=> b % 16 = 0
    BY <1>0 DEF HeldBetween
  <2> QED
    BY <2>1, <2>2, <2>3, <2>5, <2>6
<1>10. ASSUME place = 3 PROVE sextet = v[k] <=> readback
  <2>1. k - 1 = 4 * group + 2 /\ 3 * group + 2 <= n /\ 3 \in 1..3 /\ 2 \in 1..3 /\ v[k] = c
    BY <1>1, <1>3, <1>10 DEF n, m
  <2>2. sextet = SixBits(SecondByte(b, c), next(2), 64)
    BY <1>5, <1>6, <1>7, <2>1
  <2>3. next(2) = IF 3 * group + 3 <= n THEN ThirdByte(c, d) ELSE 0
    BY <1>5, <1>7, <2>1
  <2>4. 3 * group + 3 <= n <=> ~(padding = 1 /\ k = 4 * quads - 1)
    BY <1>1, <1>3, <1>10 DEF n, m
  <2>5. readback <=> (3 * group + 3 <= n \/ c % 4 = 0)
    <3>1. ~(k = 4 * quads - 2)
      BY <1>1, <1>3, <1>10
    <3> QED
      BY <2>1, <2>4, <3>1 DEF ReadBack
  <2> HIDE DEF a, b, c, d, next, byte
  <2>6. /\ SixBits(SecondByte(b, c), ThirdByte(c, d), 64) = c
        /\ SixBits(SecondByte(b, c), 0, 64) = c <=> c % 4 = 0
    BY <1>0 DEF HeldBetween
  <2> QED
    BY <2>1, <2>2, <2>3, <2>5, <2>6
<1>11. ASSUME place = 4 PROVE sextet = v[k] <=> readback
  <2>1. k - 1 = 4 * group + 3 /\ 3 * group + 3 <= n /\ 3 \in 1..3 /\ v[k] = d
    BY <1>1, <1>3, <1>11 DEF n, m
  <2>2. sextet = SixBits(ThirdByte(c, d), next(3), 256) /\ next(3) \in 0..255
    BY <1>5, <1>6, <1>7, <2>1
  <2>3. readback
    BY <1>1, <1>3, <1>11 DEF ReadBack
  <2> HIDE DEF a, b, c, d, next, byte
  <2>4. SixBits(ThirdByte(c, d), next(3), 256) = d
    BY <1>0, <2>2 DEF HeldBetween
  <2> QED
    BY <2>1, <2>2, <2>3, <2>4
<1> QED
  BY <1>3, <1>8, <1>9, <1>10, <1>11 DEF list, n

\* The bytes of the values encode to the values exactly if the tail is zero.
LEMMA SextetsAreValues ==
  ASSUME NEW v, NEW quads, Valued(v, quads), NEW padding \in 0..2
  PROVE  Sextets(OctetsOf(v, 3 * quads - padding)) = FirstValues(v, 4 * quads - padding)
           <=> ZeroTail(v[4 * quads - 2], v[4 * quads - 1], padding)
<1> DEFINE m == 4 * quads - padding
           n == 3 * quads - padding
           list == OctetsOf(v, n)
           sextet(k) == BitsAt(list, 8, 6 * (k - 1), 6)
           tail == ZeroTail(v[4 * quads - 2], v[4 * quads - 1], padding)
<1>1. quads \in Nat /\ quads > 0 /\ m \in Nat /\ n \in Nat /\ (8 * n + 5) \div 6 = m
  BY DEF Valued
<1>2. Len(list) = n
  BY <1>1 DEF OctetsOf
<1>3. Sextets(list) = [k \in 1..m |-> sextet(k)]
  BY <1>1, <1>2 DEF Sextets
<1>4. FirstValues(v, m) = [k \in 1..m |-> v[k]]
  BY DEF FirstValues
<1>5. \A k \in 1..m : sextet(k) = v[k] <=> ReadBack(v, quads, padding, k)
  BY SextetsReadBack
<1> HIDE DEF list, n, sextet
<1>6. Sextets(list) = FirstValues(v, m) <=> \A k \in 1..m : sextet(k) = v[k]
  <2> HIDE DEF m
  <2>1. ASSUME Sextets(list) = FirstValues(v, m), NEW k \in 1..m PROVE sextet(k) = v[k]
    <3>1. [i \in 1..m |-> sextet(i)][k] = [i \in 1..m |-> v[i]][k]
      BY <1>3, <1>4, <2>1
    <3> QED
      BY <3>1
  <2>2. ASSUME \A k \in 1..m : sextet(k) = v[k] PROVE Sextets(list) = FirstValues(v, m)
    BY <1>3, <1>4, <2>2, Zenon
  <2> QED
    BY <2>1, <2>2
<1>7. (\A k \in 1..m : ReadBack(v, quads, padding, k)) <=> tail
  <2>1. padding \in {0, 1, 2} /\ (padding = 2 => 4 * quads - 2 \in 1..m)
        /\ (padding = 1 => 4 * quads - 1 \in 1..m)
    BY <1>1
  <2> DEFINE char2 == 4 * quads - 2
             char3 == 4 * quads - 1
  <2> HIDE DEF char2, char3, m
  <2>2. ASSUME \A k \in 1..m : ReadBack(v, quads, padding, k) PROVE tail
    <3>1. padding = 2 => v[char2] % 16 = 0
      <4> SUFFICES ASSUME padding = 2 PROVE v[char2] % 16 = 0
        OBVIOUS
      <4>1. ReadBack(v, quads, padding, char2)
        BY <2>1, <2>2 DEF char2
      <4> QED
        BY <4>1 DEF ReadBack, char2
    <3>2. padding = 1 => v[char3] % 4 = 0
      <4> SUFFICES ASSUME padding = 1 PROVE v[char3] % 4 = 0
        OBVIOUS
      <4>1. ReadBack(v, quads, padding, char3)
        BY <2>1, <2>2 DEF char3
      <4> QED
        BY <4>1 DEF ReadBack, char3
    <3> QED
      BY <3>1, <3>2 DEF ZeroTail, char2, char3
  <2>3. ASSUME tail, NEW k \in 1..m PROVE ReadBack(v, quads, padding, k)
    BY <2>3 DEF ZeroTail, ReadBack
  <2> QED
    BY <2>2, <2>3
<1> QED
  BY <1>5, <1>6, <1>7 DEF list, n

\* The elements of two lists, one after the other.
LEMMA ListsJoined ==
  ASSUME NEW a \in Bytes, NEW b \in Bytes
  PROVE  /\ a \o b \in Bytes /\ Len(a \o b) = Len(a) + Len(b)
         /\ \A k \in 1..Len(a) : (a \o b)[k] = a[k]
         /\ \A k \in 1..Len(b) : (a \o b)[Len(a) + k] = b[k]
BY DEF Bytes

\* The bytes of the groups are bytes.
LEMMA OctetsAreTyped ==
  ASSUME NEW v, NEW quads, Valued(v, quads), NEW n \in 0..(3 * quads)
  PROVE  OctetsOf(v, n) \in Bytes /\ Len(OctetsOf(v, n)) = n
         /\ \A k \in 1..n : OctetsOf(v, n)[k] = ByteOf(v, k)
<1>1. quads \in Nat
  BY DEF Valued
<1>2. ASSUME NEW k \in 1..n PROVE ByteOf(v, k) \in Nat
  <2> DEFINE group == (k - 1) \div 3
             place == ((k - 1) % 3) + 1
  <2>1. group \in 0..(quads - 1) /\ place \in 1..3
    BY <1>1
  <2>2. ByteOf(v, k) = ByteIn(v, group, place)
    BY DEF ByteOf
  <2> HIDE DEF group, place
  <2>3. ByteIn(v, group, place) \in 0..255
    BY <2>1, ByteInFacts, ZenonT(120)
  <2> QED
    BY <2>2, <2>3
<1>3. n \in Nat
  BY <1>1
<1> QED
  BY <1>2, <1>3 DEF OctetsOf, Bytes

\* Bytes that are joined with what a group of four values gives.
LEMMA QuantumJoins ==
  ASSUME NEW v, NEW quads, Valued(v, quads), NEW group \in 0..(quads - 1), NEW padding \in 0..2
  PROVE  Joined({OctetsOf(v, 3 * group)},
                Quantum(<<v[4 * group + 1], v[4 * group + 2], v[4 * group + 3], v[4 * group + 4]>>, padding))
           = IF ZeroTail(v[4 * group + 2], v[4 * group + 3], padding)
             THEN {OctetsOf(v, 3 * (group + 1) - padding)} ELSE {}
<1> DEFINE a == v[4 * group + 1]
           b == v[4 * group + 2]
           c == v[4 * group + 3]
           d == v[4 * group + 4]
           front == OctetsOf(v, 3 * group)
           three == <<FirstByte(a, b), SecondByte(b, c), ThirdByte(c, d)>>
           back == SubSeq(three, 1, 3 - padding)
           whole == OctetsOf(v, 3 * (group + 1) - padding)
<1>1. Quantum(<<a, b, c, d>>, padding) = IF ZeroTail(b, c, padding) THEN {back} ELSE {}
  BY DEF Quantum, FirstByte, SecondByte, ThirdByte
<1>2. front \o back = whole
  <2> DEFINE n == 3 * group
             l == 3 - padding
  <2>1. \A i \in 1..3 : three[i] = ByteIn(v, group, i)
    BY DEF ByteIn
  <2>2. \A i \in 1..3 : ByteIn(v, group, i) \in 0..255
    BY ByteInFacts, ZenonT(120)
  <2>3. Len(three) = 3 /\ three \in Seq(Nat)
    <3>1. three[1] \in Nat /\ three[2] \in Nat /\ three[3] \in Nat
      <4>1. \A i \in 1..3 : three[i] \in Nat
        <5> HIDE DEF three
        <5> QED
          BY <2>1, <2>2
      <4> HIDE DEF three
      <4> QED
        BY <4>1
    <3>2. FirstByte(a, b) \in Nat /\ SecondByte(b, c) \in Nat /\ ThirdByte(c, d) \in Nat
      BY <3>1
    <3> QED
      BY <3>2
  <2> HIDE DEF three
  <2>4. /\ back \in Bytes /\ Len(back) = l
        /\ \A i \in 1..l : back[i] = ByteIn(v, group, i)
    <3>1. three \in Bytes /\ l \in Nat /\ l <= Len(three) /\ l \in 1..3
      BY <2>3 DEF Bytes
    <3>2. back = Slice(three, 0, l)
      BY DEF Slice
    <3> HIDE DEF back, l
    <3>3. /\ Slice(three, 0, l) \in Bytes /\ Len(Slice(three, 0, l)) = l
          /\ \A i \in 1..l : Slice(three, 0, l)[i] = three[i]
      BY <3>1, SliceFacts
    <3> QED
      BY <2>1, <3>1, <3>2, <3>3
  <2> HIDE DEF back, a, b, c, d
  <2>5. n \in 0..(3 * quads) /\ n + l \in 0..(3 * quads) /\ 3 * (group + 1) - padding = n + l
        /\ l \in 1..3 /\ n \in Nat
    BY DEF Valued
  <2>6. /\ front \in Bytes /\ Len(front) = n
        /\ \A k \in 1..n : front[k] = ByteOf(v, k)
    <3> HIDE DEF n
    <3> QED
      BY <2>5, OctetsAreTyped, ZenonT(120) DEF n
  <2>7. /\ whole \in Bytes /\ Len(whole) = n + l
        /\ \A k \in 1..(n + l) : whole[k] = ByteOf(v, k)
    <3> DEFINE w == n + l
    <3>1. w \in 0..(3 * quads) /\ whole = OctetsOf(v, w)
      BY <2>5
    <3> HIDE DEF w, whole
    <3>2. whole \in Bytes /\ Len(whole) = w /\ \A k \in 1..w : whole[k] = ByteOf(v, k)
      BY <3>1, OctetsAreTyped, ZenonT(120)
    <3> QED
      BY <3>2 DEF w
  <2>8. \A i \in 1..l : ByteOf(v, n + i) = ByteIn(v, group, i)
    <3>1. \A i \in 1..l : i \in 1..3
      BY <2>5
    <3> HIDE DEF l
    <3> QED
      BY <3>1, ByteOfPlace
  <2> HIDE DEF n, l, front, whole
  <2>9. /\ front \o back \in Bytes /\ Len(front \o back) = n + l
        /\ \A k \in 1..n : (front \o back)[k] = front[k]
        /\ \A i \in 1..l : (front \o back)[n + i] = back[i]
    BY <2>4, <2>6, ListsJoined
  <2>10. \A k \in 1..(n + l) : (front \o back)[k] = whole[k]
    <3> SUFFICES ASSUME NEW k \in 1..(n + l) PROVE (front \o back)[k] = whole[k]
      OBVIOUS
    <3> DEFINE i == k - n
    <3>1. k \in 1..n \/ (i \in 1..l /\ n + i = k)
      BY <2>5
    <3> HIDE DEF i
    <3>2. CASE k \in 1..n
      BY <2>6, <2>7, <2>9, <3>2
    <3>3. CASE i \in 1..l /\ n + i = k
      BY <2>4, <2>7, <2>8, <2>9, <3>3
    <3> QED
      BY <3>1, <3>2, <3>3
  <2> DEFINE joined == front \o back
  <2>11. joined \in Seq(Nat) /\ whole \in Seq(Nat) /\ Len(joined) = Len(whole)
         /\ \A k \in 1..Len(joined) : joined[k] = whole[k]
    BY <2>7, <2>9, <2>10 DEF Bytes
  <2> HIDE DEF joined
  <2>12. joined = whole
    BY <2>11, SeqEqual
  <2> QED
    BY <2>12 DEF joined
<1> HIDE DEF front, back, whole, a, b, c, d
<1>3. Joined({front}, {back}) = {front \o back} /\ Joined({front}, {}) = {}
  BY DEF Joined
<1>4. Joined({front}, Quantum(<<a, b, c, d>>, padding)) =
        IF ZeroTail(b, c, padding) THEN {whole} ELSE {}
  BY <1>1, <1>2, <1>3
<1> QED
  BY <1>4 DEF front, whole, a, b, c, d

\* A bounded nonempty set of naturals has its maximum in it.
LEMMA MaxFacts ==
  ASSUME NEW bound \in Nat, NEW S \in SUBSET (0..bound), S # {}
  PROVE  Max(S) \in S /\ \A k \in S : k <= Max(S)
<1> DEFINE T == {bound - k : k \in S}
<1>1. T \in SUBSET Nat /\ T # {}
  <2>1. \A k \in S : bound - k \in Nat
    OBVIOUS
  <2> QED
    BY <2>1
<1>2. PICK m \in T : \A k \in T : m <= k
  <2> HIDE DEF T
  <2> QED
    BY <1>1, LeastNatural
<1>3. PICK x \in S : m = bound - x
  BY <1>2
<1>4. \A y \in S : x >= y
  <2> SUFFICES ASSUME NEW y \in S PROVE x >= y
    OBVIOUS
  <2>1. bound - x <= bound - y
    BY <1>2, <1>3
  <2> QED
    BY <2>1
<1>5. \E x1 \in S : \A y \in S : x1 >= y
  BY <1>4
<1>6. Max(S) \in S /\ \A y \in S : Max(S) >= y
  BY <1>5, Zenon DEF Max
<1> QED
  BY <1>6

\* What DecodeBase64 decodes: the padded characters, in groups of four.
Clean(encoded) == encoded \o [k \in 1..Filling(Len(encoded)) |-> Pad]
PlainEnd(encoded) == Max({0} \cup {k \in 1..Len(Clean(encoded)) : Clean(encoded)[k] # Pad})
PaddingOf(encoded) == Len(Clean(encoded)) - PlainEnd(encoded)
Quads(encoded) == Len(Clean(encoded)) \div 4

ValueAt(encoded, k) ==
  IF k > Len(Clean(encoded)) - PaddingOf(encoded) THEN {0} ELSE Base64Value(Clean(encoded)[k])

PadIn(encoded, q) == IF 4 * q = Len(Clean(encoded)) THEN PaddingOf(encoded) ELSE 0

GroupValues(encoded, k) ==
  ValueAt(encoded, k) \X ValueAt(encoded, k + 1) \X ValueAt(encoded, k + 2) \X ValueAt(encoded, k + 3)

GroupBytes(encoded, q) ==
  UNION {Quantum(v, PadIn(encoded, q)) : v \in GroupValues(encoded, 4 * q - 3)}

\* The last character that is no padding, the padding behind it, and the groups.
LEMMA CleanFacts ==
  ASSUME NEW encoded \in Texts
  PROVE  /\ PlainEnd(encoded) \in 0..Len(encoded)
         /\ \A k \in 1..Len(encoded) : encoded[k] # Pad => k <= PlainEnd(encoded)
         /\ PlainEnd(encoded) # 0 => encoded[PlainEnd(encoded)] # Pad
         /\ Quads(encoded) \in Nat
         /\ Len(Clean(encoded)) = 4 * Quads(encoded)
         /\ Len(Clean(encoded)) = Len(encoded) + Filling(Len(encoded))
         /\ PaddingOf(encoded) = 4 * Quads(encoded) - PlainEnd(encoded)
         /\ \A k \in 1..Len(encoded) : Clean(encoded)[k] = encoded[k]
<1> DEFINE n == Len(encoded)
           fill == Filling(n)
           pads == [k \in 1..fill |-> Pad]
           clean == Clean(encoded)
           len == Len(clean)
           plain == {0} \cup {k \in 1..len : clean[k] # Pad}
           m == PlainEnd(encoded)
<1>1. n \in Nat /\ fill \in 0..3 /\ fill \in Nat /\ (n + fill) % 4 = 0 /\ encoded \in Bytes
  BY DEF Filling, Texts, Bytes
<1>2. pads \in Bytes /\ Len(pads) = fill /\ \A k \in 1..fill : pads[k] = Pad
  <2>1. fill \in Nat
    BY <1>1
  <2> HIDE DEF fill
  <2> QED
    BY <2>1 DEF Bytes, Pad
<1>3. clean = encoded \o pads
  BY DEF Clean
<1> HIDE DEF fill, pads, clean
<1>4. /\ len = n + fill
      /\ \A k \in 1..n : clean[k] = encoded[k]
      /\ \A k \in 1..fill : clean[n + k] = Pad
  BY <1>1, <1>2, <1>3, ListsJoined
<1>5. m = Max(plain)
  BY DEF PlainEnd, clean
<1>6. plain \in SUBSET (0..n) /\ plain # {} /\ 0 \in plain
  <2>1. ASSUME NEW k \in 1..len, clean[k] # Pad PROVE k \in 0..n
    <3> DEFINE i == k - n
    <3>1. k \in 1..n \/ (i \in 1..fill /\ n + i = k)
      BY <1>1, <1>4
    <3> HIDE DEF i
    <3>2. k \in 1..n
      BY <1>4, <2>1, <3>1
    <3> QED
      BY <3>2
  <2> QED
    BY <1>1, <2>1
<1> HIDE DEF m
<1>7. m \in plain /\ \A k \in plain : k <= m
  <2> HIDE DEF plain, n
  <2> QED
    BY <1>1, <1>5, <1>6, MaxFacts
<1>8. m \in 0..n
  BY <1>6, <1>7
<1>9. ASSUME NEW k \in 1..n, encoded[k] # Pad PROVE k <= m
  <2>1. k \in 1..len /\ clean[k] # Pad
    BY <1>1, <1>4, <1>9
  <2> QED
    BY <1>7, <2>1
<1>10. m # 0 => encoded[m] # Pad
  <2> SUFFICES ASSUME m # 0 PROVE encoded[m] # Pad
    OBVIOUS
  <2>1. clean[m] # Pad /\ m \in 1..n
    BY <1>7, <1>8
  <2> QED
    BY <1>4, <2>1
<1>11. Quads(encoded) \in Nat /\ len = 4 * Quads(encoded)
  <2>1. Quads(encoded) = len \div 4
    BY DEF Quads, clean
  <2> QED
    BY <1>1, <1>4, <2>1
<1>12. PaddingOf(encoded) = len - m
  BY DEF PaddingOf, m, clean
<1> QED
  BY <1>4, <1>8, <1>9, <1>10, <1>11, <1>12 DEF m, clean, fill

\* DecodeBase64 joins the bytes of the groups one by one.
LEMMA Base64Stepwise ==
  ASSUME NEW encoded \in Texts
  PROVE  \E f : /\ f[0] = {<<>>}
                /\ \A q \in 1..Quads(encoded) : f[q] = Joined(f[q - 1], GroupBytes(encoded, q))
                /\ DecodeBase64(encoded) =
                     IF encoded = <<>> \/ Len(encoded) % 4 = 1 \/ PaddingOf(encoded) > 2
                     THEN {} ELSE f[Quads(encoded)]
<1> DEFINE quads == Quads(encoded)
           more(fronts, q) == Joined(fronts, GroupBytes(encoded, q))
           Solves(f, m) == f = [q \in 0..m |-> IF q = 0 THEN {<<>>} ELSE more(f[q - 1], q)]
           P == {m \in Nat : \E f : Solves(f, m)}
           upTo == CHOOSE f : Solves(f, quads)
<1>1. DecodeBase64(encoded) =
        IF encoded = <<>> \/ Len(encoded) % 4 = 1 \/ PaddingOf(encoded) > 2 THEN {} ELSE upTo[quads]
  BY DEF DecodeBase64, GroupBytes, GroupValues, PadIn, ValueAt, Quads, PaddingOf, PlainEnd, Clean
<1>2. quads \in Nat
  BY CleanFacts
<1> HIDE DEF more, quads
<1>3. 0 \in P
  <2> DEFINE f == [q \in 0..0 |-> {<<>>}]
  <2>1. Solves(f, 0)
    OBVIOUS
  <2> HIDE DEF f, Solves
  <2> QED
    BY <2>1
<1>4. ASSUME NEW m \in Nat, m \in P PROVE m + 1 \in P
  <2>1. PICK f : Solves(f, m)
    BY <1>4
  <2> DEFINE g == [q \in 0..(m + 1) |-> IF q = m + 1 THEN more(f[m], m + 1) ELSE f[q]]
  <2>2. ASSUME NEW q \in 0..(m + 1)
        PROVE  g[q] = IF q = 0 THEN {<<>>} ELSE more(g[q - 1], q)
    <3>1. CASE q = m + 1
      <4>1. m + 1 \in 0..(m + 1) /\ m \in 0..(m + 1) /\ m + 1 # 0 /\ m # m + 1 /\ (m + 1) - 1 = m
        OBVIOUS
      <4>2. g[m + 1] = more(f[m], m + 1) /\ g[m] = f[m]
        BY <4>1
      <4> QED
        BY <3>1, <4>1, <4>2
    <3>2. CASE q \in 0..m
      <4>1. f[q] = IF q = 0 THEN {<<>>} ELSE more(f[q - 1], q)
        BY <2>1, <3>2
      <4>2. q # 0 => q - 1 \in 0..m
        BY <3>2
      <4> QED
        BY <3>2, <4>1, <4>2
    <3> QED
      BY <3>1, <3>2
  <2>3. Solves(g, m + 1)
    BY <2>2
  <2> HIDE DEF g, Solves
  <2>4. m + 1 \in Nat
    OBVIOUS
  <2> QED
    BY <2>3, <2>4
<1>5. \E f : Solves(f, quads)
  <2>1. quads \in P
    <3> HIDE DEF P
    <3> QED
      BY <1>2, <1>3, <1>4, Induction
  <2> HIDE DEF Solves
  <2> QED
    BY <2>1
<1>6. Solves(upTo, quads)
  <2> HIDE DEF Solves
  <2> QED
    BY <1>5
<1> HIDE DEF upTo
<1>7. \A q \in 0..quads : upTo[q] = IF q = 0 THEN {<<>>} ELSE more(upTo[q - 1], q)
  BY <1>6
<1>8. upTo[0] = {<<>>}
  <2>1. 0 \in 0..quads
    BY <1>2
  <2> QED
    BY <1>7, <2>1, Zenon
<1>9. ASSUME NEW q \in 1..quads PROVE upTo[q] = more(upTo[q - 1], q)
  <2>1. q \in 0..quads /\ q # 0
    BY <1>2
  <2> QED
    BY <1>7, <2>1, Zenon
<1> QED
  BY <1>1, <1>8, <1>9 DEF more, quads

\* The value of every character, and zeros for the padding.
ValuesOf(encoded) ==
  [k \in 1..(4 * Quads(encoded)) |->
     IF k <= PlainEnd(encoded) THEN CHOOSE v \in Base64Value(encoded[k]) : TRUE ELSE 0]

AllValued(encoded) == \A k \in 1..PlainEnd(encoded) : Base64Value(encoded[k]) # {}

WellPadded(encoded) ==
  encoded # <<>> /\ Len(encoded) % 4 # 1 /\ PaddingOf(encoded) <= 2

TailIsZero(encoded) ==
  LET v == ValuesOf(encoded)
      last == 4 * Quads(encoded)
  IN  ZeroTail(v[last - 2], v[last - 1], PaddingOf(encoded))

DecodedBytes(encoded) ==
  OctetsOf(ValuesOf(encoded), 3 * Quads(encoded) - PaddingOf(encoded))

\* A character has one value of six bits at most, and padding has none.
LEMMA ValueOfCharacter ==
  ASSUME NEW char \in Nat
  PROVE  /\ Base64Value(char) # {} =>
              Base64Value(char) = {CHOOSE v \in Base64Value(char) : TRUE}
         /\ \A v \in Base64Value(char) : v \in 0..63
         /\ Base64Value(Pad) = {}
<1>1. Base64Value(Pad) = {}
  BY DEF Base64Value, Pad, UpperCase, LowerCase, Digits
<1>2. Base64Value(char) \in {{char - 65}, {char - 97 + 26}, {char - 48 + 52}, {62}, {63}, {}}
  BY DEF Base64Value
<1>3. Base64Value(char) # {} => Base64Value(char) = {CHOOSE v \in Base64Value(char) : TRUE}
  <2>1. Base64Value(char) # {} => \E x : Base64Value(char) = {x}
    BY <1>2
  <2> QED
    BY <2>1
<1>4. \A v \in Base64Value(char) : v \in 0..63
  BY DEF Base64Value, UpperCase, LowerCase, Digits
<1> QED
  BY <1>1, <1>3, <1>4

\* If the padding is right, there are groups, and the padding is in the last.
LEMMA PaddedFacts ==
  ASSUME NEW encoded \in Texts, WellPadded(encoded)
  PROVE  /\ Quads(encoded) \in Nat \ {0} /\ PaddingOf(encoded) \in 0..2
         /\ PlainEnd(encoded) = 4 * Quads(encoded) - PaddingOf(encoded)
         /\ Len(encoded) \in Nat \ {0}
<1>1. /\ PlainEnd(encoded) \in 0..Len(encoded) /\ Quads(encoded) \in Nat
      /\ 4 * Quads(encoded) = Len(encoded) + Filling(Len(encoded))
      /\ PaddingOf(encoded) = 4 * Quads(encoded) - PlainEnd(encoded)
  BY CleanFacts
<1>2. Len(encoded) \in Nat \ {0}
  BY DEF WellPadded, Texts
<1>3. Filling(Len(encoded)) \in Nat
  BY <1>2 DEF Filling
<1> DEFINE n == Len(encoded)
           q == Quads(encoded)
           m == PlainEnd(encoded)
           p == PaddingOf(encoded)
           fill == Filling(n)
<1>4. /\ m \in 0..n /\ q \in Nat /\ 4 * q = n + fill /\ p = 4 * q - m /\ n \in Nat /\ n # 0
      /\ fill \in Nat /\ p <= 2
  BY <1>1, <1>2, <1>3 DEF WellPadded
<1> HIDE DEF n, q, m, p, fill
<1>5. q \in Nat \ {0} /\ p \in 0..2 /\ m = 4 * q - p /\ n \in Nat \ {0}
  BY <1>4
<1> QED
  BY <1>5 DEF n, q, m, p

\* If every character has a value, the values are those of the groups.
LEMMA GroupsAreValued ==
  ASSUME NEW encoded \in Texts, WellPadded(encoded), AllValued(encoded)
  PROVE  /\ Valued(ValuesOf(encoded), Quads(encoded))
         /\ \A k \in 1..(4 * Quads(encoded)) : ValueAt(encoded, k) = {ValuesOf(encoded)[k]}
<1> DEFINE v == ValuesOf(encoded)
           len == 4 * Quads(encoded)
           m == PlainEnd(encoded)
<1>1. /\ m \in 0..Len(encoded) /\ Len(encoded) \in Nat
      /\ Len(Clean(encoded)) = len /\ PaddingOf(encoded) = len - m
      /\ \A k \in 1..Len(encoded) : Clean(encoded)[k] = encoded[k] /\ encoded[k] \in Nat
      /\ len \in Nat
  <2>1. /\ m \in 0..Len(encoded) /\ Quads(encoded) \in Nat
        /\ Len(Clean(encoded)) = len /\ PaddingOf(encoded) = len - m
        /\ \A k \in 1..Len(encoded) : Clean(encoded)[k] = encoded[k]
    BY CleanFacts
  <2>2. Len(encoded) \in Nat /\ \A k \in 1..Len(encoded) : encoded[k] \in Nat
    BY DEF Texts
  <2> QED
    BY <2>1, <2>2
<1>2. \A k \in 1..len : v[k] = IF k <= m THEN CHOOSE x \in Base64Value(encoded[k]) : TRUE ELSE 0
  BY DEF ValuesOf
<1>3. len - (len - m) = m
  BY <1>1
<1> HIDE DEF v
<1>4. ASSUME NEW k \in 1..len PROVE ValueAt(encoded, k) = {v[k]} /\ v[k] \in 0..63
  <2>1. ValueAt(encoded, k) = IF k > m THEN {0} ELSE Base64Value(Clean(encoded)[k])
    BY <1>1, <1>3 DEF ValueAt
  <2>2. CASE k > m
    <3>1. ~(k <= m)
      BY <1>1, <2>2
    <3>2. v[k] = 0
      BY <1>2, <3>1
    <3> QED
      BY <2>1, <2>2, <3>2
  <2>3. CASE ~(k > m)
    <3>1. k \in 1..m /\ k \in 1..Len(encoded) /\ k <= m
      BY <1>1, <2>3
    <3> DEFINE char == encoded[k]
    <3>2. char \in Nat /\ Clean(encoded)[k] = char /\ Base64Value(char) # {}
      BY <1>1, <3>1 DEF AllValued
    <3>3. v[k] = CHOOSE x \in Base64Value(char) : TRUE
      BY <1>2, <3>1
    <3> HIDE DEF char
    <3>4. Base64Value(char) = {v[k]} /\ \A x \in Base64Value(char) : x \in 0..63
      BY <3>2, <3>3, ValueOfCharacter
    <3>5. v[k] \in 0..63
      BY <3>4
    <3> QED
      BY <2>1, <2>3, <3>2, <3>4, <3>5
  <2> QED
    BY <2>2, <2>3
<1>5. Quads(encoded) \in Nat \ {0}
  BY PaddedFacts
<1> QED
  BY <1>4, <1>5 DEF Valued, v, len

\* A group of characters that all have a value gives what their values give.
LEMMA GroupGives ==
  ASSUME NEW encoded \in Texts, WellPadded(encoded), AllValued(encoded),
         NEW group \in 0..(Quads(encoded) - 1)
  PROVE  LET v == ValuesOf(encoded)
         IN  GroupBytes(encoded, group + 1) =
               Quantum(<<v[4 * group + 1], v[4 * group + 2], v[4 * group + 3], v[4 * group + 4]>>,
                       IF group + 1 = Quads(encoded) THEN PaddingOf(encoded) ELSE 0)
<1> DEFINE v == ValuesOf(encoded)
           k == 4 * (group + 1) - 3
           padding == IF group + 1 = Quads(encoded) THEN PaddingOf(encoded) ELSE 0
           four == <<v[4 * group + 1], v[4 * group + 2], v[4 * group + 3], v[4 * group + 4]>>
<1>1. Quads(encoded) \in Nat /\ Len(Clean(encoded)) = 4 * Quads(encoded)
  BY CleanFacts
<1>2. PadIn(encoded, group + 1) = padding
  BY <1>1 DEF PadIn
<1>3. /\ k = 4 * group + 1 /\ k + 1 = 4 * group + 2 /\ k + 2 = 4 * group + 3
      /\ k + 3 = 4 * group + 4
      /\ \A i \in 1..4 : 4 * group + i \in 1..(4 * Quads(encoded))
  BY <1>1
<1>4. \A i \in 1..(4 * Quads(encoded)) : ValueAt(encoded, i) = {v[i]}
  BY GroupsAreValued
<1> HIDE DEF v
<1>5. /\ ValueAt(encoded, 4 * group + 1) = {v[4 * group + 1]}
      /\ ValueAt(encoded, 4 * group + 2) = {v[4 * group + 2]}
      /\ ValueAt(encoded, 4 * group + 3) = {v[4 * group + 3]}
      /\ ValueAt(encoded, 4 * group + 4) = {v[4 * group + 4]}
  BY <1>3, <1>4
<1> HIDE DEF k, padding
<1>6. GroupValues(encoded, k) = {four}
  BY <1>3, <1>5 DEF GroupValues
<1>7. GroupBytes(encoded, group + 1) = UNION {Quantum(x, padding) : x \in GroupValues(encoded, k)}
  BY <1>2 DEF GroupBytes, k
<1> HIDE DEF four
<1>8. GroupBytes(encoded, group + 1) = Quantum(four, padding)
  BY <1>6, <1>7
<1> QED
  BY <1>8 DEF four, v, padding

\* What DecodeBase64 returns: nothing, unless the padding is right, every other
\* character has a value, and the bits that no byte takes are zero.
LEMMA Base64Decodes ==
  ASSUME NEW encoded \in Texts
  PROVE  DecodeBase64(encoded) =
           IF WellPadded(encoded) /\ AllValued(encoded) /\ TailIsZero(encoded)
           THEN {DecodedBytes(encoded)} ELSE {}
<1>1. PICK f : /\ f[0] = {<<>>}
               /\ \A q \in 1..Quads(encoded) : f[q] = Joined(f[q - 1], GroupBytes(encoded, q))
               /\ DecodeBase64(encoded) =
                    IF encoded = <<>> \/ Len(encoded) % 4 = 1 \/ PaddingOf(encoded) > 2
                    THEN {} ELSE f[Quads(encoded)]
  BY Base64Stepwise
<1>2. PaddingOf(encoded) \in Int
  BY CleanFacts
<1>3. DecodeBase64(encoded) = IF WellPadded(encoded) THEN f[Quads(encoded)] ELSE {}
  BY <1>1, <1>2 DEF WellPadded
<1>4. SUFFICES ASSUME WellPadded(encoded)
               PROVE  f[Quads(encoded)] = IF AllValued(encoded) /\ TailIsZero(encoded)
                                          THEN {DecodedBytes(encoded)} ELSE {}
  BY <1>3
<1> DEFINE quads == Quads(encoded)
           padding == PaddingOf(encoded)
           v == ValuesOf(encoded)
<1>5. quads \in Nat \ {0} /\ padding \in 0..2
  BY <1>4, PaddedFacts
<1>6. CASE ~AllValued(encoded)
  <2>1. PICK k \in 1..PlainEnd(encoded) : Base64Value(encoded[k]) = {}
    BY <1>6 DEF AllValued
  <2>2. /\ PlainEnd(encoded) \in 0..Len(encoded) /\ Len(encoded) \in Nat
        /\ Len(Clean(encoded)) = 4 * quads /\ padding = 4 * quads - PlainEnd(encoded)
        /\ \A i \in 1..Len(encoded) : Clean(encoded)[i] = encoded[i]
    BY CleanFacts, SMTT(40) DEF Texts
  <2>3. ValueAt(encoded, k) = {}
    <3>1. k \in 1..Len(encoded) /\ ~(k > Len(Clean(encoded)) - PaddingOf(encoded))
      BY <2>2
    <3> QED
      BY <2>1, <2>2, <3>1 DEF ValueAt
  <2> DEFINE group == (k - 1) \div 4
             first == 4 * (group + 1) - 3
  <2>4. /\ group + 1 \in 1..quads
        /\ k = first \/ k = first + 1 \/ k = first + 2 \/ k = first + 3
    BY <1>5, <2>2
  <2> HIDE DEF group
  <2>5. GroupBytes(encoded, group + 1) = {}
    <3> HIDE DEF first
    <3>1. GroupValues(encoded, first) = {}
      BY <2>3, <2>4 DEF GroupValues
    <3> QED
      BY <3>1 DEF GroupBytes, first
  <2> HIDE DEF first, quads
  <2> DEFINE Q == {q \in Nat : group + 1 <= q /\ q <= quads => f[q] = {}}
  <2>6. 0 \in Q
    BY <2>4
  <2>7. ASSUME NEW q \in Nat, q \in Q PROVE q + 1 \in Q
    <3> SUFFICES ASSUME group + 1 <= q + 1, q + 1 <= quads PROVE f[q + 1] = {}
      OBVIOUS
    <3>1. q + 1 \in 1..quads /\ (q + 1) - 1 = q /\ (group + 1 = q + 1 \/ group + 1 <= q) /\ q <= quads
      BY <1>5, <2>4
    <3>2. f[q + 1] = Joined(f[q], GroupBytes(encoded, q + 1))
      BY <1>1, <3>1 DEF quads
    <3>3. CASE group + 1 = q + 1
      BY <2>5, <3>2, <3>3 DEF Joined
    <3>4. CASE group + 1 <= q
      <4>1. f[q] = {}
        BY <2>7, <3>1, <3>4
      <4> QED
        BY <3>2, <4>1 DEF Joined
    <3> QED
      BY <3>1, <3>3, <3>4
  <2>8. quads \in Q
    <3> HIDE DEF Q
    <3> QED
      BY <1>5, <2>6, <2>7, Induction
  <2>9. f[quads] = {}
    BY <1>5, <2>4, <2>8
  <2> QED
    BY <1>6, <2>9 DEF quads
<1>7. CASE AllValued(encoded)
  <2>1. Valued(v, quads)
    BY <1>4, <1>7, GroupsAreValued
  <2> DEFINE four(group) == <<v[4 * group + 1], v[4 * group + 2], v[4 * group + 3], v[4 * group + 4]>>
             pad(group) == IF group + 1 = quads THEN padding ELSE 0
             zero(group) == ZeroTail(v[4 * group + 2], v[4 * group + 3], pad(group))
  <2>2. ASSUME NEW group \in 0..(quads - 1), f[group] = {OctetsOf(v, 3 * group)}
        PROVE  f[group + 1] = IF zero(group) THEN {OctetsOf(v, 3 * (group + 1) - pad(group))} ELSE {}
    <3>1. group + 1 \in 1..quads /\ (group + 1) - 1 = group
      BY <1>5
    <3>2. f[group + 1] = Joined(f[group], GroupBytes(encoded, group + 1))
      BY <1>1, <3>1
    <3>3. GroupBytes(encoded, group + 1) = Quantum(four(group), pad(group))
      BY <1>4, <1>7, <2>2, GroupGives
    <3>4. pad(group) \in 0..2
      BY <1>5
    <3> HIDE DEF v, quads, padding, pad
    <3>5. Joined({OctetsOf(v, 3 * group)}, Quantum(four(group), pad(group)))
            = IF zero(group) THEN {OctetsOf(v, 3 * (group + 1) - pad(group))} ELSE {}
      BY <2>1, <2>2, <3>4, QuantumJoins, ZenonT(120)
    <3> QED
      BY <2>2, <3>2, <3>3, <3>5
  <2> HIDE DEF v
  <2> DEFINE Q == {q \in Nat : q < quads => f[q] = {OctetsOf(v, 3 * q)}}
  <2>3. 0 \in Q
    <3>1. 3 * 0 = 0 /\ OctetsOf(v, 0) = <<>>
      BY DEF OctetsOf
    <3> QED
      BY <1>1, <3>1
  <2>4. ASSUME NEW q \in Nat, q \in Q PROVE q + 1 \in Q
    <3> SUFFICES ASSUME q + 1 < quads PROVE f[q + 1] = {OctetsOf(v, 3 * (q + 1))}
      OBVIOUS
    <3>1. q \in 0..(quads - 1) /\ q < quads /\ q + 1 # quads /\ 3 * (q + 1) - 0 = 3 * (q + 1)
      BY <1>5
    <3>2. f[q] = {OctetsOf(v, 3 * q)}
      BY <2>4, <3>1
    <3>3. pad(q) = 0
      BY <3>1
    <3>4. zero(q)
      BY <3>3 DEF ZeroTail
    <3> HIDE DEF quads, zero, pad
    <3>5. f[q + 1] = {OctetsOf(v, 3 * (q + 1) - pad(q))}
      BY <2>2, <3>1, <3>2, <3>4
    <3> QED
      BY <3>1, <3>3, <3>5
  <2> DEFINE last == quads - 1
  <2>5. last \in Nat /\ last \in 0..(quads - 1) /\ last < quads /\ last + 1 = quads
        /\ 4 * last + 2 = 4 * quads - 2 /\ 4 * last + 3 = 4 * quads - 1
    BY <1>5
  <2>6. f[last] = {OctetsOf(v, 3 * last)}
    <3>1. last \in Q
      <4> HIDE DEF Q, last
      <4> QED
        BY <2>3, <2>4, <2>5, Induction
    <3> HIDE DEF last
    <3> QED
      BY <2>5, <3>1
  <2>7. pad(last) = padding
    BY <2>5
  <2> HIDE DEF last, quads, padding, pad
  <2>8. f[quads] = IF zero(last) THEN {OctetsOf(v, 3 * quads - padding)} ELSE {}
    BY <2>2, <2>5, <2>6, <2>7
  <2>9. zero(last) <=> ZeroTail(v[4 * quads - 2], v[4 * quads - 1], padding)
    BY <2>5, <2>7
  <2> QED
    BY <1>7, <2>8, <2>9 DEF TailIsZero, DecodedBytes, v, quads, padding
<1> QED
  BY <1>6, <1>7

\* The values of the first m characters, as Base64Denotes takes them.
TakenValues(encoded, m) == [k \in 1..m |-> CHOOSE v \in Base64Value(encoded[k]) : TRUE]

\* Only the place of the last character that is no padding may have padding and
\* nothing else behind it.
LEMMA PaddedAtEnd ==
  ASSUME NEW encoded \in Texts, NEW m \in 1..Len(encoded), Padded(encoded, m)
  PROVE  m = PlainEnd(encoded)
<1> DEFINE last == PlainEnd(encoded)
<1>1. /\ last \in 0..Len(encoded) /\ Len(encoded) \in Nat
      /\ \A k \in 1..Len(encoded) : encoded[k] # Pad => k <= last
      /\ last # 0 => encoded[last] # Pad
  BY CleanFacts DEF Texts
<1>2. encoded[m] # Pad
  <2>1. Base64Value(encoded[m]) # {}
    BY DEF Padded
  <2>2. Base64Value(Pad) = {}
    BY ValueOfCharacter
  <2> QED
    BY <2>1, <2>2
<1>3. m <= last
  BY <1>1, <1>2
<1>4. ~(m < last)
  <2> SUFFICES ASSUME m < last PROVE FALSE
    OBVIOUS
  <2>1. last \in (m + 1)..Len(encoded) /\ last # 0
    BY <1>1
  <2> QED
    BY <1>1, <2>1 DEF Padded
<1> QED
  BY <1>1, <1>3, <1>4

\* Padding is right for the decoder exactly if it is at most what completes a
\* group, unless a character is alone in its group.
LEMMA PaddingAgrees ==
  ASSUME NEW encoded \in Texts
  PROVE  LET m == PlainEnd(encoded)
         IN  WellPadded(encoded) <=>
               m # 0 /\ m % 4 # 1 /\ Len(encoded) - m <= Filling(m)
<1> DEFINE n == Len(encoded)
           m == PlainEnd(encoded)
           q == Quads(encoded)
           p == PaddingOf(encoded)
<1>1. /\ m \in 0..n /\ n \in Nat /\ q \in Nat /\ 4 * q = n + Filling(n) /\ p = 4 * q - m
      /\ encoded # <<>> <=> n # 0
  <2>1. /\ m \in 0..n /\ q \in Nat /\ 4 * q = n + Filling(n) /\ p = 4 * q - m
    BY CleanFacts
  <2>2. n \in Nat /\ (encoded # <<>> <=> n # 0)
    BY DEF Texts
  <2> QED
    BY <2>1, <2>2
<1> HIDE DEF n, m, q, p
<1>2. (n # 0 /\ n % 4 # 1 /\ p <= 2) <=> (m # 0 /\ m % 4 # 1 /\ n - m <= Filling(m))
  <2>1. Filling(n) = (4 - (n % 4)) % 4 /\ Filling(m) = (4 - (m % 4)) % 4
    BY DEF Filling
  <2>2. m \in Nat
    BY <1>1
  <2> QED
    BY <1>1, <2>1, <2>2, SMTT(60)
<1> QED
  BY <1>1, <1>2 DEF WellPadded, n, m, p

\* A character that is alone in its group is behind the last byte.
LEMMA AloneIsLost ==
  ASSUME NEW m \in Nat, m % 4 = 1, NEW list \in Seq(Nat), Len(list) = m
  PROVE  Sextets(Octets(list)) # list
<1> DEFINE l == (6 * m) \div 8
           octets == [k \in 1..l |-> BitsAt(list, 6, 8 * (k - 1), 8)]
           s == (8 * l + 5) \div 6
<1>1. l \in Nat /\ s \in Nat /\ s # m
  OBVIOUS
<1>2. Octets(list) = octets
  BY DEF Octets
<1>3. Len(octets) = l
  <2> HIDE DEF l
  <2> QED
    BY <1>1
<1> HIDE DEF octets, l
<1>4. Sextets(octets) = [k \in 1..s |-> BitsAt(octets, 8, 6 * (k - 1), 6)]
  BY <1>3 DEF Sextets
<1>5. Len(Sextets(octets)) = s
  <2> HIDE DEF s
  <2> QED
    BY <1>1, <1>4
<1> QED
  BY <1>1, <1>2, <1>5

\* Base64 is decoded to what it denotes: the one byte string that it encodes.
LEMMA Base64IsInverse ==
  ASSUME NEW encoded \in Texts
  PROVE  DecodeBase64(encoded) = Base64Denotes(encoded)
<1> DEFINE m == PlainEnd(encoded)
           n == Len(encoded)
           v == ValuesOf(encoded)
           taken(k) == TakenValues(encoded, k)
           good(k) == Padded(encoded, k) /\ Sextets(Octets(taken(k))) = taken(k)
           fine == WellPadded(encoded) /\ AllValued(encoded) /\ TailIsZero(encoded)
<1>1. DecodeBase64(encoded) = IF fine THEN {DecodedBytes(encoded)} ELSE {}
  BY Base64Decodes
<1>2. Base64Denotes(encoded) = {Octets(taken(k)) : k \in {i \in 1..n : good(i)}}
  BY DEF Base64Denotes, TakenValues
<1>3. /\ m \in 0..n /\ n \in Nat
      /\ \A k \in 1..n : encoded[k] # Pad => k <= m
  BY CleanFacts DEF Texts
<1>4. ASSUME WellPadded(encoded), AllValued(encoded)
      PROVE  /\ taken(m) = FirstValues(v, m) /\ Octets(taken(m)) = DecodedBytes(encoded)
             /\ Sextets(Octets(taken(m))) = taken(m) <=> TailIsZero(encoded)
  <2> DEFINE quads == Quads(encoded)
             padding == PaddingOf(encoded)
  <2>1. Valued(v, quads) /\ quads \in Nat /\ padding \in 0..2 /\ m = 4 * quads - padding
    BY <1>4, GroupsAreValued, PaddedFacts
  <2>2. \A k \in 1..m : k \in 1..(4 * quads) /\ k <= m
    BY <2>1
  <2>3. \A k \in 1..m : v[k] = CHOOSE x \in Base64Value(encoded[k]) : TRUE
    BY <2>2 DEF ValuesOf
  <2> HIDE DEF v, quads, padding, m
  <2>4. taken(m) = FirstValues(v, m)
    BY <2>3, Zenon DEF TakenValues, FirstValues
  <2>5. Octets(FirstValues(v, m)) = OctetsOf(v, 3 * quads - padding)
    BY <2>1, OctetsAreBytesOf
  <2>6. Sextets(OctetsOf(v, 3 * quads - padding)) = FirstValues(v, m)
          <=> ZeroTail(v[4 * quads - 2], v[4 * quads - 1], padding)
    BY <2>1, SextetsAreValues
  <2>7. DecodedBytes(encoded) = OctetsOf(v, 3 * quads - padding)
        /\ (TailIsZero(encoded) <=> ZeroTail(v[4 * quads - 2], v[4 * quads - 1], padding))
    BY DEF DecodedBytes, TailIsZero, v, quads, padding
  <2> QED
    BY <2>4, <2>5, <2>6, <2>7
<1>5. ASSUME fine PROVE m \in 1..n /\ good(m)
  <2>1. m # 0 /\ n - m <= Filling(m)
    BY <1>5, PaddingAgrees
  <2>2. m \in 1..n
    BY <1>3, <2>1
  <2>3. \A k \in (m + 1)..n : encoded[k] = Pad
    BY <1>3
  <2>4. Padded(encoded, m)
    BY <1>5, <2>1, <2>3 DEF Padded, AllValued
  <2> QED
    BY <1>4, <1>5, <2>2, <2>4
<1>6. ASSUME NEW k \in 1..n, good(k) PROVE k = m /\ fine
  <2>1. k = m
    BY <1>6, PaddedAtEnd
  <2> HIDE DEF m
  <2>2. Padded(encoded, m) /\ m \in 1..n
    BY <1>6, <2>1
  <2>3. AllValued(encoded)
    BY <2>2 DEF Padded, AllValued, m
  <2>4. m % 4 # 1
    <3> SUFFICES ASSUME m % 4 = 1 PROVE FALSE
      OBVIOUS
    <3>1. m \in Nat
      BY <1>3
    <3>2. ASSUME NEW i \in 1..m PROVE (CHOOSE x \in Base64Value(encoded[i]) : TRUE) \in Nat
      <4>1. Base64Value(encoded[i]) # {} /\ encoded[i] \in Nat
        BY <1>3, <2>3 DEF AllValued, m, Texts
      <4>2. \A x \in Base64Value(encoded[i]) : x \in 0..63
        BY <4>1, ValueOfCharacter
      <4> DEFINE value == CHOOSE x \in Base64Value(encoded[i]) : TRUE
      <4>3. value \in Base64Value(encoded[i])
        BY <4>1
      <4> HIDE DEF value
      <4>4. value \in 0..63
        BY <4>2, <4>3
      <4>5. value \in Nat
        BY <4>4
      <4> QED
        BY <4>5, Zenon DEF value
    <3>3. taken(m) \in Seq(Nat) /\ Len(taken(m)) = m
      BY <3>1, <3>2 DEF TakenValues
    <3> HIDE DEF taken
    <3>4. Sextets(Octets(taken(m))) # taken(m)
      BY <3>1, <3>3, AloneIsLost
    <3> QED
      BY <1>6, <2>1, <3>4
  <2>5. WellPadded(encoded)
    <3>1. m # 0 /\ n - m <= Filling(m)
      BY <2>2 DEF Padded
    <3> QED
      BY <2>4, <3>1, PaddingAgrees DEF m
  <2>6. TailIsZero(encoded)
    BY <1>4, <1>6, <2>1, <2>3, <2>5
  <2> QED
    BY <2>1, <2>3, <2>5, <2>6
<1>7. CASE fine
  <2>1. {i \in 1..n : good(i)} = {m}
    <3> HIDE DEF good, m, n
    <3> QED
      BY <1>5, <1>6, <1>7
  <2>2. Octets(taken(m)) = DecodedBytes(encoded)
    BY <1>4, <1>7
  <2> HIDE DEF good, m, n, fine, taken
  <2> QED
    BY <1>1, <1>2, <1>7, <2>1, <2>2
<1>8. CASE ~fine
  <2>1. {i \in 1..n : good(i)} = {}
    <3> HIDE DEF good, m, n, fine
    <3> QED
      BY <1>6, <1>8
  <2> HIDE DEF good, m, n, fine, taken
  <2> QED
    BY <1>1, <1>2, <1>8, <2>1
<1> QED
  BY <1>7, <1>8

\* What is joined of byte strings are byte strings.
LEMMA JoinedIsTyped ==
  ASSUME NEW fronts \in SUBSET Bytes, NEW backs \in SUBSET Bytes
  PROVE  Joined(fronts, backs) \subseteq Bytes
<1> SUFFICES ASSUME NEW x \in Joined(fronts, backs) PROVE x \in Bytes
  OBVIOUS
<1>1. PICK front \in fronts, back \in backs : x = front \o back
  BY DEF Joined
<1> QED
  BY <1>1, JoinFacts

\* At most one value.
AtMostOne(values) == \A x, y \in values : x = y

\* What base64 decodes to is one byte string at most.
LEMMA Base64IsTyped ==
  ASSUME NEW encoded \in Texts
  PROVE  DecodeBase64(encoded) \subseteq Bytes /\ AtMostOne(DecodeBase64(encoded))
<1>1. DecodeBase64(encoded) =
        IF WellPadded(encoded) /\ AllValued(encoded) /\ TailIsZero(encoded)
        THEN {DecodedBytes(encoded)} ELSE {}
  BY Base64Decodes
<1>2. ASSUME WellPadded(encoded), AllValued(encoded) PROVE DecodedBytes(encoded) \in Bytes
  <2> DEFINE v == ValuesOf(encoded)
             quads == Quads(encoded)
             n == 3 * quads - PaddingOf(encoded)
  <2>1. Valued(v, quads) /\ quads \in Nat \ {0} /\ PaddingOf(encoded) \in 0..2
    BY <1>2, GroupsAreValued, PaddedFacts
  <2>2. n \in 0..(3 * quads)
    BY <2>1
  <2>3. DecodedBytes(encoded) = OctetsOf(v, n)
    BY DEF DecodedBytes
  <2> HIDE DEF v, quads, n
  <2> QED
    BY <2>1, <2>2, <2>3, OctetsAreTyped
<1> QED
  BY <1>1, <1>2 DEF AtMostOne

\* A marked section and a single character stand for one byte string at most.
LEMMA UnitsAreTyped ==
  ASSUME NEW char \in Nat, NEW inside \in Texts
  PROVE  /\ Section(char, inside) \subseteq Bytes /\ AtMostOne(Section(char, inside))
         /\ Single(char) \subseteq Bytes /\ AtMostOne(Single(char))
<1>1. DecodeBase64(inside) \subseteq Bytes /\ AtMostOne(DecodeBase64(inside))
  BY Base64IsTyped
<1>2. \A n \in 0..MaxCount : [k \in 1..n |-> 32] \in Bytes
  BY MaxCountAssumption DEF Bytes
<1>3. Section(char, inside) \subseteq Bytes
  BY <1>1, <1>2 DEF Section
<1>4. AtMostOne(Section(char, inside))
  <2>1. CASE char = Base64Mark
    BY <1>1, <2>1 DEF Section, AtMostOne
  <2>2. CASE char # Base64Mark
    <3> DEFINE spaces(n) == [k \in 1..n |-> 32]
               amounts == {m \in {Number(inside)} \cap 0..MaxCount :
                            inside # <<>> /\ Range(inside) \subseteq Digits}
    <3>1. Section(char, inside) = {spaces(n) : n \in amounts}
      BY <2>2 DEF Section
    <3>2. \A m, n \in amounts : m = n
      OBVIOUS
    <3> HIDE DEF amounts, spaces
    <3> QED
      BY <3>1, <3>2 DEF AtMostOne
  <2> QED
    BY <2>1, <2>2
<1>5. Utf8(char) \in Bytes
  <2> DEFINE low  == 128 + ((char \div 1) % 64)
             mid  == 128 + ((char \div 64) % 64)
             high == 128 + ((char \div 4096) % 64)
             two   == 192 + (char \div 64)
             three == 224 + (char \div 4096)
             four  == 240 + (char \div 262144)
  <2>1. /\ two \in Nat /\ three \in Nat /\ four \in Nat
        /\ low \in Nat /\ mid \in Nat /\ high \in Nat
    <3>1. char \in Nat
      OBVIOUS
    <3>2. /\ char \div 64 \in Nat /\ char \div 4096 \in Nat /\ char \div 262144 \in Nat
          /\ char \div 1 \in Nat
      BY ONLY <3>1, SMTT(40)
    <3>3. \A part \in Nat : part % 64 \in Nat
      BY ONLY SMTT(40)
    <3> QED
      BY ONLY <3>2, <3>3, SMTT(40)
  <2>2. Utf8(char) \in {<<char>>, <<two, low>>, <<three, mid, low>>, <<four, high, mid, low>>}
    BY ONLY SMTT(40) DEF Utf8
  <2> HIDE DEF low, mid, high, two, three, four
  <2>3. /\ <<char>> \in Bytes /\ <<two, low>> \in Bytes /\ <<three, mid, low>> \in Bytes
        /\ <<four, high, mid, low>> \in Bytes
    BY <2>1 DEF Bytes
  <2> QED
    BY <2>2, <2>3
<1>6. <<LF>> \in Bytes /\ <<9>> \in Bytes
  BY DEF Bytes, LF
<1>7. Single(char) \subseteq Bytes
  BY <1>5, <1>6 DEF Single
<1>8. AtMostOne(Single(char))
  BY DEF Single, AtMostOne
<1> QED
  BY <1>3, <1>4, <1>7, <1>8

\* The unit that the decoder finds at a place: a character, or a section up to
\* the first mark that closes it, if there is one.
IsMark(char) == char \in {Base64Mark, SpacesMark}
CloseOf(char) == IF char = Base64Mark THEN Base64End ELSE SpacesMark
Closes(text, i) == {k \in (i + 1)..Len(text) : text[k] = CloseOf(text[i])}
Stuck(text, i) == IsMark(text[i]) /\ Closes(text, i) = {}

NextAt(text, i) == IF IsMark(text[i]) THEN Min(Closes(text, i)) + 1 ELSE i + 1

UnitAt(text, i) ==
  IF IsMark(text[i]) THEN Section(text[i], SubSeq(text, i + 1, Min(Closes(text, i)) - 1))
  ELSE Single(text[i])

\* Behind a unit the text goes on, or is at its end.
LEMMA UnitFacts ==
  ASSUME NEW text \in Texts, NEW i \in 1..Len(text), ~Stuck(text, i)
  PROVE  /\ NextAt(text, i) \in (i + 1)..(Len(text) + 1)
         /\ UnitAt(text, i) \subseteq Bytes /\ AtMostOne(UnitAt(text, i))
<1> DEFINE closes == Closes(text, i)
           len == Len(text)
<1>1. len \in Nat /\ text[i] \in Nat
  BY DEF Texts
<1>2. CASE ~IsMark(text[i])
  <2>1. <<>> \in Texts
    BY DEF Texts
  <2>2. Single(text[i]) \subseteq Bytes /\ AtMostOne(Single(text[i]))
    BY <1>1, <2>1, UnitsAreTyped
  <2> QED
    BY <1>1, <1>2, <2>2 DEF NextAt, UnitAt
<1>3. CASE IsMark(text[i])
  <2>1. closes \in SUBSET Nat /\ closes # {} /\ closes \subseteq (i + 1)..len
    BY <1>1, <1>3 DEF Stuck, Closes
  <2> DEFINE least == Min(closes)
             inside == SubSeq(text, i + 1, least - 1)
  <2>2. least \in (i + 1)..len
    <3> HIDE DEF closes
    <3> QED
      BY <2>1, MinFacts
  <2> HIDE DEF least
  <2>3. inside \in Texts
    BY <1>1, <2>2 DEF Texts
  <2>4. NextAt(text, i) = least + 1 /\ UnitAt(text, i) = Section(text[i], inside)
    BY <1>3 DEF NextAt, UnitAt, least
  <2> HIDE DEF inside
  <2>5. Section(text[i], inside) \subseteq Bytes /\ AtMostOne(Section(text[i], inside))
    BY <1>1, <2>3, UnitsAreTyped
  <2> QED
    BY <1>1, <2>2, <2>4, <2>5
<1> QED
  BY <1>2, <1>3

\* What a unit means by its first and last character and what is between them.
UnitReads(unit, n, first, final, inside) ==
  /\ n = 1 => UnitDenotes(unit) = IF IsMark(first) THEN {} ELSE Single(first)
  /\ n > 1 => UnitDenotes(unit) =
       IF IsMark(first) /\ final = CloseOf(first) /\ CloseOf(first) \notin Range(inside)
       THEN Section(first, inside) ELSE {}

\* A unit by its first and last character and what is between them.
LEMMA UnitMeans ==
  ASSUME NEW unit \in Texts, NEW n \in Nat \ {0}, Len(unit) = n,
         NEW first \in Nat, unit[1] = first, NEW final \in Nat, unit[n] = final,
         NEW inside \in Texts, inside = SubSeq(unit, 2, n - 1)
  PROVE  UnitReads(unit, n, first, final, inside)
<1>1. Head(unit) = first /\ Last(unit) = final /\ unit \in Seq(Nat)
  BY DEF Last, Texts
<1>2. \A c : unit = <<c>> <=> n = 1 /\ first = c
  <2> SUFFICES ASSUME NEW c PROVE unit = <<c>> <=> n = 1 /\ first = c
    OBVIOUS
  <2>1. ASSUME unit = <<c>> PROVE n = 1 /\ first = c
    <3>1. Len(<<c>>) = 1 /\ <<c>>[1] = c
      OBVIOUS
    <3> QED
      BY <2>1, <3>1
  <2>2. ASSUME n = 1, first = c PROVE unit = <<c>>
    <3>1. \A s \in Seq(Nat) : Len(s) = 1 => s = <<s[1]>>
      OBVIOUS
    <3> QED
      BY <1>1, <2>2, <3>1
  <2> QED
    BY <2>1, <2>2
<1>3. DecodeBase64(inside) = Base64Denotes(inside)
  BY Base64IsInverse
<1> DEFINE marked(open, close) == n > 1 /\ first = open /\ final = close
           spaces == {[k \in 1..x |-> 32] : x \in {Number(inside)} \cap 0..MaxCount}
           number == inside # <<>> /\ Range(inside) \subseteq Digits
           decoded == {octets \in Base64Denotes(inside) : IsUtf8(octets)}
<1>4. UnitDenotes(unit) =
        CASE n = 1 /\ first \notin {NUL, TabMark, SpacesMark, NewlineMark, Base64Mark} -> {Utf8(first)}
          [] n = 1 /\ first = TabMark -> {<<9>>}
          [] n = 1 /\ first = NewlineMark -> {<<10>>}
          [] marked(SpacesMark, SpacesMark) /\ number -> spaces
          [] marked(Base64Mark, Base64End) /\ Base64End \notin Range(inside) -> decoded
          [] OTHER -> {}
  <2>1. UnitDenotes(unit) =
          CASE n = 1 /\ first \notin {NUL, TabMark, SpacesMark, NewlineMark, Base64Mark} -> {Utf8(first)}
            [] unit = <<TabMark>> -> {<<9>>}
            [] unit = <<NewlineMark>> -> {<<10>>}
            [] marked(SpacesMark, SpacesMark) /\ number -> spaces
            [] marked(Base64Mark, Base64End) /\ Base64End \notin Range(inside) -> decoded
            [] OTHER -> {}
    BY <1>1 DEF UnitDenotes
  <2> HIDE DEF spaces, number, decoded, marked
  <2> QED
    BY <1>2, <2>1
<1>5. /\ Section(SpacesMark, inside) = IF number THEN spaces ELSE {}
      /\ Section(Base64Mark, inside) = decoded
  <2>1. Section(Base64Mark, inside) = decoded
    BY <1>3 DEF Section
  <2>2. SpacesMark # Base64Mark
    BY DEF SpacesMark, Base64Mark
  <2> DEFINE space(x) == [k \in 1..x |-> 32]
             amounts == {m \in {Number(inside)} \cap 0..MaxCount : number}
  <2>3. Section(SpacesMark, inside) = {space(x) : x \in amounts}
    BY <2>2 DEF Section
  <2>4. amounts = IF number THEN {Number(inside)} \cap 0..MaxCount ELSE {}
    OBVIOUS
  <2>5. spaces = {space(x) : x \in {Number(inside)} \cap 0..MaxCount}
    OBVIOUS
  <2> HIDE DEF spaces, amounts, space, number
  <2>6. Section(SpacesMark, inside) = IF number THEN spaces ELSE {}
    <3>1. CASE number
      BY <2>3, <2>4, <2>5, <3>1
    <3>2. CASE ~number
      <4>1. amounts = {}
        BY <2>4, <3>2
      <4>2. {space(x) : x \in {}} = {}
        OBVIOUS
      <4> QED
        BY <2>3, <3>2, <4>1, <4>2
    <3> QED
      BY <3>1, <3>2
  <2> QED
    BY <2>1, <2>6
<1>6. number => SpacesMark \notin Range(inside)
  BY DEF SpacesMark, Digits
<1> HIDE DEF spaces, number, decoded
<1>7. ASSUME n = 1 PROVE UnitDenotes(unit) = IF IsMark(first) THEN {} ELSE Single(first)
  BY <1>4, <1>7 DEF IsMark, Single, LF, NUL, TabMark, SpacesMark, NewlineMark, Base64Mark
<1>8. ASSUME n > 1
      PROVE  UnitDenotes(unit) =
              IF IsMark(first) /\ final = CloseOf(first) /\ CloseOf(first) \notin Range(inside)
              THEN Section(first, inside) ELSE {}
  <2>1. UnitDenotes(unit) =
          IF first = SpacesMark /\ final = SpacesMark /\ number THEN spaces
          ELSE IF first = Base64Mark /\ final = Base64End /\ Base64End \notin Range(inside) THEN decoded
          ELSE {}
    <3>1. n # 1
      BY <1>8
    <3>2. SpacesMark # Base64Mark
      BY DEF SpacesMark, Base64Mark
    <3> DEFINE isSpaces == first = SpacesMark /\ final = SpacesMark /\ number
               isBase64 == first = Base64Mark /\ final = Base64End /\ Base64End \notin Range(inside)
    <3>3. (marked(SpacesMark, SpacesMark) /\ number <=> isSpaces)
          /\ (marked(Base64Mark, Base64End) /\ Base64End \notin Range(inside) <=> isBase64)
      BY <1>8
    <3>4. ~(isSpaces /\ isBase64)
      BY <3>2
    <3> HIDE DEF marked, isSpaces, isBase64
    <3>5. UnitDenotes(unit) = CASE isSpaces -> spaces [] isBase64 -> decoded [] OTHER -> {}
      BY <1>4, <3>1, <3>3
    <3>6. UnitDenotes(unit) = IF isSpaces THEN spaces ELSE IF isBase64 THEN decoded ELSE {}
      BY <3>4, <3>5
    <3> QED
      BY <3>6 DEF isSpaces, isBase64
  <2>2. CASE first = SpacesMark
    <3>1. CloseOf(first) = SpacesMark /\ IsMark(first) /\ first # Base64Mark
      BY <2>2 DEF CloseOf, IsMark, SpacesMark, Base64Mark
    <3> QED
      BY <1>5, <1>6, <2>1, <2>2, <3>1
  <2>3. CASE first = Base64Mark
    <3>1. CloseOf(first) = Base64End /\ IsMark(first) /\ first # SpacesMark
      BY <2>3 DEF CloseOf, IsMark, SpacesMark, Base64Mark
    <3> QED
      BY <1>5, <2>1, <2>3, <3>1
  <2>4. CASE first # SpacesMark /\ first # Base64Mark
    BY <2>1, <2>4 DEF IsMark
  <2> QED
    BY <2>2, <2>3, <2>4
<1> QED
  BY <1>7, <1>8 DEF UnitReads

\* Of all pieces that start at a place, only the one that the decoder finds there
\* may mean something, and it means what the decoder takes it for.
LEMMA OnlyUnit ==
  ASSUME NEW text \in Texts, NEW i \in 1..Len(text), NEW n \in i..Len(text)
  PROVE  UnitDenotes(SubSeq(text, i, n)) =
           IF ~Stuck(text, i) /\ n + 1 = NextAt(text, i) THEN UnitAt(text, i) ELSE {}
<1> DEFINE len == Len(text)
           unit == SubSeq(text, i, n)
           inside == SubSeq(text, i + 1, n - 1)
           closes == Closes(text, i)
           l == n + 1 - i
           first == text[i]
           final == text[n]
<1>1. len \in Nat /\ (\A k \in 1..len : text[k] \in Nat) /\ text \in Seq(Nat) /\ i \in Nat /\ n \in Nat
  BY DEF Texts
<1>2. /\ unit \in Texts /\ l \in Nat \ {0} /\ Len(unit) = l /\ unit[1] = first /\ unit[l] = final
      /\ first \in Nat /\ final \in Nat
  BY <1>1 DEF Texts
<1>3. inside \in Texts /\ inside = SubSeq(unit, 2, l - 1)
  BY <1>1 DEF Texts
<1>4. Range(inside) = {text[k] : k \in (i + 1)..(n - 1)}
  <2>1. DOMAIN inside = 1..(n - 1 - i) /\ \A k \in 1..(n - 1 - i) : inside[k] = text[i + k]
    BY <1>1
  <2> HIDE DEF inside
  <2>2. Range(inside) = {inside[k] : k \in 1..(n - 1 - i)}
    BY <2>1 DEF Range
  <2>3. ASSUME NEW x \in Range(inside) PROVE x \in {text[k] : k \in (i + 1)..(n - 1)}
    <3>1. PICK k \in 1..(n - 1 - i) : x = inside[k]
      BY <2>2
    <3>2. i + k \in (i + 1)..(n - 1) /\ x = text[i + k]
      BY <1>1, <2>1, <3>1, SMTT(40)
    <3> QED
      BY <3>2
  <2>4. ASSUME NEW k \in (i + 1)..(n - 1) PROVE text[k] \in Range(inside)
    <3> DEFINE spot == k - i
    <3>1. spot \in 1..(n - 1 - i) /\ i + spot = k
      BY <1>1
    <3> HIDE DEF spot
    <3> QED
      BY <2>1, <2>2, <3>1
  <2> QED
    BY <2>3, <2>4
<1> HIDE DEF unit, inside
<1>5. /\ l = 1 => UnitDenotes(unit) = IF IsMark(first) THEN {} ELSE Single(first)
      /\ l > 1 => UnitDenotes(unit) =
           IF IsMark(first) /\ final = CloseOf(first) /\ CloseOf(first) \notin Range(inside)
           THEN Section(first, inside) ELSE {}
  <2>1. UnitReads(unit, l, first, final, inside)
    <3> HIDE DEF l, first, final
    <3> QED
      BY <1>2, <1>3, UnitMeans
  <2> QED
    BY <2>1 DEF UnitReads
<1>6. ASSUME ~IsMark(first) PROVE UnitDenotes(unit) =
             IF ~Stuck(text, i) /\ n + 1 = NextAt(text, i) THEN UnitAt(text, i) ELSE {}
  <2>1. ~Stuck(text, i) /\ NextAt(text, i) = i + 1 /\ UnitAt(text, i) = Single(first)
    BY <1>6 DEF Stuck, NextAt, UnitAt
  <2>2. n = i <=> l = 1
    BY <1>1
  <2>3. l = 1 \/ l > 1
    BY <1>2
  <2> QED
    BY <1>1, <1>5, <1>6, <2>1, <2>2, <2>3
<1>7. ASSUME IsMark(first) PROVE UnitDenotes(unit) =
             IF ~Stuck(text, i) /\ n + 1 = NextAt(text, i) THEN UnitAt(text, i) ELSE {}
  <2> DEFINE close == CloseOf(first)
             here == l > 1 /\ final = close /\ close \notin Range(inside)
  <2>1. closes = {k \in (i + 1)..len : text[k] = close}
    BY DEF Closes
  <2>2. Stuck(text, i) <=> closes = {}
    BY <1>7 DEF Stuck
  <2>3. NextAt(text, i) = Min(closes) + 1
        /\ UnitAt(text, i) = Section(first, SubSeq(text, i + 1, Min(closes) - 1))
    BY <1>7 DEF NextAt, UnitAt
  <2>4. UnitDenotes(unit) = IF here THEN Section(first, inside) ELSE {}
    <3>1. l = 1 \/ l > 1
      BY <1>2
    <3>2. ~(l = 1 /\ l > 1)
      OBVIOUS
    <3> QED
      BY <1>5, <1>7, <3>1, <3>2
  <2> HIDE DEF close
  <2>5. ASSUME here PROVE closes # {} /\ Min(closes) = n
    <3>1. n \in closes
      BY <1>1, <2>1, <2>5
    <3>2. closes \in SUBSET Nat
      BY <2>1
    <3> DEFINE least == Min(closes)
    <3>3. least \in closes /\ least <= n
      <4> HIDE DEF closes
      <4> QED
        BY <3>1, <3>2, MinFacts
    <3> HIDE DEF least
    <3>4. ~(least < n)
      <4> SUFFICES ASSUME least < n PROVE FALSE
        OBVIOUS
      <4>1. least \in (i + 1)..(n - 1) /\ text[least] = close
        BY <1>1, <2>1, <3>3
      <4>2. close \in Range(inside)
        BY <1>4, <4>1
      <4> QED
        BY <2>5, <4>2
    <3>5. least \in Nat
      BY <3>2, <3>3
    <3>6. least = n
      BY <1>1, <3>3, <3>4, <3>5
    <3> QED
      BY <3>1, <3>6 DEF least
  <2>6. ASSUME closes # {}, Min(closes) = n PROVE here
    <3>1. closes \in SUBSET Nat
      BY <2>1
    <3>2. n \in closes /\ \A k \in closes : n <= k
      <4>1. Min(closes) \in closes /\ \A k \in closes : Min(closes) <= k
        <5> HIDE DEF closes
        <5> QED
          BY <2>6, <3>1, MinFacts
      <4> QED
        BY <2>6, <4>1
    <3>3. l > 1 /\ final = close
      BY <1>1, <2>1, <3>2
    <3>4. ASSUME NEW k \in (i + 1)..(n - 1) PROVE text[k] # close
      <4>1. k \in (i + 1)..len /\ ~(n <= k)
        BY <1>1
      <4> QED
        BY <2>1, <3>2, <4>1
    <3> QED
      BY <1>4, <3>3, <3>4
  <2> HIDE DEF here, closes
  <2>7. CASE here
    <3>1. UnitAt(text, i) = Section(first, inside) /\ NextAt(text, i) = n + 1
      BY <2>3, <2>5, <2>7 DEF inside
    <3> QED
      BY <2>2, <2>4, <2>5, <2>7, <3>1
  <2>8. CASE ~here
    <3>1. closes # {} => Min(closes) # n
      BY <2>6, <2>8
    <3>2. closes # {} => Min(closes) \in Nat
      <4> SUFFICES ASSUME closes # {} PROVE Min(closes) \in Nat
        OBVIOUS
      <4>1. closes \in SUBSET Nat
        BY <2>1 DEF closes
      <4>2. Min(closes) \in closes
        BY <4>1, MinFacts
      <4> QED
        BY <4>1, <4>2
    <3>3. closes # {} => NextAt(text, i) # n + 1
      BY <1>1, <2>3, <3>1, <3>2
    <3> QED
      BY <2>2, <2>4, <2>8, <3>3
  <2> QED
    BY <2>7, <2>8
<1> QED
  BY <1>6, <1>7 DEF unit

\* The bytes of the rest of a text, from each place on, by the unit that is there.
Follows(text, from) ==
  /\ from[Len(text) + 1] = {<<>>}
  /\ \A i \in 1..Len(text) : from[i] =
       IF Stuck(text, i) THEN {} ELSE Joined(UnitAt(text, i), from[NextAt(text, i)])

\* DecodeDuLexeme reads a text unit by unit, from each place on.
LEMMA LexemeStepwise ==
  ASSUME NEW text \in Texts
  PROVE  \E from : DecodeDuLexeme(text) = from[1] /\ Follows(text, from)
<1> DEFINE len == Len(text)
           marked(i) == text[i] \in {Base64Mark, SpacesMark}
           close(i) == IF text[i] = Base64Mark THEN Base64End ELSE SpacesMark
           closes(i) == {k \in (i + 1)..len : text[k] = close(i)}
           found(f, i) ==
             IF i > len THEN {<<>>}
             ELSE IF marked(i)
                  THEN IF closes(i) = {} THEN {}
                       ELSE Joined(Section(text[i], SubSeq(text, i + 1, Min(closes(i)) - 1)),
                                   f[Min(closes(i)) + 1])
                  ELSE Joined(Single(text[i]), f[i + 1])
           stuck(i) == Stuck(text, i)
           unit(i) == UnitAt(text, i)
           next(i) == NextAt(text, i)
           Solves(f, m) == f = [i \in (len + 1 - m)..(len + 1) |-> found(f, i)]
           P == {m \in Nat : m <= len => \E f : Solves(f, m)}
           Decodes(f) == f = [i \in 1..(len + 1) |-> found(f, i)]
           from == CHOOSE f : Decodes(f)
<1>1. DecodeDuLexeme(text) = from[1]
  BY DEF DecodeDuLexeme
<1>2. len \in Nat /\ \A i \in 1..len : text[i] \in Nat
  BY DEF Texts
<1>3. ASSUME NEW i \in 1..len, ~stuck(i) PROVE next(i) \in (i + 1)..(len + 1)
  BY <1>3, UnitFacts
<1>4. \A f, i : /\ i > len => found(f, i) = {<<>>}
                /\ ~(i > len) /\ stuck(i) => found(f, i) = {}
                /\ ~(i > len) /\ ~stuck(i) => found(f, i) = Joined(unit(i), f[next(i)])
  BY DEF Stuck, UnitAt, NextAt, Closes, CloseOf, IsMark
<1> HIDE DEF len, found, stuck, unit, next
<1>5. 0 \in P
  <2> DEFINE f == [i \in (len + 1 - 0)..(len + 1) |-> {<<>>}]
  <2>1. ASSUME NEW i \in (len + 1 - 0)..(len + 1) PROVE f[i] = found(f, i)
    BY <1>2, <1>4
  <2>2. f = [i \in (len + 1 - 0)..(len + 1) |-> found(f, i)]
    <3>1. /\ f = [i \in (len + 1 - 0)..(len + 1) |-> f[i]]
          /\ \A i \in (len + 1 - 0)..(len + 1) : f[i] = found(f, i)
      BY <2>1
    <3> HIDE DEF f
    <3> QED
      BY <3>1, Zenon
  <2>3. Solves(f, 0)
    BY <2>2
  <2> HIDE DEF f, Solves
  <2> QED
    BY <2>3
<1>6. ASSUME NEW m \in Nat, m \in P PROVE m + 1 \in P
  <2>1. SUFFICES ASSUME m + 1 <= len PROVE \E g : Solves(g, m + 1)
    <3> HIDE DEF Solves
    <3> QED
      OBVIOUS
  <2>2. m <= len
    BY <1>2, <2>1
  <2>3. PICK f : Solves(f, m)
    <3> HIDE DEF Solves
    <3> QED
      BY <1>6, <2>2
  <2> DEFINE dom(n) == (len + 1 - n)..(len + 1)
             here == len + 1 - (m + 1)
             g == [i \in dom(m + 1) |-> IF i = here THEN found(f, here) ELSE f[i]]
  <2>4. /\ here \in 1..len /\ here \in dom(m + 1) /\ ~(here \in dom(m))
        /\ \A i \in dom(m + 1) : i # here => i \in dom(m)
        /\ \A i \in dom(m) : i \in dom(m + 1) /\ i # here
        /\ \A i \in dom(m + 1) : ~(i > len) => i \in 1..len
        /\ \A i \in dom(m + 1) : \A j \in (i + 1)..(len + 1) : j \in dom(m)
    BY <1>2, <2>1
  <2>5. f = [i \in dom(m) |-> found(f, i)]
    BY <2>3
  <2> HIDE DEF dom, here
  <2>6. ASSUME NEW i \in dom(m + 1) PROVE found(f, i) = found(g, i)
    <3>1. CASE i > len \/ stuck(i)
      BY <1>4, <3>1
    <3>2. CASE ~(i > len) /\ ~stuck(i)
      <4>1. next(i) \in dom(m)
        BY <1>3, <2>4, <3>2
      <4>2. g[next(i)] = f[next(i)]
        BY <2>4, <4>1
      <4> HIDE DEF g
      <4> QED
        BY <1>4, <3>2, <4>2
    <3> QED
      BY <3>1, <3>2
  <2>7. g = [i \in dom(m + 1) |-> found(g, i)]
    <3>1. \A i \in dom(m + 1) : g[i] = found(f, i)
      BY <2>4, <2>5
    <3>2. /\ g = [i \in dom(m + 1) |-> g[i]]
          /\ \A i \in dom(m + 1) : g[i] = found(g, i)
      BY <2>6, <3>1
    <3> HIDE DEF g
    <3> QED
      BY <3>2, Zenon
  <2>8. Solves(g, m + 1)
    BY <2>7 DEF dom
  <2> HIDE DEF g, Solves
  <2> QED
    BY <2>8
<1>7. \E f : Decodes(f)
  <2>1. len \in P
    <3> HIDE DEF P
    <3> QED
      BY <1>2, <1>5, <1>6, Induction
  <2>2. PICK f : Solves(f, len)
    <3> HIDE DEF Solves
    <3> QED
      BY <1>2, <2>1
  <2>3. len + 1 - len = 1
    BY <1>2
  <2>4. Decodes(f)
    BY <2>2, <2>3
  <2> HIDE DEF Decodes
  <2> QED
    BY <2>4
<1>8. Decodes(from)
  <2> HIDE DEF Decodes
  <2> QED
    BY <1>7
<1> HIDE DEF from
<1>9. \A i \in 1..(len + 1) : from[i] = found(from, i)
  BY <1>8
<1>10. Follows(text, from)
  <2>1. from[len + 1] = {<<>>}
    BY <1>2, <1>4, <1>9
  <2>2. ASSUME NEW i \in 1..len
        PROVE  from[i] = IF stuck(i) THEN {} ELSE Joined(unit(i), from[next(i)])
    <3>1. i \in 1..(len + 1) /\ ~(i > len)
      BY <1>2
    <3> QED
      BY <1>4, <1>9, <3>1
  <2> QED
    BY <2>1, <2>2 DEF Follows, len, stuck, unit, next
<1> QED
  BY <1>1, <1>10

\* The bytes of the text up to each place, by the unit that ends there.
Covers(text, upTo) ==
  /\ upTo[0] = {<<>>}
  /\ \A n \in 1..Len(text) : upTo[n] =
       UNION {Joined(upTo[k], UnitDenotes(SubSeq(text, k + 1, n))) : k \in 0..(n - 1)}

\* LexemeDenotes puts a text together from its units, up to each place.
LEMMA DenotesStepwise ==
  ASSUME NEW text \in Texts
  PROVE  \E upTo : LexemeDenotes(text) = upTo[Len(text)] /\ Covers(text, upTo)
<1> DEFINE len == Len(text)
           ending(f, k, n) == Joined(f[k], UnitDenotes(SubSeq(text, k + 1, n)))
           found(f, n) == IF n = 0 THEN {<<>>} ELSE UNION {ending(f, k, n) : k \in 0..(n - 1)}
           Solves(f, m) == f = [n \in 0..m |-> found(f, n)]
           P == {m \in Nat : \E f : Solves(f, m)}
           upTo == CHOOSE f : Solves(f, len)
<1>1. LexemeDenotes(text) = upTo[len]
  BY DEF LexemeDenotes
<1>2. len \in Nat
  BY DEF Texts
<1>3. ASSUME NEW f, NEW g, NEW n \in Nat, \A k \in 0..(n - 1) : f[k] = g[k]
      PROVE  found(f, n) = found(g, n)
  <2>1. \A k \in 0..(n - 1) : ending(f, k, n) = ending(g, k, n)
    BY <1>3
  <2> HIDE DEF ending
  <2> QED
    BY <2>1
<1>4. \A f : found(f, 0) = {<<>>}
      /\ \A n \in 1..len : found(f, n) = UNION {ending(f, k, n) : k \in 0..(n - 1)}
  BY <1>2
<1> HIDE DEF len, found
<1>5. 0 \in P
  <2> DEFINE f == [n \in 0..0 |-> {<<>>}]
  <2>1. \A n \in 0..0 : f[n] = found(f, n)
    BY <1>4
  <2>2. f = [n \in 0..0 |-> found(f, n)]
    <3>1. f = [n \in 0..0 |-> f[n]]
      OBVIOUS
    <3> HIDE DEF f
    <3> QED
      BY <2>1, <3>1, Zenon
  <2>3. Solves(f, 0)
    BY <2>2
  <2> HIDE DEF f, Solves
  <2> QED
    BY <2>3
<1>6. ASSUME NEW m \in Nat, m \in P PROVE m + 1 \in P
  <2>1. PICK f : Solves(f, m)
    <3> HIDE DEF Solves
    <3> QED
      BY <1>6
  <2> DEFINE dom == 0..(m + 1)
             g == [n \in dom |-> IF n = m + 1 THEN found(f, m + 1) ELSE f[n]]
  <2>2. \A n \in 0..m : f[n] = found(f, n)
    BY <2>1
  <2>3. \A n \in 0..m : n \in dom /\ n # m + 1
    OBVIOUS
  <2>4. \A n \in 0..m : g[n] = f[n]
    <3> HIDE DEF dom
    <3> QED
      BY <2>3
  <2>5. ASSUME NEW n \in dom PROVE found(f, n) = found(g, n)
    <3>1. \A k \in 0..(n - 1) : f[k] = g[k]
      <4>1. \A k \in 0..(n - 1) : k \in 0..m
        OBVIOUS
      <4> HIDE DEF g
      <4> QED
        BY <2>4, <4>1
    <3>2. n \in Nat
      OBVIOUS
    <3> HIDE DEF g, dom
    <3> QED
      BY <1>3, <3>1, <3>2
  <2>6. \A n \in dom : g[n] = found(f, n)
    <3>1. \A n \in dom : n # m + 1 => n \in 0..m
      OBVIOUS
    <3> HIDE DEF dom
    <3> QED
      BY <2>2, <3>1
  <2>7. g = [n \in dom |-> found(g, n)]
    <3>1. g = [n \in dom |-> g[n]]
      OBVIOUS
    <3>2. \A n \in dom : g[n] = found(g, n)
      BY <2>5, <2>6
    <3> HIDE DEF g, dom
    <3> QED
      BY <3>1, <3>2, Zenon
  <2>8. Solves(g, m + 1)
    BY <2>7
  <2> HIDE DEF g, Solves
  <2> QED
    BY <2>8
<1>7. \E f : Solves(f, len)
  <2>1. len \in P
    <3> HIDE DEF P
    <3> QED
      BY <1>2, <1>5, <1>6, Induction
  <2> HIDE DEF Solves
  <2> QED
    BY <2>1
<1>8. Solves(upTo, len)
  <2> HIDE DEF Solves
  <2> QED
    BY <1>7
<1> HIDE DEF upTo
<1>9. \A n \in 0..len : upTo[n] = found(upTo, n)
  BY <1>8
<1>10. upTo[0] = {<<>>} /\ \A n \in 1..len : upTo[n] = UNION {ending(upTo, k, n) : k \in 0..(n - 1)}
  <2>1. 0 \in 0..len /\ \A n \in 1..len : n \in 0..len
    BY <1>2
  <2> HIDE DEF ending
  <2> QED
    BY <1>4, <1>9, <2>1
<1>11. Covers(text, upTo)
  BY <1>10 DEF Covers, len
<1> QED
  BY <1>1, <1>11 DEF len

\* What the rest of a text stands for is one byte string at most.
LEMMA RestsAreTyped ==
  ASSUME NEW text \in Texts, NEW from, Follows(text, from)
  PROVE  \A i \in 1..(Len(text) + 1) : from[i] \subseteq Bytes /\ AtMostOne(from[i])
<1> DEFINE len == Len(text)
           Typed(values) == values \subseteq Bytes /\ AtMostOne(values)
           Q == {n \in Nat : n <= len => \A i \in (len + 1 - n)..(len + 1) : Typed(from[i])}
<1>1. len \in Nat
  BY DEF Texts
<1>2. Typed({<<>>}) /\ Typed({})
  BY JoinFacts DEF AtMostOne
<1>3. from[len + 1] = {<<>>}
      /\ \A i \in 1..len : from[i] = IF Stuck(text, i) THEN {}
                                     ELSE Joined(UnitAt(text, i), from[NextAt(text, i)])
  BY DEF Follows
<1>4. \A fronts, backs : Typed(fronts) /\ Typed(backs) => Typed(Joined(fronts, backs))
  <2> SUFFICES ASSUME NEW fronts, NEW backs, Typed(fronts), Typed(backs)
               PROVE  Typed(Joined(fronts, backs))
    OBVIOUS
  <2>1. Joined(fronts, backs) \subseteq Bytes
    BY JoinedIsTyped
  <2>2. AtMostOne(Joined(fronts, backs))
    <3> SUFFICES ASSUME NEW x \in Joined(fronts, backs), NEW y \in Joined(fronts, backs)
                 PROVE  x = y
      BY DEF AtMostOne
    <3>1. PICK front1 \in fronts, back1 \in backs : x = front1 \o back1
      BY DEF Joined
    <3>2. PICK front2 \in fronts, back2 \in backs : y = front2 \o back2
      BY SMTT(40) DEF Joined
    <3>3. front1 = front2 /\ back1 = back2
      BY DEF AtMostOne
    <3> QED
      BY <3>1, <3>2, <3>3
  <2> QED
    BY <2>1, <2>2
<1>5. \A i \in 1..len : ~Stuck(text, i) =>
        NextAt(text, i) \in (i + 1)..(len + 1) /\ Typed(UnitAt(text, i))
  BY UnitFacts
<1> HIDE DEF len, Typed
<1>6. 0 \in Q
  <2>1. \A i \in (len + 1 - 0)..(len + 1) : i = len + 1
    BY <1>1
  <2> QED
    BY <1>2, <1>3, <2>1
<1>7. ASSUME NEW n \in Nat, n \in Q PROVE n + 1 \in Q
  <2> SUFFICES ASSUME n + 1 <= len, NEW i \in (len + 1 - (n + 1))..(len + 1)
               PROVE  Typed(from[i])
    OBVIOUS
  <2>1. n <= len
    BY <1>1
  <2>2. CASE i \in (len + 1 - n)..(len + 1)
    BY <1>7, <2>1, <2>2
  <2>3. CASE ~(i \in (len + 1 - n)..(len + 1))
    <3>1. i \in 1..len /\ \A j \in (i + 1)..(len + 1) : j \in (len + 1 - n)..(len + 1)
      BY <1>1, <2>3
    <3>2. CASE Stuck(text, i)
      BY <1>2, <1>3, <3>1, <3>2
    <3>3. CASE ~Stuck(text, i)
      <4>1. NextAt(text, i) \in (len + 1 - n)..(len + 1) /\ Typed(UnitAt(text, i))
        BY <1>5, <3>1, <3>3
      <4>2. Typed(from[NextAt(text, i)])
        BY <1>7, <2>1, <4>1
      <4>3. from[i] = Joined(UnitAt(text, i), from[NextAt(text, i)])
        BY <1>3, <3>1, <3>3
      <4> QED
        BY <1>4, <4>1, <4>2, <4>3
    <3> QED
      BY <3>2, <3>3
  <2> QED
    BY <2>2, <2>3
<1>8. len \in Q
  <2> HIDE DEF Q
  <2> QED
    BY <1>1, <1>6, <1>7, Induction
<1>9. \A i \in 1..(len + 1) : Typed(from[i])
  <2>1. len + 1 - len = 1
    BY <1>1
  <2> QED
    BY <1>1, <1>8, <2>1
<1> QED
  BY <1>9 DEF len, Typed

\* A text is cut into units only where the decoder cuts it.
LEMMA CutIsUnit ==
  ASSUME NEW text \in Texts, NEW upTo, Covers(text, upTo),
         NEW n \in 1..Len(text), NEW x \in upTo[n]
  PROVE  \E k \in 0..(n - 1) : /\ ~Stuck(text, k + 1) /\ n + 1 = NextAt(text, k + 1)
                               /\ x \in Joined(upTo[k], UnitAt(text, k + 1))
<1> DEFINE unit(k) == UnitDenotes(SubSeq(text, k + 1, n))
<1>1. PICK k \in 0..(n - 1) : x \in Joined(upTo[k], unit(k))
  BY DEF Covers
<1>2. Len(text) \in Nat
  BY DEF Texts
<1>3. k + 1 \in 1..Len(text) /\ n \in (k + 1)..Len(text)
  BY <1>2
<1>4. unit(k) = IF ~Stuck(text, k + 1) /\ n + 1 = NextAt(text, k + 1)
                THEN UnitAt(text, k + 1) ELSE {}
  BY <1>3, OnlyUnit
<1> HIDE DEF unit
<1>5. unit(k) # {}
  BY <1>1 DEF Joined
<1> QED
  BY <1>1, <1>4, <1>5

\* A unit the decoder takes is one that the text may be cut into.
LEMMA UnitIsCut ==
  ASSUME NEW text \in Texts, NEW upTo, Covers(text, upTo),
         NEW i \in 1..Len(text), ~Stuck(text, i),
         NEW front \in upTo[i - 1], NEW unit \in UnitAt(text, i)
  PROVE  front \o unit \in upTo[NextAt(text, i) - 1]
<1> DEFINE n == NextAt(text, i) - 1
           means(k) == UnitDenotes(SubSeq(text, k + 1, n))
           k0 == i - 1
<1>1. Len(text) \in Nat /\ NextAt(text, i) \in (i + 1)..(Len(text) + 1)
  BY UnitFacts DEF Texts
<1>2. n \in i..Len(text) /\ n \in 1..Len(text) /\ n + 1 = NextAt(text, i)
      /\ k0 \in 0..(n - 1) /\ k0 + 1 = i
  BY <1>1
<1>3. UnitDenotes(SubSeq(text, i, n)) = UnitAt(text, i)
  <2> HIDE DEF n
  <2> QED
    BY <1>2, OnlyUnit
<1>4. upTo[n] = UNION {Joined(upTo[k], means(k)) : k \in 0..(n - 1)}
  <2> HIDE DEF n
  <2> QED
    BY <1>2 DEF Covers
<1>5. means(k0) = UnitAt(text, i)
  <2>1. k0 + 1 = i
    BY <1>2
  <2> HIDE DEF k0, n
  <2> QED
    BY <1>3, <2>1
<1>6. front \in upTo[k0]
  OBVIOUS
<1> HIDE DEF n, means, k0
<1>7. front \o unit \in Joined(upTo[k0], means(k0))
  BY <1>5, <1>6, SMTT(40) DEF Joined
<1> QED
  BY <1>2, <1>4, <1>7 DEF n

\* What the cuts give are byte strings.
LEMMA CutsAreTyped ==
  ASSUME NEW text \in Texts, NEW upTo, Covers(text, upTo)
  PROVE  \A n \in 0..Len(text) : upTo[n] \subseteq Bytes
<1> DEFINE len == Len(text)
           Q == {n \in Nat : \A k \in 0..n : k <= len => upTo[k] \subseteq Bytes}
<1>1. len \in Nat
  BY DEF Texts
<1>2. 0 \in Q
  <2>1. \A k \in 0..0 : k = 0
    OBVIOUS
  <2>2. upTo[0] \subseteq Bytes
    BY JoinFacts DEF Covers
  <2> QED
    BY <2>1, <2>2
<1>3. ASSUME NEW n \in Nat, n \in Q PROVE n + 1 \in Q
  <2> SUFFICES ASSUME n + 1 <= len PROVE upTo[n + 1] \subseteq Bytes
    <3>1. \A k \in 0..(n + 1) : k \in 0..n \/ k = n + 1
      OBVIOUS
    <3> QED
      BY <1>3, <3>1
  <2> SUFFICES ASSUME NEW x \in upTo[n + 1] PROVE x \in Bytes
    OBVIOUS
  <2> DEFINE m == n + 1
  <2>1. m \in 1..Len(text) /\ \A k \in 0..(m - 1) : k \in 0..n /\ k <= len /\ k + 1 \in 1..Len(text)
    BY <1>1
  <2>2. PICK k \in 0..(m - 1) : /\ ~Stuck(text, k + 1)
                                /\ x \in Joined(upTo[k], UnitAt(text, k + 1))
    <3>1. x \in upTo[m]
      OBVIOUS
    <3> HIDE DEF m
    <3> QED
      BY <2>1, <3>1, CutIsUnit
  <2>3. upTo[k] \subseteq Bytes
    BY <1>3, <2>1
  <2>4. UnitAt(text, k + 1) \subseteq Bytes
    <3> DEFINE i == k + 1
    <3>1. i \in 1..Len(text) /\ ~Stuck(text, i)
      BY <2>1, <2>2
    <3> HIDE DEF i
    <3>2. UnitAt(text, i) \subseteq Bytes
      BY <3>1, UnitFacts
    <3> QED
      BY <3>2 DEF i
  <2> QED
    BY <2>2, <2>3, <2>4, JoinedIsTyped
<1>4. len \in Q
  <2> HIDE DEF Q
  <2> QED
    BY <1>1, <1>2, <1>3, Induction
<1> QED
  BY <1>4

\* What is in front of a cut and what is behind it are a lexeme of the decoder.
LEMMA CutsAreDecoded ==
  ASSUME NEW text \in Texts, NEW from, Follows(text, from), NEW upTo, Covers(text, upTo)
  PROVE  upTo[Len(text)] \subseteq from[1]
<1> DEFINE len == Len(text)
           Meets(k) == \A x \in upTo[k], y \in from[k + 1] : x \o y \in from[1]
           Q == {n \in Nat : \A k \in 0..n : k <= len => Meets(k)}
<1>1. len \in Nat
  BY DEF Texts
<1>2. /\ \A i \in 1..(len + 1) : from[i] \subseteq Bytes
      /\ \A n \in 0..len : upTo[n] \subseteq Bytes
  BY RestsAreTyped, CutsAreTyped
<1>3. 0 \in Q
  <2>1. \A k \in 0..0 : k = 0
    OBVIOUS
  <2>2. Meets(0)
    <3> SUFFICES ASSUME NEW x \in upTo[0], NEW y \in from[0 + 1] PROVE x \o y \in from[1]
      OBVIOUS
    <3>1. x = <<>> /\ y \in from[1] /\ y \in Bytes
      BY <1>1, <1>2 DEF Covers
    <3>2. <<>> \o y = y
      BY <3>1, JoinFacts
    <3> QED
      BY <3>1, <3>2
  <2> HIDE DEF Meets
  <2> QED
    BY <2>1, <2>2
<1>4. ASSUME NEW n \in Nat, n \in Q PROVE n + 1 \in Q
  <2> DEFINE m == n + 1
  <2> SUFFICES ASSUME m <= len PROVE Meets(m)
    <3>1. \A k \in 0..(n + 1) : k \in 0..n \/ k = n + 1
      OBVIOUS
    <3> HIDE DEF Meets
    <3> QED
      BY <1>4, <3>1
  <2> SUFFICES ASSUME NEW x \in upTo[m], NEW y \in from[m + 1] PROVE x \o y \in from[1]
    OBVIOUS
  <2>1. /\ m \in 1..Len(text) /\ m + 1 \in 1..(len + 1)
        /\ \A k \in 0..(m - 1) : k \in 0..n /\ k <= len /\ k \in 0..len /\ k + 1 \in 1..Len(text)
    BY <1>1
  <2> HIDE DEF m
  <2>2. PICK k \in 0..(m - 1) : /\ ~Stuck(text, k + 1) /\ m + 1 = NextAt(text, k + 1)
                                /\ x \in Joined(upTo[k], UnitAt(text, k + 1))
    BY <2>1, CutIsUnit
  <2> DEFINE i == k + 1
  <2>3. i \in 1..Len(text) /\ k <= len /\ k \in 0..len /\ k \in 0..n /\ m + 1 \in 1..(len + 1)
    BY <2>1
  <2>4. from[i] = Joined(UnitAt(text, i), from[m + 1])
    BY <2>2, <2>3 DEF Follows
  <2>5. PICK front \in upTo[k], unit \in UnitAt(text, i) : x = front \o unit
    BY <2>2 DEF Joined
  <2>6. unit \o y \in from[i]
    <3> DEFINE units == UnitAt(text, i)
               rest  == from[m + 1]
    <3>1. unit \in units /\ y \in rest
      OBVIOUS
    <3> HIDE DEF i, units, rest
    <3>2. unit \o y \in Joined(units, rest)
      BY ONLY <3>1, SMT DEF Joined
    <3> QED
      BY <2>4, <3>2, Zenon DEF units, rest
  <2>7. Meets(k)
    BY <1>4, <2>3
  <2>8. front \o (unit \o y) \in from[1]
    BY <2>6, <2>7
  <2>9. unit \in Bytes
    <3>1. ~Stuck(text, i)
      BY <2>2
    <3> HIDE DEF i
    <3> QED
      BY <2>3, <3>1, UnitFacts
  <2>10. front \in Bytes /\ y \in Bytes
    BY <1>2, <2>3
  <2> QED
    BY <2>5, <2>8, <2>9, <2>10, JoinFacts
<1>5. len \in Q
  <2> HIDE DEF Q
  <2> QED
    BY <1>1, <1>3, <1>4, Induction
<1> SUFFICES ASSUME NEW x \in upTo[len] PROVE x \in from[1]
  OBVIOUS
<1>6. Meets(len) /\ len \in 0..len /\ from[len + 1] = {<<>>}
  <2>1. len \in 0..len /\ len <= len
    BY <1>1
  <2> QED
    BY <1>5, <2>1 DEF Follows
<1>7. x \o <<>> \in from[1] /\ x \in Bytes
  BY <1>2, <1>6
<1> QED
  BY <1>7, JoinFacts

\* A lexeme of the decoder is one that the cuts give, the cuts being its units.
LEMMA DecodedIsCut ==
  ASSUME NEW text \in Texts, NEW from, Follows(text, from), NEW upTo, Covers(text, upTo)
  PROVE  from[1] \subseteq upTo[Len(text)]
<1> DEFINE len == Len(text)
           Meets(i) == \A x \in upTo[i - 1], y \in from[i] : x \o y \in upTo[len]
           Q == {m \in Nat : m <= len => \A i \in (len + 1 - m)..(len + 1) : Meets(i)}
<1>1. len \in Nat
  BY DEF Texts
<1>2. /\ \A i \in 1..(len + 1) : from[i] \subseteq Bytes
      /\ \A n \in 0..len : upTo[n] \subseteq Bytes
  BY RestsAreTyped, CutsAreTyped
<1>3. 0 \in Q
  <2>1. \A i \in (len + 1 - 0)..(len + 1) : i = len + 1
    BY <1>1
  <2>2. Meets(len + 1)
    <3> SUFFICES ASSUME NEW x \in upTo[len + 1 - 1], NEW y \in from[len + 1]
                 PROVE  x \o y \in upTo[len]
      OBVIOUS
    <3>1. y = <<>> /\ len + 1 - 1 = len /\ len \in 0..len
      BY <1>1 DEF Follows
    <3>2. x \in upTo[len] /\ x \in Bytes
      BY <1>2, <3>1
    <3> QED
      BY <3>1, <3>2, JoinFacts
  <2> HIDE DEF Meets
  <2> QED
    BY <2>1, <2>2
<1>4. ASSUME NEW m \in Nat, m \in Q PROVE m + 1 \in Q
  <2> SUFFICES ASSUME m + 1 <= len, NEW i \in (len + 1 - (m + 1))..(len + 1) PROVE Meets(i)
    <3> HIDE DEF Meets
    <3> QED
      OBVIOUS
  <2>1. m <= len
    BY <1>1
  <2>2. CASE i \in (len + 1 - m)..(len + 1)
    <3> HIDE DEF Meets
    <3> QED
      BY <1>4, <2>1, <2>2
  <2>3. CASE ~(i \in (len + 1 - m)..(len + 1))
    <3>1. i \in 1..len /\ i \in 1..(len + 1) /\ i - 1 \in 0..len
          /\ \A j \in (i + 1)..(len + 1) : j \in (len + 1 - m)..(len + 1) /\ j \in 1..(len + 1)
      BY <1>1, <2>3
    <3> SUFFICES ASSUME NEW x \in upTo[i - 1], NEW y \in from[i] PROVE x \o y \in upTo[len]
      OBVIOUS
    <3> DEFINE next == NextAt(text, i)
    <3>2. ~Stuck(text, i) /\ y \in Joined(UnitAt(text, i), from[next])
      BY <3>1 DEF Follows
    <3>3. next \in (i + 1)..(len + 1) /\ UnitAt(text, i) \subseteq Bytes
      BY <3>1, <3>2, UnitFacts
    <3>4. PICK unit \in UnitAt(text, i), rest \in from[next] : y = unit \o rest
      <4>1. \A fronts, backs : \A z \in Joined(fronts, backs) :
              \E front \in fronts, back \in backs : z = front \o back
        BY DEF Joined
      <4> HIDE DEF next
      <4> QED
        BY <3>2, <4>1
    <3>5. x \o unit \in upTo[next - 1]
      BY <3>1, <3>2, UnitIsCut
    <3> HIDE DEF next
    <3>6. Meets(next)
      <4> HIDE DEF Meets
      <4> QED
        BY <1>4, <2>1, <3>1, <3>3
    <3>7. (x \o unit) \o rest \in upTo[len]
      BY <3>5, <3>6
    <3>8. x \in Bytes /\ unit \in Bytes /\ rest \in Bytes
      BY <1>2, <3>1, <3>3
    <3> QED
      BY <3>4, <3>7, <3>8, JoinFacts
  <2> QED
    BY <2>2, <2>3
<1>5. len \in Q
  <2> HIDE DEF Q
  <2> QED
    BY <1>1, <1>3, <1>4, Induction
<1>6. Meets(1)
  <2>1. len <= len /\ 1 \in (len + 1 - len)..(len + 1)
    BY <1>1
  <2> HIDE DEF Meets
  <2> QED
    BY <1>5, <2>1
<1> SUFFICES ASSUME NEW y \in from[1] PROVE y \in upTo[len]
  OBVIOUS
<1>7. <<>> \in upTo[1 - 1] /\ y \in Bytes
  BY <1>1, <1>2 DEF Covers
<1>8. <<>> \o y \in upTo[len]
  BY <1>6, <1>7
<1> QED
  BY <1>7, <1>8, JoinFacts

\* The decoder finds what a text means, and that is one byte string at most.
LEMMA LexemeMeans ==
  ASSUME NEW text \in Texts
  PROVE  /\ LexemeDenotes(text) = DecodeDuLexeme(text)
         /\ DecodeDuLexeme(text) \subseteq Bytes /\ AtMostOne(DecodeDuLexeme(text))
<1>1. PICK from : DecodeDuLexeme(text) = from[1] /\ Follows(text, from)
  BY LexemeStepwise
<1>2. PICK upTo : LexemeDenotes(text) = upTo[Len(text)] /\ Covers(text, upTo)
  BY DenotesStepwise
<1>3. upTo[Len(text)] = from[1]
  <2>1. upTo[Len(text)] \subseteq from[1]
    BY <1>1, <1>2, CutsAreDecoded
  <2>2. from[1] \subseteq upTo[Len(text)]
    BY <1>1, <1>2, DecodedIsCut
  <2> QED
    BY <2>1, <2>2
<1>4. from[1] \subseteq Bytes /\ AtMostOne(from[1])
  <2>1. 1 \in 1..(Len(text) + 1)
    BY DEF Texts
  <2> QED
    BY <1>1, <2>1, RestsAreTyped
<1> QED
  BY <1>1, <1>2, <1>3, <1>4

-----------------------------------------------------------------------------
\* Lines with one more character: a line feed starts the next line.
Longer(lines, c) ==
  IF c = LF THEN Append(lines, <<>>) ELSE Append(Front(lines), Append(Last(lines), c))

\* The lines are those of the text before, with one more character.
LEMMA LinesStepwise ==
  ASSUME NEW text \in Texts
  PROVE  \E upTo : /\ upTo[0] = << <<>> >>
                   /\ \A n \in 1..Len(text) : upTo[n] = Longer(upTo[n - 1], text[n])
                   /\ LET pieces == upTo[Len(text)]
                      IN  DictLines(text) = IF Last(pieces) = <<>> THEN Front(pieces) ELSE pieces
<1> DEFINE len == Len(text)
           more(lines, n) == IF text[n] = LF THEN Append(lines, <<>>)
                             ELSE Append(Front(lines), Append(Last(lines), text[n]))
           Solves(f, m) == f = [n \in 0..m |-> IF n = 0 THEN << <<>> >> ELSE more(f[n - 1], n)]
           P == {m \in Nat : \E f : Solves(f, m)}
           upTo == CHOOSE f : Solves(f, len)
           pieces == upTo[len]
<1>1. len \in Nat /\ \A n \in 1..len : text[n] \in Nat
  BY DEF Texts
<1>2. DictLines(text) = IF Last(pieces) = <<>> THEN Front(pieces) ELSE pieces
  BY DEF DictLines
<1> HIDE DEF more, len
<1>4. 0 \in P
  <2> DEFINE f == [n \in 0..0 |-> << <<>> >>]
  <2>1. Solves(f, 0)
    OBVIOUS
  <2> HIDE DEF f, Solves
  <2> QED
    BY <2>1
<1>5. ASSUME NEW m \in Nat, m \in P PROVE m + 1 \in P
  <2>1. PICK f : Solves(f, m)
    BY <1>5
  <2> DEFINE g == [n \in 0..(m + 1) |-> IF n = m + 1 THEN more(f[m], m + 1) ELSE f[n]]
  <2>2. ASSUME NEW n \in 0..(m + 1)
        PROVE  g[n] = IF n = 0 THEN << <<>> >> ELSE more(g[n - 1], n)
    <3>1. CASE n = m + 1
      <4>1. m + 1 \in 0..(m + 1) /\ m \in 0..(m + 1) /\ m + 1 # 0 /\ m # m + 1 /\ (m + 1) - 1 = m
        OBVIOUS
      <4>2. g[m + 1] = more(f[m], m + 1) /\ g[m] = f[m]
        BY <4>1
      <4> QED
        BY <3>1, <4>1, <4>2
    <3>2. CASE n \in 0..m
      <4>1. f[n] = IF n = 0 THEN << <<>> >> ELSE more(f[n - 1], n)
        BY <2>1, <3>2
      <4>2. n # 0 => n - 1 \in 0..m
        BY <3>2
      <4> QED
        BY <3>2, <4>1, <4>2
    <3> QED
      BY <3>1, <3>2
  <2>3. Solves(g, m + 1)
    BY <2>2
  <2> HIDE DEF g, Solves
  <2>4. m + 1 \in Nat
    OBVIOUS
  <2> QED
    BY <2>3, <2>4
<1>6. \E f : Solves(f, len)
  <2>1. len \in P
    <3> HIDE DEF P
    <3> QED
      BY <1>1, <1>4, <1>5, Induction
  <2> HIDE DEF Solves
  <2> QED
    BY <2>1
<1>7. Solves(upTo, len)
  <2> HIDE DEF Solves
  <2> QED
    BY <1>6
<1> HIDE DEF upTo
<1>8. \A n \in 0..len : upTo[n] = IF n = 0 THEN << <<>> >> ELSE more(upTo[n - 1], n)
  BY <1>7
<1>9. /\ upTo[0] = << <<>> >>
      /\ \A n \in 1..len : upTo[n] = more(upTo[n - 1], n)
  <2>1. 0 \in 0..len /\ \A n \in 1..len : n \in 0..len /\ n # 0
    BY <1>1
  <2> QED
    BY <1>8, <2>1
<1>10. \A n \in 1..len : upTo[n] = Longer(upTo[n - 1], text[n])
  BY <1>9 DEF more, Longer
<1> QED
  BY <1>2, <1>9, <1>10 DEF len

\* Lines with their line feeds.
EndedLines(lines) == [k \in 1..Len(lines) |-> Append(lines[k], LF)]

\* Texts are sequences of numbers, as byte strings are.
LEMMA TextFacts ==
  /\ Texts = Bytes
  /\ \A line \in Texts, c \in Nat : Append(line, c) \in Texts
  /\ \A a, b \in Texts, c \in Nat : a \o Append(b, c) = Append(a \o b, c)
<1>1. Texts = Bytes
  BY DEF Texts, Bytes
<1>2. \A line \in Texts, c \in Nat : Append(line, c) \in Texts
  BY DEF Texts
<1>3. \A a, b \in Texts, c \in Nat : a \o Append(b, c) = Append(a \o b, c)
  BY DEF Texts
<1> QED
  BY <1>1, <1>2, <1>3

\* A line that is added at the end brings its line feed.
LEMMA EndedFacts ==
  /\ \A lines \in Seq(Texts) : EndedLines(lines) \in Seq(Bytes)
  /\ \A lines \in Seq(Texts), line \in Texts :
       EndedLines(Append(lines, line)) = Append(EndedLines(lines), Append(line, LF))
<1>1. ASSUME NEW lines \in Seq(Texts)
      PROVE  /\ EndedLines(lines) \in Seq(Bytes) /\ Len(EndedLines(lines)) = Len(lines)
             /\ \A k \in 1..Len(lines) : EndedLines(lines)[k] = Append(lines[k], LF)
  <2>1. \A k \in 1..Len(lines) : Append(lines[k], LF) \in Bytes
    BY TextFacts, SMTT(40) DEF LF
  <2>2. EndedLines(lines) \in [1..Len(lines) -> Bytes] /\ Len(lines) \in Nat
    BY <2>1 DEF EndedLines
  <2> QED
    BY <2>2 DEF EndedLines
<1>2. ASSUME NEW lines \in Seq(Texts), NEW line \in Texts
      PROVE  EndedLines(Append(lines, line)) = Append(EndedLines(lines), Append(line, LF))
  <2> DEFINE more == Append(lines, line)
             ended == Append(EndedLines(lines), Append(line, LF))
             n == Len(lines)
  <2>1. /\ more \in Seq(Texts) /\ n \in Nat /\ Len(more) = n + 1 /\ more[n + 1] = line
        /\ \A k \in 1..n : more[k] = lines[k]
    OBVIOUS
  <2>2. Append(line, LF) \in Bytes
    BY TextFacts DEF LF
  <2>3. /\ ended \in Seq(Bytes) /\ Len(ended) = n + 1 /\ ended[n + 1] = Append(line, LF)
        /\ \A k \in 1..n : ended[k] = Append(lines[k], LF)
    <3> HIDE DEF n
    <3>1. /\ EndedLines(lines) \in Seq(Bytes) /\ Len(EndedLines(lines)) = n
          /\ \A k \in 1..n : EndedLines(lines)[k] = Append(lines[k], LF)
      BY <1>1 DEF n
    <3> QED
      BY <2>1, <2>2, <3>1
  <2> HIDE DEF more, ended, n
  <2>4. /\ EndedLines(more) \in Seq(Bytes) /\ Len(EndedLines(more)) = n + 1
        /\ \A k \in 1..(n + 1) : EndedLines(more)[k] = Append(more[k], LF)
    BY <1>1, <2>1
  <2>5. \A k \in 1..(n + 1) : EndedLines(more)[k] = ended[k]
    <3>1. \A k \in 1..(n + 1) : k \in 1..n \/ k = n + 1
      BY <2>1
    <3> QED
      BY <2>1, <2>3, <2>4, <3>1
  <2>6. EndedLines(more) = ended
    BY <2>3, <2>4, <2>5, SeqEqual
  <2> QED
    BY <2>6 DEF more, ended
<1> QED
  BY <1>1, <1>2

\* Lines are all but the last of them, and the last.
LEMMA FrontAndLast ==
  /\ \A lines \in Seq(Texts) : Len(lines) # 0 =>
       /\ Front(lines) \in Seq(Texts) /\ Last(lines) \in Texts
       /\ lines = Append(Front(lines), Last(lines))
  /\ \A lines \in Seq(Texts), line \in Texts :
       /\ Append(lines, line) \in Seq(Texts) /\ Len(Append(lines, line)) # 0
       /\ Front(Append(lines, line)) = lines /\ Last(Append(lines, line)) = line
<1>1. ASSUME NEW lines \in Seq(Texts), Len(lines) # 0
      PROVE  /\ Front(lines) \in Seq(Texts) /\ Last(lines) \in Texts
             /\ lines = Append(Front(lines), Last(lines))
  BY <1>1 DEF Front, Last
<1>2. ASSUME NEW lines \in Seq(Texts), NEW line \in Texts
      PROVE  /\ Append(lines, line) \in Seq(Texts) /\ Len(Append(lines, line)) # 0
             /\ Front(Append(lines, line)) = lines /\ Last(Append(lines, line)) = line
  BY DEF Front, Last
<1> QED
  BY <1>1, <1>2

\* The lines of a text are texts, and with their line feeds they are the text
\* again, up to a line feed at its end.
LEMMA LinesAreTexts ==
  ASSUME NEW text \in Texts
  PROVE  /\ DictLines(text) \in Seq(Texts)
         /\ FlattenSeq(EndedLines(DictLines(text))) \in {text, Append(text, LF)}
<1> DEFINE len == Len(text)
           Joins(lines, n) == FlattenSeq(EndedLines(Front(lines))) \o Last(lines) = SubSeq(text, 1, n)
           Good(lines, n) == lines \in Seq(Texts) /\ Len(lines) # 0 /\ Joins(lines, n)
<1>1. len \in Nat /\ (\A n \in 1..len : text[n] \in Nat) /\ text \in Seq(Nat) /\ LF \in Nat
  BY DEF Texts, LF
<1>2. PICK upTo : /\ upTo[0] = << <<>> >>
                  /\ \A n \in 1..len : upTo[n] = Longer(upTo[n - 1], text[n])
                  /\ LET pieces == upTo[len]
                     IN  DictLines(text) = IF Last(pieces) = <<>> THEN Front(pieces) ELSE pieces
  BY LinesStepwise
<1>3. <<>> \in Texts /\ <<>> \in Seq(Texts)
  BY DEF Texts
<1>4. ASSUME NEW lines \in Seq(Texts), Len(lines) # 0
      PROVE  /\ FlattenSeq(EndedLines(Front(lines))) \in Texts
             /\ FlattenSeq(EndedLines(lines)) = Append(FlattenSeq(EndedLines(Front(lines))) \o Last(lines), LF)
  <2> DEFINE front == Front(lines)
             last == Last(lines)
             joined == FlattenSeq(EndedLines(front))
  <2>1. front \in Seq(Texts) /\ last \in Texts /\ lines = Append(front, last)
    BY <1>4, FrontAndLast
  <2> HIDE DEF front, last
  <2>2. EndedLines(front) \in Seq(Bytes) /\ Append(last, LF) \in Bytes
        /\ EndedLines(lines) = Append(EndedLines(front), Append(last, LF))
    BY <1>1, <2>1, EndedFacts, TextFacts
  <2>3. joined \in Bytes /\ FlattenSeq(EndedLines(lines)) = joined \o Append(last, LF)
    BY <2>2, FlattenBytes
  <2> HIDE DEF joined
  <2>4. joined \o Append(last, LF) = Append(joined \o last, LF)
    <3>1. joined \in Texts /\ last \in Texts /\ LF \in Nat
      BY <1>1, <2>1, <2>3, TextFacts, Zenon
    <3>2. \A a, b \in Texts, c \in Nat : a \o Append(b, c) = Append(a \o b, c)
      BY TextFacts, Zenon
    <3> QED
      BY ONLY <3>1, <3>2, Zenon
  <2> QED
    BY <2>3, <2>4, TextFacts DEF front, last, joined
<1> DEFINE Q == {n \in Nat : n <= len => Good(upTo[n], n)}
<1>5. 0 \in Q
  <2> DEFINE first == Append(<<>>, <<>>)
  <2>1. first \in Seq(Texts) /\ Len(first) # 0 /\ Front(first) = <<>> /\ Last(first) = <<>>
    BY <1>3, FrontAndLast
  <2>2. upTo[0] = first
    BY <1>2
  <2>3. EndedLines(<<>>) = <<>>
    BY DEF EndedLines
  <2>4. SubSeq(text, 1, 0) = <<>> /\ <<>> \o <<>> = <<>>
    BY <1>1
  <2> HIDE DEF first
  <2>5. Joins(first, 0)
    BY <2>1, <2>3, <2>4, FlattenBytes
  <2> HIDE DEF Joins
  <2> QED
    BY <2>1, <2>2, <2>5
<1>6. ASSUME NEW n \in Nat, n \in Q PROVE n + 1 \in Q
  <2> SUFFICES ASSUME n + 1 <= len PROVE Good(upTo[n + 1], n + 1)
    <3> HIDE DEF Good
    <3> QED
      OBVIOUS
  <2> DEFINE c == text[n + 1]
             lines == upTo[n]
             front == Front(lines)
             last == Last(lines)
             joined == FlattenSeq(EndedLines(front))
  <2>1. n + 1 \in 1..len /\ (n + 1) - 1 = n /\ n <= len
    BY <1>1
  <2>2. upTo[n + 1] = Longer(lines, c) /\ c \in Nat
    BY <1>1, <1>2, <2>1
  <2>3. lines \in Seq(Texts) /\ Len(lines) # 0 /\ joined \o last = SubSeq(text, 1, n)
    BY <1>6, <2>1
  <2>4. SubSeq(text, 1, n + 1) = Append(SubSeq(text, 1, n), c) /\ SubSeq(text, 1, n) \in Texts
    BY <1>1, <2>1 DEF Texts
  <2> HIDE DEF lines, c
  <2>5. joined \in Texts /\ FlattenSeq(EndedLines(lines)) = Append(joined \o last, LF)
    BY <1>4, <2>3
  <2>6. front \in Seq(Texts) /\ last \in Texts
    BY <2>3, FrontAndLast
  <2>7. CASE c = LF
    <3> DEFINE more == Append(lines, <<>>)
    <3>1. more \in Seq(Texts) /\ Len(more) # 0 /\ Front(more) = lines /\ Last(more) = <<>>
      BY <1>3, <2>3, FrontAndLast
    <3>2. upTo[n + 1] = more
      BY <2>2, <2>7 DEF Longer
    <3>3. FlattenSeq(EndedLines(lines)) = SubSeq(text, 1, n + 1)
      BY <2>3, <2>4, <2>5, <2>7
    <3>4. SubSeq(text, 1, n + 1) \o <<>> = SubSeq(text, 1, n + 1)
      <4>1. SubSeq(text, 1, n + 1) \in Bytes
        BY <2>2, <2>4, TextFacts, ZenonT(60)
      <4> QED
        BY <4>1, JoinFacts
    <3> HIDE DEF more
    <3>5. Joins(more, n + 1)
      BY <3>1, <3>3, <3>4
    <3> HIDE DEF Joins
    <3> QED
      BY <3>1, <3>2, <3>5
  <2>8. CASE c # LF
    <3> DEFINE grown == Append(last, c)
               more == Append(front, grown)
    <3>1. grown \in Texts
      BY <2>2, <2>6, TextFacts
    <3>2. upTo[n + 1] = more
      BY <2>2, <2>8 DEF Longer
    <3>3. joined \o grown = SubSeq(text, 1, n + 1)
      <4>1. joined \o Append(last, c) = Append(joined \o last, c)
        <5> HIDE DEF joined, last
        <5> QED
          BY <2>2, <2>5, <2>6, TextFacts
      <4> QED
        BY <2>3, <2>4, <4>1
    <3> HIDE DEF grown, front
    <3>4. more \in Seq(Texts) /\ Len(more) # 0 /\ Front(more) = front /\ Last(more) = grown
      BY <2>6, <3>1, FrontAndLast
    <3> HIDE DEF more
    <3>5. Joins(more, n + 1)
      BY <3>3, <3>4
    <3> HIDE DEF Joins
    <3> QED
      BY <3>2, <3>4, <3>5
  <2> QED
    BY <2>7, <2>8
<1>7. len \in Q
  <2> HIDE DEF Q
  <2> QED
    BY <1>1, <1>5, <1>6, Induction
<1> DEFINE pieces == upTo[len]
           front == Front(pieces)
<1>8. /\ pieces \in Seq(Texts) /\ Len(pieces) # 0
      /\ FlattenSeq(EndedLines(front)) \o Last(pieces) = text
  <2>1. SubSeq(text, 1, len) = text
    BY <1>1
  <2>2. Good(pieces, len)
    <3> HIDE DEF Good, len
    <3> QED
      BY <1>1, <1>7
  <2> HIDE DEF len, pieces
  <2> QED
    BY <2>1, <2>2
<1>9. DictLines(text) = IF Last(pieces) = <<>> THEN front ELSE pieces
  BY <1>2
<1> HIDE DEF pieces
<1>10. front \in Seq(Texts)
  BY <1>8, FrontAndLast
<1>11. CASE Last(pieces) = <<>>
  <2>1. FlattenSeq(EndedLines(front)) \in Texts
    BY <1>4, <1>8
  <2> HIDE DEF front
  <2>2. FlattenSeq(EndedLines(front)) \o <<>> = FlattenSeq(EndedLines(front))
    BY <2>1, TextFacts, JoinFacts
  <2> QED
    BY <1>8, <1>9, <1>10, <1>11, <2>2
<1>12. CASE Last(pieces) # <<>>
  <2>1. FlattenSeq(EndedLines(pieces)) = Append(text, LF)
    BY <1>4, <1>8
  <2> QED
    BY <1>8, <1>9, <1>12, <2>1
<1> QED
  BY <1>11, <1>12
-----------------------------------------------------------------------------
\* In a model.bin, the word at an offset, the token whose length it is, and the
\* offset behind that; the token may lie over the end.
WordFrom(content, o) == LittleEndian(Slice(content, o, o + 4))
EndFrom(content, o) == o + 4 + WordFrom(content, o)
TokenFrom(content, o) == Slice(content, o + 4, EndFrom(content, o))
Over(content, o) == Len(content) < o + 4 \/ Len(content) < EndFrom(content, o)

\* The vocabularies of n tokens that the content has behind each offset.
Reads(content, after) ==
  \A n \in 0..WordFrom(content, 0), o \in 0..Len(content) : after[<<n, o>>] =
    IF n = 0 THEN IF o = Len(content) THEN {<<>>} ELSE {}
    ELSE IF Over(content, o) THEN {}
    ELSE {<<TokenFrom(content, o)>> \o rest : rest \in after[<<n - 1, EndFrom(content, o)>>]}

\* A word is a number, and a token that is not over the end is a byte string.
LEMMA WordFromFacts ==
  ASSUME NEW content \in Bytes, NEW o \in 0..Len(content)
  PROVE  /\ ~(Len(content) < o + 4) => WordFrom(content, o) \in Nat
         /\ ~Over(content, o) => /\ EndFrom(content, o) \in (o + 4)..Len(content)
                                /\ TokenFrom(content, o) \in Bytes
<1> DEFINE len == Len(content)
           word == WordFrom(content, o)
           end == EndFrom(content, o)
<1>1. len \in Nat /\ o \in Nat /\ o <= len
  BY DEF Bytes
<1>2. ASSUME ~(len < o + 4) PROVE word \in Nat
  <2>1. Slice(content, o, o + 4) \in Bytes
    BY <1>1, <1>2 DEF Slice, Bytes
  <2> QED
    BY <2>1, LittleEndianIs DEF WordFrom
<1>3. ASSUME ~Over(content, o) PROVE end \in (o + 4)..len /\ TokenFrom(content, o) \in Bytes
  <2>1. word \in Nat /\ ~(len < end) /\ end = o + 4 + word
    BY <1>2, <1>3 DEF Over, EndFrom
  <2> HIDE DEF word, end
  <2>2. end \in (o + 4)..len
    BY <1>1, <2>1
  <2>3. Slice(content, o + 4, end) \in Bytes
    BY <1>1, <2>2 DEF Slice, Bytes
  <2> QED
    BY <2>2, <2>3 DEF TokenFrom, end
<1> QED
  BY <1>2, <1>3

\* LoadModelBin reads token by token.
LEMMA ModelStepwise ==
  ASSUME NEW content \in Bytes, ~(Len(content) < 4)
  PROVE  \E after : /\ LoadModelBin(content) = after[<<WordFrom(content, 0), 4>>]
                    /\ Reads(content, after)
<1> DEFINE len == Len(content)
           end(o) == EndFrom(content, o)
           Last4(o) == Over(content, o)
           token(o) == TokenFrom(content, o)
           places(n) == (0..n) \X (0..len)
           found(f, here) ==
             IF here[1] = 0 THEN IF here[2] = len THEN {<<>>} ELSE {}
             ELSE IF Last4(here[2]) THEN {}
             ELSE {<<token(here[2])>> \o rest : rest \in f[<<here[1] - 1, end(here[2])>>]}
           Solves(f, n) == f = [here \in places(n) |-> found(f, here)]
           count == WordFrom(content, 0)
<1>2. LoadModelBin(content)
        = (CHOOSE f : f = [here \in places(count) |-> found(f, here)])[<<count, 4>>]
  BY DEF LoadModelBin, WordFrom, EndFrom, Over, TokenFrom
<1>3. len \in Nat /\ count \in Nat
      /\ \A o \in 0..len : ~Last4(o) => end(o) \in 0..len
  <2>1. len \in Nat /\ 0 \in 0..len /\ ~(len < 0 + 4)
    BY DEF Bytes
  <2>2. count \in Nat
    BY <2>1, WordFromFacts
  <2>3. ASSUME NEW o \in 0..len, ~Last4(o) PROVE end(o) \in 0..len
    <3> DEFINE e == end(o)
    <3>1. e \in (o + 4)..len
      BY <2>3, WordFromFacts
    <3> HIDE DEF e
    <3>2. e \in 0..len
      BY <2>1, <3>1
    <3> QED
      BY <3>2 DEF e
  <2> QED
    BY <2>1, <2>2, <2>3
<1> HIDE DEF len, count, end, Last4, token
<1> DEFINE P == {n \in Nat : \E f : Solves(f, n)}
<1>4. 0 \in P
  <2> DEFINE f == [here \in places(0) |-> IF here[2] = len THEN {<<>>} ELSE {}]
  <2>1. ASSUME NEW here \in places(0) PROVE f[here] = found(f, here)
    OBVIOUS
  <2>2. Solves(f, 0)
    BY <2>1
  <2> HIDE DEF f, Solves
  <2> QED
    BY <2>2
<1>5. ASSUME NEW n \in Nat, n \in P PROVE n + 1 \in P
  <2>1. PICK f : Solves(f, n)
    BY <1>5
  <2> DEFINE g == [here \in places(n + 1) |-> found(f, here)]
  <2>2. ASSUME NEW here \in places(n + 1) PROVE found(f, here) = found(g, here)
    <3>1. CASE here[1] = 0 \/ Last4(here[2])
      BY <3>1
    <3>2. CASE here[1] # 0 /\ ~Last4(here[2])
      <4> DEFINE next == <<here[1] - 1, end(here[2])>>
      <4>1. next \in places(n) /\ next \in places(n + 1)
        <5>1. here[1] - 1 \in 0..n /\ here[1] - 1 \in 0..(n + 1) /\ end(here[2]) \in 0..len
          BY <1>3, <3>2
        <5> QED
          BY <5>1
      <4>2. f[next] = found(f, next)
        <5> HIDE DEF next, found
        <5> QED
          BY <2>1, <4>1
      <4>3. g[next] = found(f, next)
        <5> HIDE DEF next, found
        <5> QED
          BY <4>1
      <4>4. f[next] = g[next]
        BY <4>2, <4>3
      <4> HIDE DEF g
      <4> QED
        BY <3>2, <4>4
    <3> QED
      BY <3>1, <3>2
  <2>3. g = [here \in places(n + 1) |-> found(g, here)]
    <3>1. /\ g = [here \in places(n + 1) |-> found(f, here)]
          /\ \A here \in places(n + 1) : found(f, here) = found(g, here)
      BY <2>2
    <3> HIDE DEF g, found, places
    <3> QED
      BY <3>1, Zenon
  <2>4. Solves(g, n + 1)
    BY <2>3
  <2> HIDE DEF g, Solves
  <2> QED
    BY <2>4
<1>6. \E f : Solves(f, count)
  <2>1. count \in P
    <3> HIDE DEF P
    <3> QED
      BY <1>3, <1>4, <1>5, Induction
  <2> HIDE DEF Solves
  <2> QED
    BY <2>1
<1> DEFINE after == CHOOSE f : Solves(f, count)
<1>7. Solves(after, count)
  <2> HIDE DEF Solves
  <2> QED
    BY <1>6
<1>8. LoadModelBin(content) = after[<<count, 4>>]
  BY <1>2
<1> HIDE DEF after
<1>9. ASSUME NEW n \in 0..count, NEW o \in 0..len
      PROVE  after[<<n, o>>] =
               IF n = 0 THEN IF o = len THEN {<<>>} ELSE {}
               ELSE IF Last4(o) THEN {}
               ELSE {<<token(o)>> \o rest : rest \in after[<<n - 1, end(o)>>]}
  <2>1. <<n, o>> \in places(count) /\ <<n, o>>[1] = n /\ <<n, o>>[2] = o
    OBVIOUS
  <2>2. after[<<n, o>>] = found(after, <<n, o>>)
    <3> HIDE DEF found, places
    <3> QED
      BY <1>7, <2>1
  <2> QED
    BY <2>1, <2>2
<1>10. Reads(content, after)
  <2> HIDE DEF found, Solves
  <2> QED
    BY <1>9 DEF Reads, len, count, end, Last4, token
<1> QED
  BY <1>8, <1>10 DEF count

\* Dividing by 256.
LEMMA DivideBy256 ==
  ASSUME NEW n \in Nat
  PROVE  n \div 256 \in Nat /\ n % 256 \in 0..255 /\ n = (n % 256) + 256 * (n \div 256)
OBVIOUS

\* A number that fits a word is read back from the word written for it.
LEMMA WordIsRead ==
  ASSUME NEW n \in Nat
  PROVE  /\ Word(n, 4) \in Seq(Octet) /\ Word(n, 4) \in Bytes /\ Len(Word(n, 4)) = 4
         /\ FitsWord(n) => LittleEndian(Word(n, 4)) = n
<1> DEFINE q1 == n \div 256
           q2 == q1 \div 256
           q3 == q2 \div 256
           w == Word(n, 4)
<1>1. q1 \in Nat /\ n % 256 \in 0..255 /\ n = (n % 256) + 256 * q1
  BY DivideBy256
<1>2. /\ ByteAt(n, 1) = n % 256 /\ ByteAt(n, 2) = q1 % 256 /\ ByteAt(n, 3) = q2 % 256
      /\ ByteAt(n, 4) = q3 % 256
  BY ByteOfNumber, ZenonT(180)
<1>3. FitsWord(n) => q3 < 256
  <2>1. 256^3 = 16777216
    BY SMT
  <2>2. n \div 65536 = q2
    OBVIOUS
  <2>3. n \div 16777216 = (n \div 65536) \div 256
    OBVIOUS
  <2>4. FitsWord(n) => n \div 16777216 < 256
    BY <2>1 DEF FitsWord
  <2> HIDE DEF q2
  <2> QED
    BY <2>2, <2>3, <2>4
<1> HIDE DEF q1
<1>4. q2 \in Nat /\ q1 % 256 \in 0..255 /\ q1 = (q1 % 256) + 256 * q2
  BY <1>1, DivideBy256
<1> HIDE DEF q2
<1>5. q3 \in Nat /\ q2 % 256 \in 0..255 /\ q2 = (q2 % 256) + 256 * q3
  BY <1>4, DivideBy256
<1> HIDE DEF q3
<1>6. q3 % 256 \in 0..255 /\ (q3 < 256 => q3 % 256 = q3)
  BY <1>5
<1>7. \A k \in 1..4 : ByteAt(n, k) \in 0..255
  <2>1. \A k \in 1..4 : k = 1 \/ k = 2 \/ k = 3 \/ k = 4
    OBVIOUS
  <2> QED
    BY <1>1, <1>2, <1>4, <1>5, <1>6, <2>1
<1>8. w = [k \in 1..4 |-> ByteAt(n, k)]
  BY DEF Word, ByteAt
<1>9. /\ w \in Seq(Octet) /\ Len(w) = 4
      /\ w[1] = ByteAt(n, 1) /\ w[2] = ByteAt(n, 2) /\ w[3] = ByteAt(n, 3) /\ w[4] = ByteAt(n, 4)
  <2>1. w \in [1..4 -> Octet]
    BY <1>7, <1>8 DEF Octet
  <2>2. w[1] = ByteAt(n, 1) /\ w[2] = ByteAt(n, 2) /\ w[3] = ByteAt(n, 3) /\ w[4] = ByteAt(n, 4)
    BY <1>8
  <2>3. \A m \in Nat : \A f \in [1..m -> Octet] : f \in Seq(Octet) /\ Len(f) = m
    OBVIOUS
  <2> HIDE DEF w
  <2> QED
    BY <2>1, <2>2, <2>3
<1> HIDE DEF w
<1>10. w \in Bytes
  BY <1>9, OctetsAreBytes
<1>11. ASSUME q3 < 256 PROVE LittleEndian(w) = n
  <2>1. LittleEndian(w) = w[1] + 256 * (w[2] + 256 * (w[3] + 256 * w[4]))
    BY <1>9, <1>10, LittleEndianIs, ZenonT(120)
  <2>2. w[3] + 256 * w[4] = q2
    BY <1>2, <1>5, <1>6, <1>9, <1>11
  <2>3. w[2] + 256 * q2 = q1
    BY <1>2, <1>4, <1>9
  <2>4. w[1] + 256 * q1 = n
    BY <1>1, <1>2, <1>9
  <2> QED
    BY <2>1, <2>2, <2>3, <2>4
<1> QED
  BY <1>3, <1>9, <1>10, <1>11 DEF w

\* The tokens of a vocabulary as they are written, each behind its length.
Entry(token) == Word(Len(token), 4) \o token
Entries(list) == [k \in 1..Len(list) |-> Entry(list[k])]

\* A list with one element in front.
LEMMA PartsBehind ==
  ASSUME NEW T, NEW one \in Seq(T), Len(one) = 1, NEW rest \in Seq(T)
  PROVE  /\ one \o rest \in Seq(T) /\ Len(one \o rest) = Len(rest) + 1 /\ (one \o rest)[1] = one[1]
         /\ \A k \in 1..Len(rest) : (one \o rest)[k + 1] = rest[k]
<1> DEFINE both == one \o rest
<1>1. Len(rest) \in Nat
  OBVIOUS
<1>2. both \in Seq(T) /\ Len(both) = 1 + Len(rest)
      /\ \A i \in 1..Len(both) : both[i] = IF i <= 1 THEN one[i] ELSE rest[i - 1]
  <2>1. /\ both \in Seq(T) /\ Len(both) = Len(one) + Len(rest)
        /\ \A i \in 1..(Len(one) + Len(rest)) :
             both[i] = IF i <= Len(one) THEN one[i] ELSE rest[i - Len(one)]
    BY ConcatProperties
  <2> HIDE DEF both
  <2> QED
    BY <2>1
<1> HIDE DEF both
<1>3. both[1] = one[1]
  BY <1>1, <1>2
<1>4. ASSUME NEW k \in 1..Len(rest) PROVE both[k + 1] = rest[k]
  <2> DEFINE i == k + 1
  <2>1. i \in 1..Len(both) /\ ~(i <= 1) /\ i - 1 = k
    BY <1>1, <1>2
  <2> HIDE DEF i
  <2>2. both[i] = rest[k]
    BY <1>2, <2>1
  <2> QED
    BY <2>2 DEF i
<1> QED
  BY <1>1, <1>2, <1>3, <1>4 DEF both

\* The first token of a vocabulary is written first.
LEMMA EntriesFacts ==
  /\ \A token \in Bytes : Word(Len(token), 4) \in Bytes /\ Entry(token) \in Bytes
  /\ FlattenSeq(Entries(<<>>)) = <<>>
  /\ \A list \in Seq(Bytes) : FlattenSeq(Entries(list)) \in Bytes
  /\ \A token \in Bytes, list \in Seq(Bytes) :
       FlattenSeq(Entries(<<token>> \o list)) = Entry(token) \o FlattenSeq(Entries(list))
<1>1. ASSUME NEW token \in Bytes
      PROVE  Word(Len(token), 4) \in Bytes /\ Entry(token) \in Bytes
  <2>1. Len(token) \in Nat
    BY DEF Bytes
  <2>4. Word(Len(token), 4) \in Bytes
    BY <2>1, WordIsRead
  <2> QED
    BY <2>4, JoinFacts DEF Entry
<1>2. ASSUME NEW list \in Seq(Bytes)
      PROVE  /\ Entries(list) \in Seq(Bytes) /\ Len(Entries(list)) = Len(list)
             /\ \A k \in 1..Len(list) : Entries(list)[k] = Entry(list[k])
  <2>1. \A k \in 1..Len(list) : Entry(list[k]) \in Bytes
    BY <1>1
  <2>2. Entries(list) \in [1..Len(list) -> Bytes] /\ Len(list) \in Nat
    BY <2>1 DEF Entries
  <2> QED
    BY <2>2 DEF Entries
<1>3. Entries(<<>>) = <<>>
  BY DEF Entries
<1>4. ASSUME NEW token \in Bytes, NEW list \in Seq(Bytes)
      PROVE  FlattenSeq(Entries(<<token>> \o list)) = Entry(token) \o FlattenSeq(Entries(list))
  <2> DEFINE e == Entry(token)
             one == Append(<<>>, e)
             more == <<token>> \o list
             n == Len(list)
  <2>1. /\ more \in Seq(Bytes) /\ n \in Nat /\ Len(more) = n + 1 /\ more[1] = token
        /\ \A k \in 1..n : more[k + 1] = list[k]
    OBVIOUS
  <2>2. e \in Bytes
    BY <1>1
  <2>3. /\ Entries(list) \in Seq(Bytes) /\ Len(Entries(list)) = n
        /\ \A k \in 1..n : Entries(list)[k] = Entry(list[k])
    BY <1>2
  <2> HIDE DEF e
  <2>4. /\ one \in Seq(Bytes) /\ Len(one) = 1 /\ one[1] = e
        /\ FlattenSeq(one) = <<>> \o e /\ <<>> \in Seq(Bytes)
    <3>1. <<>> \in Seq(Bytes)
      OBVIOUS
    <3>2. FlattenSeq(Append(<<>>, e)) = FlattenSeq(<<>>) \o e
      BY <2>2, <3>1, FlattenBytes
    <3>3. one \in Seq(Bytes) /\ Len(one) = 1 /\ one[1] = e
      BY <2>2
    <3>4. FlattenSeq(one) = <<>> \o e
      BY <3>2, FlattenBytes
    <3> QED
      BY <3>1, <3>3, <3>4
  <2> HIDE DEF one
  <2> DEFINE both == one \o Entries(list)
  <2>5. /\ both \in Seq(Bytes) /\ Len(both) = n + 1 /\ both[1] = e
        /\ \A k \in 1..n : both[k + 1] = Entry(list[k])
    <3> DEFINE rest == Entries(list)
    <3>1. /\ both \in Seq(Bytes) /\ Len(both) = n + 1 /\ both[1] = e
          /\ \A k \in 1..n : both[k + 1] = rest[k]
      <4>1. rest \in Seq(Bytes) /\ Len(rest) = n
        BY <2>3
      <4>2. n \in Nat
        BY <2>1
      <4>3. both = one \o rest
        OBVIOUS
      <4> HIDE DEF rest, both, n
      <4> QED
        BY <2>4, <4>1, <4>2, <4>3, PartsBehind, ZenonT(60)
    <3> HIDE DEF both
    <3> QED
      BY <2>3, <3>1
  <2> HIDE DEF more, both, n
  <2>6. /\ Entries(more) \in Seq(Bytes) /\ Len(Entries(more)) = n + 1
        /\ \A k \in 1..(n + 1) : Entries(more)[k] = Entry(more[k])
    BY <1>2, <2>1
  <2>7. \A k \in 1..(n + 1) : Entries(more)[k] = both[k]
    <3> SUFFICES ASSUME NEW k \in 1..(n + 1) PROVE Entries(more)[k] = both[k]
      OBVIOUS
    <3>1. CASE k = 1
      BY <2>1, <2>5, <2>6, <3>1 DEF e
    <3>2. CASE k # 1
      <4> DEFINE j == k - 1
      <4>1. j \in 1..n /\ j + 1 = k
        BY <2>1, <3>2
      <4> HIDE DEF j
      <4> QED
        BY <2>1, <2>5, <2>6, <4>1
    <3> QED
      BY <3>1, <3>2
  <2>8. Entries(more) = both
    BY <2>5, <2>6, <2>7, SeqEqual
  <2>9. FlattenSeq(both) = FlattenSeq(one) \o FlattenSeq(Entries(list))
    BY <2>3, <2>4, FlattenBytes DEF both
  <2>10. <<>> \o e = e
    BY <2>2, JoinFacts
  <2> QED
    BY <2>4, <2>8, <2>9, <2>10 DEF more, e
<1> QED
  BY <1>1, <1>2, <1>3, <1>4, FlattenBytes

\* A slice up to the end, and the two parts of which it is put together.
SplitAt(s, o, e, len, a, b) == e \in 0..len /\ Slice(s, o, e) = a /\ Slice(s, e, len) = b

\* A slice that is two byte strings ends its first where the second starts.
LEMMA PartsOfSlice ==
  ASSUME NEW s \in Bytes, NEW len, len = Len(s), NEW o \in 0..len, NEW a \in Bytes, NEW b \in Bytes,
         Slice(s, o, len) = a \o b, NEW e, e = o + Len(a)
  PROVE  SplitAt(s, o, e, len, a, b)
<1> DEFINE m == Len(a)
           both == a \o b
<1>1. len \in Nat /\ o \in Nat /\ o <= len /\ m \in Nat /\ Len(b) \in Nat /\ len <= Len(s)
  BY DEF Bytes
<1>2. /\ both \in Bytes /\ Len(both) = m + Len(b)
      /\ (\A k \in 1..m : both[k] = a[k]) /\ \A k \in 1..Len(b) : both[m + k] = b[k]
  BY DEF Bytes
<1>3. Len(both) = len - o /\ \A k \in 1..(len - o) : both[k] = s[o + k]
  <2>1. Slice(s, o, len) = both
    OBVIOUS
  <2> HIDE DEF both
  <2> QED
    BY <1>1, <2>1, SliceWithin, ZenonT(60)
<1>4. e \in 0..len /\ e \in Nat /\ Len(b) = len - e /\ o <= e /\ e <= len /\ e - o = m
  BY <1>1, <1>2, <1>3
<1> HIDE DEF both
<1>5. Slice(s, o, e) = a
  <2> DEFINE x == Slice(s, o, e)
  <2>1. x \in Bytes /\ Len(x) = m /\ \A k \in 1..m : x[k] = s[o + k]
    <3>1. o \in Nat /\ e \in Nat /\ o <= e /\ e <= Len(s)
      BY <1>1, <1>4
    <3>2. Slice(s, o, e) \in Bytes /\ Len(Slice(s, o, e)) = e - o
          /\ \A k \in 1..(e - o) : Slice(s, o, e)[k] = s[o + k]
      BY <3>1, SliceWithin, ZenonT(120)
    <3> HIDE DEF m, x
    <3> QED
      BY <1>4, <3>2 DEF x
  <2>2. \A k \in 1..m : s[o + k] = a[k]
    BY <1>1, <1>2, <1>3
  <2> HIDE DEF x
  <2>3. \A k \in 1..Len(x) : x[k] = a[k]
    BY <2>1, <2>2
  <2>4. x \in Seq(Nat) /\ a \in Seq(Nat) /\ Len(x) = Len(a)
    BY <2>1 DEF Bytes
  <2>5. x = a
    BY <2>3, <2>4, SeqEqual
  <2> QED
    BY <2>5 DEF x
<1>6. Slice(s, e, len) = b
  <2> DEFINE x == Slice(s, e, len)
  <2>1. x \in Bytes /\ Len(x) = len - e /\ \A k \in 1..(len - e) : x[k] = s[e + k]
    <3>1. e \in Nat /\ len \in Nat /\ e <= len /\ len <= Len(s)
      BY <1>1, <1>4
    <3> QED
      BY <3>1, SliceWithin, ZenonT(120)
  <2>2. \A k \in 1..Len(b) : s[e + k] = b[k]
    <3> SUFFICES ASSUME NEW k \in 1..Len(b) PROVE s[e + k] = b[k]
      OBVIOUS
    <3> DEFINE j == m + k
    <3>1. j \in 1..(len - o) /\ o + j = e + k
      BY <1>1, <1>2, <1>3
    <3>2. both[j] = b[k]
      BY <1>2
    <3> HIDE DEF j
    <3> QED
      BY <1>3, <3>1, <3>2
  <2> HIDE DEF x
  <2>3. \A k \in 1..Len(x) : x[k] = b[k]
    BY <1>4, <2>1, <2>2
  <2>4. x \in Seq(Nat) /\ b \in Seq(Nat) /\ Len(x) = Len(b)
    BY <1>4, <2>1 DEF Bytes
  <2>5. x = b
    BY <2>3, <2>4, SeqEqual
  <2> QED
    BY <2>5 DEF x
<1> QED
  BY <1>4, <1>5, <1>6 DEF SplitAt

\* Written behind an offset are the tokens of the list, and nothing else.
WrittenFrom(content, o, list, n) ==
  /\ list \in Seq(Bytes) /\ Len(list) = n
  /\ FlattenSeq(Entries(list)) = Slice(content, o, Len(content))

\* One more token in front, which is not over the end.
LEMMA OneMoreEntry ==
  ASSUME NEW content \in Seq(Octet), NEW o \in 0..Len(content), ~Over(content, o),
         NEW n \in Nat, NEW rest, WrittenFrom(content, EndFrom(content, o), rest, n)
  PROVE  WrittenFrom(content, o, <<TokenFrom(content, o)>> \o rest, n + 1)
<1> DEFINE len == Len(content)
           end == EndFrom(content, o)
           word == Slice(content, o, o + 4)
           token == TokenFrom(content, o)
<1>1. content \in Bytes /\ len \in Nat /\ o \in Nat /\ o <= len
  BY OctetsAreBytes
<1>2. end \in (o + 4)..len /\ token \in Bytes
  BY <1>1, WordFromFacts
<1>3. WordFrom(content, o) = LittleEndian(word) /\ WordFrom(content, o) \in Nat
      /\ end = o + 4 + WordFrom(content, o)
  <2>1. ~(len < o + 4)
    BY DEF Over
  <2> QED
    BY <1>1, <2>1, WordFromFacts DEF WordFrom, EndFrom
<1> HIDE DEF end
<1>4. o + 4 \in Nat /\ o + 4 <= end /\ end <= len /\ end \in Nat
      /\ end - (o + 4) = WordFrom(content, o)
  BY <1>1, <1>2, <1>3
<1>5. Len(token) = WordFrom(content, o)
  <2>1. token = Slice(content, o + 4, end)
    BY DEF TokenFrom, end
  <2> HIDE DEF token, len
  <2>2. Len(Slice(content, o + 4, end)) = end - (o + 4)
    <3> DEFINE a == o + 4
    <3>1. a \in Nat /\ a <= end /\ end <= Len(content)
      BY <1>4 DEF len
    <3> HIDE DEF a
    <3>2. Len(Slice(content, a, end)) = end - a
      BY <1>1, <1>4, <3>1, SliceWithin
    <3> QED
      BY <3>2 DEF a
  <2> QED
    BY <1>4, <2>1, <2>2
<1>6. word \in Seq(Octet) /\ Len(word) = 4
  BY <1>1, <1>4 DEF Slice
<1> HIDE DEF word
<1>7. Word(Len(token), 4) = word
  BY <1>3, <1>5, <1>6, WordReadsBack
<1>8. rest \in Seq(Bytes) /\ Len(rest) = n /\ FlattenSeq(Entries(rest)) = Slice(content, end, len)
  BY DEF WrittenFrom, end
<1>9. Entry(token) = Slice(content, o, end)
  <2>1. word \o token = Slice(content, o, end)
    <3> DEFINE a == o + 4
    <3>1. a \in Nat /\ o <= a /\ a <= end /\ end <= Len(content)
      BY <1>1, <1>4
    <3>2. word = Slice(content, o, a) /\ token = Slice(content, a, end)
      BY DEF word, TokenFrom, end
    <3> HIDE DEF a, token
    <3> QED
      BY <1>1, <1>4, <3>1, <3>2, SlicesMeet, ZenonT(60)
  <2> QED
    BY <1>7, <2>1 DEF Entry
<1> HIDE DEF token
<1>10. FlattenSeq(Entries(<<token>> \o rest)) = Entry(token) \o FlattenSeq(Entries(rest))
  BY <1>2, <1>8, EntriesFacts
<1>11. Slice(content, o, end) \o Slice(content, end, len) = Slice(content, o, len)
  <2>1. o <= end /\ end <= len /\ len <= Len(content)
    BY <1>1, <1>4
  <2> HIDE DEF len
  <2> QED
    BY <1>1, <1>4, <2>1, SlicesMeet
<1>12. <<token>> \o rest \in Seq(Bytes) /\ Len(<<token>> \o rest) = n + 1
  BY <1>2, <1>8
<1> QED
  BY <1>8, <1>9, <1>10, <1>11, <1>12 DEF WrittenFrom, token

\* A vocabulary that is read from model.bin is the one that the file is the
\* export of.
LEMMA ModelIsExport ==
  ASSUME NEW content \in Seq(Octet), NEW list \in LoadModelBin(content)
  PROVE  list \in Seq(Bytes) /\ Export(list) = content
<1> DEFINE len == Len(content)
           count == WordFrom(content, 0)
<1>1. content \in Bytes /\ len \in Nat
  BY OctetsAreBytes
<1>2. ~(len < 4)
  BY DEF LoadModelBin
<1>3. count \in Nat /\ 4 \in 0..len /\ 0 \in 0..len
  <2>1. 0 \in 0..len /\ ~(len < 0 + 4) /\ 4 \in 0..len
    BY <1>1, <1>2
  <2> QED
    BY <1>1, <2>1, WordFromFacts
<1>4. PICK after : LoadModelBin(content) = after[<<count, 4>>] /\ Reads(content, after)
  BY <1>1, <1>2, ModelStepwise
<1> HIDE DEF count
<1> DEFINE Q == {n \in Nat : n <= count => \A o \in 0..len : \A v \in after[<<n, o>>] :
                   WrittenFrom(content, o, v, n)}
<1>5. 0 \in Q
  <2> SUFFICES ASSUME NEW o \in 0..len, NEW v \in after[<<0, o>>]
               PROVE  WrittenFrom(content, o, v, 0)
    OBVIOUS
  <2> DEFINE m == 0
  <2>1. m \in 0..count /\ m = 0
    BY <1>3
  <2> HIDE DEF m
  <2>2. after[<<m, o>>] = IF o = len THEN {<<>>} ELSE {}
    BY <1>4, <2>1 DEF Reads, count
  <2>3. v = <<>> /\ o = len
    BY <2>1, <2>2
  <2>4. Slice(content, len, len) = <<>>
    BY <1>1 DEF Slice
  <2>5. <<>> \in Seq(Bytes) /\ Len(<<>>) = 0
    OBVIOUS
  <2>6. FlattenSeq(Entries(<<>>)) = <<>>
    BY EntriesFacts
  <2> HIDE DEF len
  <2> QED
    BY <2>3, <2>4, <2>5, <2>6 DEF WrittenFrom, len
<1>6. ASSUME NEW n \in Nat, n \in Q PROVE n + 1 \in Q
  <2> DEFINE m == n + 1
  <2> SUFFICES ASSUME m <= count, NEW o \in 0..len, NEW v \in after[<<m, o>>]
               PROVE  WrittenFrom(content, o, v, m)
    OBVIOUS
  <2>1. m \in 0..count /\ m # 0 /\ m - 1 = n /\ n <= count
    BY <1>3
  <2> HIDE DEF m
  <2>2. after[<<m, o>>] =
          IF Over(content, o) THEN {}
          ELSE {<<TokenFrom(content, o)>> \o rest : rest \in after[<<n, EndFrom(content, o)>>]}
    BY <1>4, <2>1 DEF Reads, count
  <2>3. ~Over(content, o)
    BY <2>2
  <2>4. PICK rest \in after[<<n, EndFrom(content, o)>>] : v = <<TokenFrom(content, o)>> \o rest
    BY <2>2, <2>3
  <2> DEFINE end == EndFrom(content, o)
  <2>5. end \in 0..len
    <3>1. end \in (o + 4)..len
      BY <1>1, <2>3, WordFromFacts
    <3> HIDE DEF end
    <3> QED
      BY <1>1, <3>1
  <2>6. WrittenFrom(content, end, rest, n)
    <3> HIDE DEF end
    <3>1. rest \in after[<<n, end>>]
      BY <2>4 DEF end
    <3> QED
      BY <1>6, <2>1, <2>5, <3>1
  <2>7. WrittenFrom(content, o, <<TokenFrom(content, o)>> \o rest, n + 1)
    BY <2>3, <2>6, OneMoreEntry
  <2> QED
    BY <2>4, <2>7 DEF m
<1>7. count \in Q
  <2> HIDE DEF Q
  <2> QED
    BY <1>3, <1>5, <1>6, Induction
<1>8. WrittenFrom(content, 4, list, count)
  <2>1. count <= count
    BY <1>3
  <2> QED
    BY <1>3, <1>4, <1>7, <2>1
<1>9. /\ list \in Seq(Bytes) /\ Len(list) = count
      /\ FlattenSeq(Entries(list)) = Slice(content, 4, len)
  BY <1>8 DEF WrittenFrom
<1> DEFINE word == Slice(content, 0, 4)
<1>10. word \in Seq(Octet) /\ Len(word) = 4 /\ count = LittleEndian(word)
  <2>1. 0 + 4 = 4
    OBVIOUS
  <2>2. count = LittleEndian(word)
    BY <2>1 DEF count, WordFrom
  <2> QED
    BY <1>1, <1>2, <2>2 DEF Slice
<1>11. word \o Slice(content, 4, len) = content
  <2>1. Slice(content, 0, len) = content
    BY <1>1, SliceWhole
  <2>2. 4 <= Len(content) /\ 0 <= 4 /\ Len(content) <= Len(content) /\ 4 \in Nat /\ 0 \in Nat
    BY <1>1, <1>2
  <2>3. word \o Slice(content, 4, len) = Slice(content, 0, len)
    BY <1>1, <2>2, SlicesMeet
  <2> QED
    BY <2>1, <2>3
<1> HIDE DEF word
<1>12. Word(count, 4) = word
  BY <1>10, WordReadsBack
<1>13. Export(list) = Word(Len(list), 4) \o FlattenSeq(Entries(list))
  BY DEF Export, Entries, Entry
<1> QED
  BY <1>9, <1>11, <1>12, <1>13

\* A vocabulary is found again in its export, if its count and the lengths of its
\* tokens fit the words that are written for them.
LEMMA ExportIsRead ==
  ASSUME NEW list \in Exportable
  PROVE  Export(list) \in Bytes /\ list \in LoadModelBin(Export(list))
<1> DEFINE content == Export(list)
           len == Len(content)
           count == WordFrom(content, 0)
           size == Len(list)
           word == Word(size, 4)
           flat == FlattenSeq(Entries(list))
           Fitting(v) == v \in Seq(Bytes) /\ \A k \in 1..Len(v) : FitsWord(Len(v[k]))
<1>1. Fitting(list) /\ FitsWord(size) /\ size \in Nat
  <2>1. list \in Seq(Seq(Octet)) /\ FitsWord(size) /\ \A k \in 1..size : FitsWord(Len(list[k]))
    BY DEF Exportable
  <2>2. \A k \in 1..size : list[k] \in Bytes
    <3>1. \A k \in 1..size : list[k] \in Seq(Octet)
      BY <2>1
    <3> QED
      BY <3>1, OctetsAreBytes
  <2>3. list \in Seq(Bytes)
    <3>1. list \in [1..size -> Bytes] /\ size \in Nat
      BY <2>1, <2>2
    <3> HIDE DEF size
    <3> QED
      BY <3>1
  <2> QED
    BY <2>1, <2>3
<1>2. content = word \o flat
  BY DEF Export, Entries, Entry
<1>3. flat \in Bytes /\ word \in Bytes /\ Len(word) = 4 /\ LittleEndian(word) = size
  BY <1>1, EntriesFacts, WordIsRead
<1> HIDE DEF content, word, flat, size
<1>4. content \in Bytes /\ len \in Nat /\ len = 4 + Len(flat) /\ Len(flat) \in Nat
  <2>1. word \o flat \in Bytes /\ Len(word \o flat) = Len(word) + Len(flat)
    BY <1>3, ListsJoined
  <2>2. Len(flat) \in Nat
    BY <1>3 DEF Bytes
  <2> QED
    BY <1>2, <1>3, <2>1, <2>2
<1>5. Slice(content, 0, 4) = word /\ Slice(content, 4, len) = flat /\ 4 \in 0..len /\ 0 \in 0..len
  <2>1. Slice(content, 0, len) = word \o flat
    BY <1>2, <1>4, SliceWhole
  <2> DEFINE start == 0
             behind == 4
  <2>2. start \in 0..len /\ behind = start + Len(word)
    BY <1>3, <1>4
  <2>3. Slice(content, start, len) = word \o flat
    BY <2>1
  <2> HIDE DEF start, behind
  <2>4. SplitAt(content, start, behind, len, word, flat)
    <3>1. len = Len(content)
      OBVIOUS
    <3> HIDE DEF len
    <3> QED
      BY <1>3, <1>4, <2>2, <2>3, <3>1, PartsOfSlice
  <2>5. 0 \in 0..len
    BY <1>4
  <2> QED
    BY <2>4, <2>5 DEF SplitAt, start, behind
<1>6. count = size /\ ~(len < 4)
  <2>1. 0 + 4 = 4
    OBVIOUS
  <2> QED
    BY <1>3, <1>4, <1>5, <2>1 DEF WordFrom
<1>7. PICK after : LoadModelBin(content) = after[<<count, 4>>] /\ Reads(content, after)
  BY <1>4, <1>6, ModelStepwise
<1> DEFINE Q == {n \in Nat : n <= size => \A o \in 0..len : \A v :
                   Fitting(v) /\ WrittenFrom(content, o, v, n) => v \in after[<<n, o>>]}
<1> HIDE DEF Fitting
<1>8. 0 \in Q
  <2> SUFFICES ASSUME NEW o \in 0..len, NEW v, WrittenFrom(content, o, v, 0)
               PROVE  v \in after[<<0, o>>]
    OBVIOUS
  <2> DEFINE m == 0
  <2>1. m \in 0..count /\ m = 0
    BY <1>1, <1>6
  <2>2. v = <<>> /\ v \in Seq(Bytes) /\ FlattenSeq(Entries(v)) = Slice(content, o, len)
    BY DEF WrittenFrom
  <2>3. Slice(content, o, len) = <<>>
    BY <2>2, EntriesFacts
  <2>4. o = len
    <3>1. o \in Nat /\ o <= len /\ len <= Len(content)
      BY <1>4
    <3>2. Len(Slice(content, o, len)) = len - o
      <4> HIDE DEF len
      <4> QED
        BY <1>4, <3>1, SliceWithin
    <3> QED
      BY <1>4, <2>3, <3>1, <3>2
  <2> HIDE DEF m
  <2>5. after[<<m, o>>] = IF o = len THEN {<<>>} ELSE {}
    BY <1>7, <2>1 DEF Reads
  <2> QED
    BY <2>1, <2>2, <2>4, <2>5
<1>9. ASSUME NEW n \in Nat, n \in Q PROVE n + 1 \in Q
  <2> DEFINE m == n + 1
  <2> SUFFICES ASSUME m <= size, NEW o \in 0..len, NEW v, Fitting(v), WrittenFrom(content, o, v, m)
               PROVE  v \in after[<<m, o>>]
    OBVIOUS
  <2>1. m \in 0..count /\ m # 0 /\ m - 1 = n /\ n <= size
    BY <1>1, <1>6
  <2>2. v \in Seq(Bytes) /\ Len(v) = m /\ FlattenSeq(Entries(v)) = Slice(content, o, len)
    BY DEF WrittenFrom
  <2> DEFINE token == v[1]
             rest == Tail(v)
  <2>3. /\ token \in Bytes /\ rest \in Seq(Bytes) /\ Len(rest) = n /\ v = <<token>> \o rest
        /\ \A k \in 1..n : rest[k] = v[k + 1] /\ k + 1 \in 1..Len(v)
    BY <2>2
  <2>4. FitsWord(Len(token)) /\ Fitting(rest)
    <3>1. 1 \in 1..Len(v)
      BY <2>2
    <3>2. FitsWord(Len(token))
      BY <3>1 DEF Fitting
    <3> HIDE DEF rest, token
    <3>3. \A k \in 1..Len(rest) : FitsWord(Len(rest[k]))
      BY <2>3 DEF Fitting
    <3> QED
      BY <2>3, <3>2, <3>3 DEF Fitting
  <2> HIDE DEF token, rest
  <2> DEFINE w == Word(Len(token), 4)
             back == FlattenSeq(Entries(rest))
             a == o + 4
             end == a + Len(token)
  <2>5. w \in Bytes /\ Len(w) = 4 /\ LittleEndian(w) = Len(token) /\ Len(token) \in Nat
        /\ back \in Bytes
    <3>1. Len(token) \in Nat
      BY <2>3 DEF Bytes
    <3> QED
      BY <2>3, <2>4, <3>1, WordIsRead, EntriesFacts
  <2>6. Slice(content, o, len) = w \o (token \o back)
    <3>1. FlattenSeq(Entries(v)) = Entry(token) \o back
      BY <2>3, EntriesFacts
    <3>2. Entry(token) = w \o token
      BY DEF Entry
    <3> HIDE DEF w, back
    <3>3. (w \o token) \o back = w \o (token \o back)
      BY <2>3, <2>5, JoinFacts
    <3> QED
      BY <2>2, <3>1, <3>2, <3>3
  <2> HIDE DEF w, back
  <2>7. a \in 0..len /\ Slice(content, o, a) = w /\ Slice(content, a, len) = token \o back
    <3>1. token \o back \in Bytes
      BY <2>3, <2>5, JoinFacts
    <3>2. len = Len(content) /\ a = o + Len(w)
      BY <2>5
    <3> HIDE DEF a, len
    <3>3. SplitAt(content, o, a, len, w, token \o back)
      <4> DEFINE b == token \o back
      <4>1. b \in Bytes /\ Slice(content, o, len) = w \o b
        BY <2>6, <3>1
      <4> HIDE DEF b
      <4>2. SplitAt(content, o, a, len, w, b)
        BY <1>4, <2>5, <3>2, <4>1, PartsOfSlice
      <4> QED
        BY <4>2 DEF b
    <3> QED
      BY <3>3 DEF SplitAt
  <2> HIDE DEF a
  <2>8. end \in 0..len /\ Slice(content, a, end) = token /\ Slice(content, end, len) = back
    <3>1. len = Len(content) /\ end = a + Len(token)
      OBVIOUS
    <3> HIDE DEF end, len
    <3>2. SplitAt(content, a, end, len, token, back)
      BY <1>4, <2>3, <2>5, <2>7, <3>1, PartsOfSlice
    <3> QED
      BY <3>2 DEF SplitAt
  <2>9. /\ EndFrom(content, o) = end /\ TokenFrom(content, o) = token /\ ~Over(content, o)
    <3>1. WordFrom(content, o) = Len(token)
      BY <2>5, <2>7 DEF WordFrom, a
    <3>2. EndFrom(content, o) = end
      BY <3>1 DEF EndFrom, a
    <3>3. ~(len < a) /\ ~(len < end)
      BY <1>4, <2>7, <2>8
    <3> HIDE DEF end
    <3> QED
      BY <2>8, <3>2, <3>3 DEF TokenFrom, Over, a
  <2> HIDE DEF end
  <2>10. rest \in after[<<n, end>>]
    <3>1. WrittenFrom(content, end, rest, n)
      BY <2>3, <2>8 DEF WrittenFrom, back
    <3> QED
      BY <1>9, <2>1, <2>4, <2>8, <3>1
  <2> HIDE DEF m
  <2>11. after[<<m, o>>] =
          IF Over(content, o) THEN {}
          ELSE {<<TokenFrom(content, o)>> \o x : x \in after[<<n, EndFrom(content, o)>>]}
    BY <1>7, <2>1 DEF Reads
  <2> QED
    BY <2>3, <2>9, <2>10, <2>11
<1>10. size \in Q
  <2> HIDE DEF Q
  <2> QED
    BY <1>1, <1>8, <1>9, Induction
<1>11. WrittenFrom(content, 4, list, size)
  <2>1. list \in Seq(Bytes)
    BY <1>1 DEF Fitting
  <2> QED
    BY <1>5, <2>1 DEF WrittenFrom, flat, size
<1>12. list \in after[<<size, 4>>]
  <2>1. size <= size
    BY <1>1
  <2> QED
    BY <1>1, <1>5, <1>10, <1>11, <2>1
<1> QED
  BY <1>4, <1>6, <1>7, <1>12 DEF content
-----------------------------------------------------------------------------
\* What loading and reading keep: types first.
LoadTypes ==
  /\ run \in Run /\ (run.kind = "target" => run.vocab \in Seq(Octet))
  /\ file_no \in Nat \ {0} /\ pos \in Nat \ {0}
  /\ vocab \in Seq(Bytes)
  /\ stream \in Stream
  /\ range \in Nat \X Nat /\ index \in Nat \ {0} /\ bytes \in Bytes

\* An ID is only asked for in a file that was opened.
FileIsOpen ==
  phase = "next_id" =>
    /\ file_no \in 1..Len(run.files) /\ LocalIds # {}
    /\ run.kind = "du" => Gmap # {}

\* While a stream is being loaded, every ID has its lexeme; afterwards it also
\* has the bounds of its lexemes.  Nothing was copied yet.
LoadingInv ==
  /\ phase \in {"load_vocab", "open_file", "next_id"} => Len(stream.ids) = Len(stream.parts)
  /\ run # NoRun /\ phase = "loaded" => /\ Len(stream.ids) = Len(stream.parts)
                                        /\ stream = MakeLoadedStream(stream.ids, stream.parts)
  /\ phase \in {"load_vocab", "open_file", "next_id", "loaded"} => bytes = <<>>

\* The parts before `index` are copied as far as they are in the range, and the
\* first that is copied holds its start.
CopyInv ==
  phase = "copy" =>
    /\ StructureValid(stream)
    /\ range[1] < range[2] /\ range[2] <= Total(stream.parts, Len(stream.parts))
    /\ index <= Len(stream.parts) + 1
    /\ Total(stream.parts, index - 1) <= range[1] =>
         index <= Len(stream.parts) /\ range[1] < Total(stream.parts, index)
    /\ bytes = Slice(FlattenSeq(stream.parts), range[1],
                     Min({range[2], Total(stream.parts, index - 1)}))

\* An answer is right, and so is a refusal.
AnswerInv ==
  /\ error # "none" => phase = "failed"
  /\ RangeExact

LoadInv == LoadTypes /\ FileIsOpen /\ LoadingInv /\ CopyInv /\ AnswerInv

\* The words of a file are numbers, all read from as many bytes each.
LEMMA WordsAreNumbers ==
  ASSUME NEW content \in Bytes, NEW width \in {2, 3, 4}
  PROVE  /\ Words(content, width) \subseteq Seq(Nat)
         /\ \A words \in Words(content, width) :
              /\ Words(content, width) = {words}
              /\ Len(words) = Len(content) \div width
              /\ Len(content) % width = 0
              /\ \A k \in 1..Len(words) :
                   words[k] = LittleEndian(Slice(content, width * (k - 1), width * k))
<1> DEFINE n == Len(content) \div width
           number(k) == LittleEndian(Slice(content, width * (k - 1), width * k))
           list == [k \in 1..n |-> number(k)]
<1>1. n \in Nat /\ Len(content) \in Nat
  BY DEF Bytes
<1>2. Words(content, width) = IF Len(content) % width # 0 THEN {} ELSE {list}
  BY DEF Words
<1>3. \A k \in 1..n : number(k) \in Nat
  <2> SUFFICES ASSUME NEW k \in 1..n PROVE number(k) \in Nat
    OBVIOUS
  <2> DEFINE piece == Slice(content, width * (k - 1), width * k)
  <2>1. piece \in Bytes
    BY <1>1 DEF Slice, Bytes
  <2> HIDE DEF piece
  <2>2. LittleEndian(piece) \in Nat
    BY <2>1, LittleEndianIs
  <2> QED
    BY <2>2 DEF piece
<1> HIDE DEF n, number
<1>4. list \in Seq(Nat) /\ Len(list) = n /\ \A k \in 1..n : list[k] = number(k)
  BY <1>1, <1>3
<1> HIDE DEF list
<1> QED
  BY <1>2, <1>4 DEF n, number

\* A stream with bounds made from its parts is valid.
LEMMA MadeIsValid ==
  ASSUME NEW ids \in Seq(Nat), NEW parts \in Seq(Bytes), Len(ids) = Len(parts)
  PROVE  LET made == MakeLoadedStream(ids, parts)
         IN  /\ made \in Stream /\ made.ids = ids /\ made.parts = parts
             /\ StructureValid(made)
             /\ made = MakeLoadedStream(made.ids, made.parts)
<1> DEFINE n == Len(parts)
           bounds == [k \in 1..(n + 1) |-> Total(parts, k - 1)]
           made == MakeLoadedStream(ids, parts)
<1>1. n \in Nat
  OBVIOUS
<1>2. made = [ids |-> ids, parts |-> parts, bounds |-> bounds]
  BY DEF MakeLoadedStream
<1> HIDE DEF made
<1>3. \A k \in 1..(n + 1) : Total(parts, k - 1) \in Nat
  <2>1. \A k \in 1..(n + 1) : k - 1 \in 0..n
    BY <1>1
  <2>2. \A k \in 0..n : Total(parts, k) \in Nat
    BY TotalFacts
  <2> QED
    BY <2>1, <2>2
<1>4. bounds \in Seq(Nat) /\ Len(bounds) = n + 1 /\ \A k \in 1..(n + 1) : bounds[k] = Total(parts, k - 1)
  <2>1. n + 1 \in Nat
    BY <1>1
  <2> QED
    BY <1>3, <2>1
<1> HIDE DEF bounds, n
<1>5. made \in Stream /\ made.ids = ids /\ made.parts = parts /\ made.bounds = bounds
  BY <1>2, <1>4 DEF Stream
<1>6. StructureValid(made)
  BY <1>4, <1>5 DEF StructureValid, n
<1> QED
  BY <1>5, <1>6 DEF made

\* Nothing is in a slice that ends where it starts, or before.
LEMMA EmptySlice ==
  ASSUME NEW s \in Bytes, NEW a \in Nat, NEW b \in Nat, b <= a
  PROVE  Slice(s, a, b) = <<>>
BY DEF Slice, Bytes

LEMMA InitLoad == LoadInit => LoadInv
<1> SUFFICES ASSUME LoadInit PROVE LoadInv
  OBVIOUS
<1>1. /\ vocab = <<>> /\ file_no = 1 /\ pos = 1 /\ range = <<0, 0>> /\ index = 1
      /\ bytes = <<>> /\ error = "none"
  BY DEF LoadInit
<1>2. NoRun \in Run /\ Unbuilt \in Stream
  BY DEF NoRun, Unbuilt, Run, Stream, File, Bytes
<1>3. run \in Run /\ (run.kind = "target" => run.vocab \in Seq(Octet)) /\ stream \in Stream
  <2>1. NoRun.kind # "target"
    BY DEF NoRun
  <2> QED
    BY <1>2, <2>1, InputsAssumption DEF LoadInit
<1>4. LoadTypes
  BY <1>1, <1>3 DEF LoadTypes, Bytes
<1>5. phase \in {"load_vocab", "loaded"} /\ (phase = "load_vocab" => stream = Unbuilt)
      /\ (phase = "loaded" => run = NoRun)
  BY DEF LoadInit
<1>6. LoadingInv
  BY <1>1, <1>5 DEF LoadingInv, Unbuilt
<1>7. FileIsOpen /\ CopyInv
  BY <1>5 DEF FileIsOpen, CopyInv
<1>8. AnswerInv
  BY <1>1, <1>5 DEF AnswerInv, RangeExact
<1> QED
  BY <1>4, <1>6, <1>7, <1>8 DEF LoadInv
-----------------------------------------------------------------------------
\* The IDs of an open file are numbers, and so is the one that is looked up.
LEMMA IdsAreNumbers ==
  ASSUME LoadTypes, file_no \in 1..Len(run.files), LocalIds # {}
  PROVE  /\ local_ids \in Seq(Nat) /\ LocalIds = {local_ids}
         /\ pos <= Len(local_ids) => GlobalIds \subseteq Nat
<1>1. file \in File /\ run.kind \in {"du", "target"}
  BY DEF LoadTypes, file, Run
<1>2. file.local \in Bytes /\ file.gmap24 \in Bytes /\ file.gmap32 \in Bytes
  <2>1. file.local \in Seq(Octet) /\ file.gmap24 \in Seq(Octet) /\ file.gmap32 \in Seq(Octet)
    BY <1>1 DEF File
  <2> QED
    BY <2>1, OctetsAreBytes
<1>3. LocalIds = Words(file.local, IF run.kind = "du" THEN 2 ELSE 4) /\ LocalIds # {}
  BY DEF LocalIds
<1>4. local_ids \in LocalIds
  BY <1>3 DEF local_ids
<1>5. local_ids \in Seq(Nat) /\ LocalIds = {local_ids}
  <2> DEFINE width == IF run.kind = "du" THEN 2 ELSE 4
  <2>1. width \in {2, 3, 4}
    OBVIOUS
  <2> HIDE DEF width
  <2>2. /\ Words(file.local, width) \subseteq Seq(Nat)
        /\ \A words \in Words(file.local, width) : Words(file.local, width) = {words}
    BY <1>2, <2>1, WordsAreNumbers, ZenonT(120)
  <2> QED
    BY <1>3, <1>4, <2>2 DEF width
<1>6. Gmap \subseteq Seq(Nat)
  <2>1. Words(file.gmap24, 3) \subseteq Seq(Nat) /\ Words(file.gmap32, 4) \subseteq Seq(Nat)
    BY <1>2, WordsAreNumbers
  <2> QED
    BY <2>1 DEF Gmap
<1>7. ASSUME pos <= Len(local_ids) PROVE GlobalIds \subseteq Nat
  <2>1. local_id \in Nat
    BY <1>5, <1>7 DEF local_id, LoadTypes
  <2>2. CASE run.kind = "target"
    BY <2>1, <2>2 DEF GlobalIds
  <2>3. CASE run.kind # "target"
    <3>1. GlobalIds = {gmap[local_id + 1] : gmap \in {words \in Gmap : local_id < Len(words)}}
      BY <2>3 DEF GlobalIds
    <3>2. \A words \in Gmap : local_id < Len(words) => words[local_id + 1] \in Nat
      BY <1>6, <2>1
    <3> QED
      BY <3>1, <3>2
  <2> QED
    BY <2>2, <2>3
<1> QED
  BY <1>5, <1>7

\* Reading the vocabulary and the files leaves the answer alone.
LEMMA VocabStep ==
  ASSUME LoadInv, DecodeEntry \/ DictLoaded \/ LoadModel \/ ReadFails
  PROVE  LoadInv'
<1> USE DEF LoadInv, Fail, loading, reading
<1>1. phase \in {"load_vocab", "open_file"} /\ error = "none"
  BY DEF AnswerInv, DecodeEntry, DictLoaded, LoadModel, ReadFails
<1>2. UNCHANGED <<run, file_no, pos, stream, range, index, bytes>>
  BY DEF DecodeEntry, DictLoaded, LoadModel, ReadFails
<1>3. \/ phase' = "failed" /\ error' \in {"entry", "gmap_directory", "model", "file"}
      \/ phase' \in {"load_vocab", "open_file"} /\ error' = "none"
  BY <1>1 DEF DecodeEntry, DictLoaded, LoadModel, ReadFails
<1>4. vocab' \in Seq(Bytes)
  <2>0. vocab \in Seq(Bytes) /\ run.vocab \in Texts
    BY DEF LoadTypes, Run, Texts
  <2>1. CASE DecodeEntry
    <3> DEFINE line == Lines[Len(vocab) + 1]
    <3>1. Lines \in Seq(Texts)
      BY <2>0, LinesAreTexts DEF Lines
    <3>2. line \in Texts
      BY <2>0, <2>1, <3>1 DEF DecodeEntry
    <3> HIDE DEF line
    <3>3. StripCr(line) \in Texts
      BY <3>2 DEF StripCr, Front, Texts
    <3>4. DecodeDuLexeme(StripCr(line)) \subseteq Bytes
      BY <3>3, LexemeMeans, ZenonT(120)
    <3>5. vocab' = vocab \/ \E lexeme \in DecodeDuLexeme(StripCr(line)) : vocab' = Append(vocab, lexeme)
      BY <2>1 DEF DecodeEntry, line
    <3> QED
      BY <2>0, <3>4, <3>5
  <2>2. CASE DictLoaded
    BY <2>0, <2>2 DEF DictLoaded
  <2>3. CASE LoadModel
    <3>1. LoadModelBin(run.vocab) \subseteq Seq(Bytes)
      BY <2>3, ModelIsExport DEF LoadTypes, LoadModel
    <3> QED
      BY <2>0, <2>3, <3>1 DEF LoadModel
  <2>4. CASE ReadFails
    BY <2>0, <2>4 DEF ReadFails
  <2> QED
    BY <2>1, <2>2, <2>3, <2>4
<1>5. LoadTypes'
  BY <1>2, <1>4 DEF LoadTypes
<1>6. (LoadingInv /\ FileIsOpen /\ CopyInv)'
  BY <1>1, <1>2, <1>3 DEF LoadingInv, FileIsOpen, CopyInv
<1>7. AnswerInv'
  BY <1>2, <1>3 DEF AnswerInv, RangeExact
<1> QED
  BY <1>5, <1>6, <1>7

\* So does opening a file; behind the last, the stream gets its bounds.
LEMMA FileStep ==
  ASSUME LoadInv, OpenFile \/ EndFile
  PROVE  LoadInv'
<1> USE DEF LoadInv, Fail, loading, reading
<1>1. phase \in {"open_file", "next_id"} /\ error = "none" /\ Len(stream.ids) = Len(stream.parts)
      /\ bytes = <<>>
  BY DEF AnswerInv, LoadingInv, OpenFile, EndFile
<1>2. UNCHANGED <<run, vocab, range, index, bytes>>
  BY DEF OpenFile, EndFile
<1>3. stream.ids \in Seq(Nat) /\ stream.parts \in Seq(Bytes)
  BY DEF LoadTypes, Stream
<1> DEFINE made == MakeLoadedStream(stream.ids, stream.parts)
<1>4. /\ made \in Stream /\ made.ids = stream.ids /\ made.parts = stream.parts
      /\ made = MakeLoadedStream(made.ids, made.parts)
  BY <1>1, <1>3, MadeIsValid
<1>5. \/ phase' = "failed" /\ error' = "words" /\ UNCHANGED <<stream, file_no, pos>>
      \/ /\ phase' = "next_id" /\ error' = "none" /\ UNCHANGED <<stream, file_no>> /\ pos' = 1
         /\ file_no <= Len(run.files) /\ LocalIds # {} /\ (run.kind = "du" => Gmap # {})
      \/ phase' = "loaded" /\ error' = "none" /\ stream' = made /\ UNCHANGED <<file_no, pos>>
      \/ phase' = "open_file" /\ error' = "none" /\ UNCHANGED <<stream, pos>> /\ file_no' = file_no + 1
  BY <1>1 DEF OpenFile, EndFile
<1> HIDE DEF made
<1>6. LoadTypes'
  BY <1>2, <1>4, <1>5 DEF LoadTypes
<1>7. FileIsOpen'
  <2> SUFFICES ASSUME phase' = "next_id" PROVE FileIsOpen'
    BY DEF FileIsOpen
  <2>1. /\ UNCHANGED <<stream, file_no>> /\ file_no <= Len(run.files) /\ LocalIds # {}
        /\ run.kind = "du" => Gmap # {}
    BY <1>5
  <2>2. file_no \in 1..Len(run.files)
    BY <2>1 DEF LoadTypes, Run
  <2>3. LocalIds' = LocalIds /\ Gmap' = Gmap
    BY <1>2, <2>1 DEF LocalIds, Gmap, file
  <2> QED
    BY <1>2, <2>1, <2>2, <2>3 DEF FileIsOpen
<1>8. LoadingInv'
  BY <1>1, <1>2, <1>4, <1>5 DEF LoadingInv
<1>9. CopyInv'
  BY <1>5 DEF CopyInv
<1>10. AnswerInv'
  BY <1>5 DEF AnswerInv, RangeExact
<1> QED
  BY <1>6, <1>7, <1>8, <1>9, <1>10

\* One ID brings its lexeme; if that is the last, the stream gets its bounds.
LEMMA IdStep ==
  ASSUME LoadInv, NextId
  PROVE  LoadInv'
<1> USE DEF LoadInv, Fail, loading, reading
<1>1. /\ phase = "next_id" /\ error = "none" /\ Len(stream.ids) = Len(stream.parts) /\ bytes = <<>>
      /\ pos <= Len(local_ids)
  BY DEF AnswerInv, LoadingInv, NextId
<1>2. UNCHANGED <<run, vocab, file_no, range, index, bytes>>
  BY DEF NextId
<1>3. stream.ids \in Seq(Nat) /\ stream.parts \in Seq(Bytes) /\ vocab \in Seq(Bytes) /\ stream \in Stream
  BY DEF LoadTypes, Stream
<1>4. GlobalIds \subseteq Nat
  BY <1>1, IdsAreNumbers DEF FileIsOpen
<1>5. CASE phase' = "failed" /\ error' \in {"outside_gmap", "outside_vocab"} /\ UNCHANGED <<stream, pos>>
  <2>1. LoadTypes'
    BY <1>2, <1>5 DEF LoadTypes
  <2>2. (FileIsOpen /\ LoadingInv /\ CopyInv /\ AnswerInv)'
    BY <1>5 DEF FileIsOpen, LoadingInv, CopyInv, AnswerInv, RangeExact
  <2> QED
    BY <2>1, <2>2
<1>6. ASSUME NEW id \in GlobalIds, id < Len(vocab), pos' = pos + 1, UNCHANGED error,
             LET ids   == Append(stream.ids, id)
                 parts == Append(stream.parts, vocab[id + 1])
             IN  \/ stream' = MakeLoadedStream(ids, parts) /\ phase' = "loaded"
                 \/ stream' = [stream EXCEPT !.ids = ids, !.parts = parts] /\ UNCHANGED phase
      PROVE  LoadInv'
  <2> DEFINE ids == Append(stream.ids, id)
             parts == Append(stream.parts, vocab[id + 1])
             made == MakeLoadedStream(ids, parts)
  <2>1. id \in Nat /\ vocab[id + 1] \in Bytes
    BY <1>3, <1>4, <1>6
  <2>2. ids \in Seq(Nat) /\ parts \in Seq(Bytes) /\ Len(ids) = Len(parts)
    BY <1>1, <1>3, <2>1
  <2>3. \/ stream' = made /\ phase' = "loaded"
        \/ stream' = [stream EXCEPT !.ids = ids, !.parts = parts] /\ phase' = "next_id"
    BY <1>1, <1>6
  <2> HIDE DEF ids, parts
  <2>4. /\ made \in Stream /\ made.ids = ids /\ made.parts = parts
        /\ made = MakeLoadedStream(made.ids, made.parts)
    BY <2>2, MadeIsValid
  <2> HIDE DEF made
  <2>5. stream' \in Stream /\ stream'.ids = ids /\ stream'.parts = parts
    BY <1>3, <2>2, <2>3, <2>4 DEF Stream
  <2>6. LoadTypes'
    BY <1>2, <1>6, <2>5 DEF LoadTypes
  <2>7. FileIsOpen'
    BY <1>1, <1>2 DEF FileIsOpen, LocalIds, Gmap, file
  <2>8. LoadingInv'
    BY <1>1, <1>2, <2>2, <2>3, <2>4, <2>5 DEF LoadingInv
  <2>9. (CopyInv /\ AnswerInv)'
    BY <1>1, <1>6, <2>3 DEF CopyInv, AnswerInv, RangeExact
  <2> QED
    BY <2>6, <2>7, <2>8, <2>9
<1>7. \/ phase' = "failed" /\ error' \in {"outside_gmap", "outside_vocab"} /\ UNCHANGED <<stream, pos>>
      \/ \E id \in GlobalIds :
           /\ id < Len(vocab) /\ pos' = pos + 1 /\ UNCHANGED error
           /\ LET ids   == Append(stream.ids, id)
                  parts == Append(stream.parts, vocab[id + 1])
              IN  \/ stream' = MakeLoadedStream(ids, parts) /\ phase' = "loaded"
                  \/ stream' = [stream EXCEPT !.ids = ids, !.parts = parts] /\ UNCHANGED phase
  BY DEF NextId
<1> QED
  BY <1>5, <1>6, <1>7
-----------------------------------------------------------------------------
\* What the bounds of a valid stream say: the part a range starts in is the
\* last that starts there or before, and it reaches further.
LEMMA ValidFacts ==
  ASSUME LoadTypes, StructureValid(stream), NEW start \in Nat
  PROVE  LET n == Len(stream.parts)
             total(k) == Total(stream.parts, k)
         IN  /\ stream.parts \in Seq(Bytes) /\ Len(stream.ids) = n /\ n \in Nat
             /\ \A k \in 1..(n + 1) : stream.bounds[k] = total(k - 1)
             /\ Last(stream.bounds) = total(n)
             /\ FirstPart(start) \in 0..n
             /\ total(FirstPart(start)) <= start
             /\ start < total(n) => FirstPart(start) < n /\ start < total(FirstPart(start) + 1)
<1> DEFINE n == Len(stream.parts)
           total(k) == Total(stream.parts, k)
           bounds == stream.bounds
           ahead == UpperBound(bounds, start)
<1>1. stream.parts \in Seq(Bytes) /\ bounds \in Seq(Nat) /\ n \in Nat
  BY DEF LoadTypes, Stream
<1>2. /\ Len(stream.ids) = n /\ Len(bounds) = n + 1
      /\ \A k \in 1..(n + 1) : bounds[k] = total(k - 1)
  BY DEF StructureValid
<1>3. /\ \A k \in 0..n : total(k) \in Nat
      /\ \A j, k \in 0..n : j <= k => total(j) <= total(k)
  BY <1>1, TotalFacts
<1>4. total(0) = 0
  BY TotalNext
<1> HIDE DEF n, total, bounds, ahead
<1>5. \A i, j \in 1..(n + 1) : i <= j => bounds[i] <= bounds[j]
  <2> SUFFICES ASSUME NEW i \in 1..(n + 1), NEW j \in 1..(n + 1), i <= j
               PROVE  bounds[i] <= bounds[j]
    OBVIOUS
  <2>1. i - 1 \in 0..n /\ j - 1 \in 0..n /\ i - 1 <= j - 1
    BY <1>1
  <2> QED
    BY <1>2, <1>3, <2>1
<1>6. /\ ahead \in 0..(n + 1)
      /\ \A i \in 1..(n + 1) : bounds[i] <= start <=> i <= ahead
  BY <1>1, <1>2, <1>5, UpperBoundIs DEF ahead
<1>7. ahead \in 1..(n + 1) /\ bounds[ahead] <= start
  <2>1. 1 \in 1..(n + 1) /\ 1 - 1 = 0
    BY <1>1
  <2>2. bounds[1] = 0
    BY <1>2, <1>4, <2>1
  <2>3. 1 <= ahead
    BY <1>6, <2>1, <2>2
  <2> QED
    BY <1>1, <1>6, <2>3
<1>8. FirstPart(start) = ahead - 1
  BY <1>7 DEF FirstPart, SaturatingSub, ahead, bounds
<1>9. FirstPart(start) \in 0..n /\ total(FirstPart(start)) <= start
  BY <1>1, <1>2, <1>7, <1>8
<1>10. ASSUME start < total(n) PROVE FirstPart(start) < n /\ start < total(FirstPart(start) + 1)
  <2>1. n + 1 \in 1..(n + 1) /\ (n + 1) - 1 = n
    BY <1>1
  <2>2. ~(bounds[n + 1] <= start)
    BY <1>2, <1>3, <1>10, <2>1
  <2>3. ahead < n + 1
    BY <1>1, <1>6, <2>1, <2>2
  <2>4. ahead + 1 \in 1..(n + 1) /\ (ahead + 1) - 1 = ahead /\ ahead \in 0..n
    BY <1>1, <1>7, <2>3
  <2>5. ~(bounds[ahead + 1] <= start)
    BY <1>6, <2>4
  <2>6. start < total(ahead)
    BY <1>2, <1>3, <2>4, <2>5
  <2>7. ahead - 1 < n /\ (ahead - 1) + 1 = ahead
    BY <1>1, <1>7, <2>3
  <2>8. FirstPart(start) < n /\ FirstPart(start) + 1 = ahead
    BY <1>8, <2>7
  <2> QED
    BY <2>6, <2>8, Zenon
<1>11. Last(bounds) = total(n)
  <2>1. n + 1 \in 1..(n + 1) /\ (n + 1) - 1 = n
    BY <1>1
  <2> QED
    BY <1>1, <1>2, <2>1 DEF Last
<1> QED
  BY <1>1, <1>2, <1>9, <1>10, <1>11 DEF n, total, bounds

\* The smaller of two numbers.
LEMMA MinOfTwo ==
  ASSUME NEW a \in Nat, NEW b \in Nat
  PROVE  Min({a, b}) = IF a <= b THEN a ELSE b
<1>1. Min({a, b}) \in {a, b} /\ \A x \in {a, b} : Min({a, b}) <= x
  BY MinFacts
<1> QED
  BY <1>1

\* A range is refused if it lies outside, and otherwise copied from the part
\* it starts in; that part starts at or before it.
LEMMA RequestStep ==
  ASSUME LoadInv, RequestRange
  PROVE  LoadInv'
<1> USE DEF LoadInv, Fail, loading
<1>1. phase = "loaded" /\ error = "none" /\ bytes = <<>>
  BY DEF AnswerInv, LoadingInv, RequestRange
<1>2. UNCHANGED <<run, vocab, file_no, pos, stream, bytes>>
  BY DEF RequestRange
<1>3. PICK start \in 0..MaxOffset, end \in 0..MaxOffset :
        /\ range' = <<start, end>>
        /\ \/ ~StructureValid(stream) /\ phase' = "failed" /\ error' = "structure" /\ UNCHANGED index
           \/ /\ StructureValid(stream) /\ (start > end \/ end > Last(stream.bounds))
              /\ phase' = "failed" /\ error' = "outside" /\ UNCHANGED index
           \/ /\ StructureValid(stream) /\ start = end /\ end <= Last(stream.bounds)
              /\ phase' = "done" /\ UNCHANGED <<index, error>>
           \/ /\ StructureValid(stream)
              /\ ~(start > end \/ end > Last(stream.bounds))
              /\ ~(start = end /\ end <= Last(stream.bounds))
              /\ phase' = "copy" /\ index' = FirstPart(start) + 1 /\ UNCHANGED error
  BY DEF RequestRange
<1>4. start \in Nat /\ end \in Nat /\ range'[1] = start /\ range'[2] = end
  BY <1>3, InputsAssumption
<1> DEFINE n == Len(stream.parts)
           total(k) == Total(stream.parts, k)
           raw == FlattenSeq(stream.parts)
<1>5. ASSUME StructureValid(stream)
      PROVE  /\ stream.parts \in Seq(Bytes) /\ Len(stream.ids) = n /\ n \in Nat
             /\ Last(stream.bounds) = total(n)
             /\ FirstPart(start) \in 0..n /\ total(FirstPart(start)) <= start
             /\ start < total(n) => FirstPart(start) < n /\ start < total(FirstPart(start) + 1)
             /\ raw \in Bytes /\ Len(raw) = total(n) /\ total(n) \in Nat
             /\ \A k \in 0..n : total(k) \in Nat
  <2>1. /\ stream.parts \in Seq(Bytes) /\ Len(stream.ids) = n /\ n \in Nat
        /\ Last(stream.bounds) = total(n)
        /\ FirstPart(start) \in 0..n /\ total(FirstPart(start)) <= start
        /\ start < total(n) => FirstPart(start) < n /\ start < total(FirstPart(start) + 1)
    BY <1>4, <1>5, ValidFacts
  <2>2. raw \in Bytes /\ Len(raw) = total(n)
    BY <2>1, TotalIsLength
  <2>3. \A k \in 0..n : total(k) \in Nat
    BY <2>1, TotalFacts
  <2> QED
    BY <2>1, <2>2, <2>3
<1>6. index' \in Nat \ {0}
  <2>1. index \in Nat \ {0}
    BY DEF LoadTypes
  <2>2. StructureValid(stream) => FirstPart(start) + 1 \in Nat \ {0}
    BY <1>5
  <2> QED
    BY <1>3, <2>1, <2>2
<1>7. LoadTypes'
  <2>1. range' \in Nat \X Nat
    BY <1>3, <1>4
  <2> QED
    BY <1>2, <1>6, <2>1 DEF LoadTypes
<1>8. (FileIsOpen /\ LoadingInv)'
  BY <1>3 DEF FileIsOpen, LoadingInv
<1>9. AnswerInv'
  <2>1. CASE ~StructureValid(stream) /\ phase' = "failed" /\ error' = "structure"
    <3>1. run = NoRun
      <4> SUFFICES ASSUME run # NoRun PROVE StructureValid(stream)
        BY <2>1
      <4>1. Len(stream.ids) = Len(stream.parts) /\ stream = MakeLoadedStream(stream.ids, stream.parts)
        BY <1>1 DEF LoadingInv
      <4>2. stream.ids \in Seq(Nat) /\ stream.parts \in Seq(Bytes)
        BY DEF LoadTypes, Stream
      <4> QED
        BY <4>1, <4>2, MadeIsValid
    <3> QED
      BY <1>2, <2>1, <3>1 DEF AnswerInv, RangeExact
  <2>2. CASE /\ StructureValid(stream) /\ (start > end \/ end > Last(stream.bounds))
             /\ phase' = "failed" /\ error' = "outside"
    <3>1. start > end \/ end > Len(raw)
      BY <1>5, <2>2
    <3> QED
      BY <1>2, <1>4, <2>2, <3>1 DEF AnswerInv, RangeExact
  <2>3. CASE /\ StructureValid(stream) /\ start = end /\ phase' = "done" /\ UNCHANGED error
    <3>1. raw \in Bytes /\ Len(stream.ids) = n
      BY <1>5, <2>3
    <3> HIDE DEF raw
    <3>2. Slice(raw, start, end) = <<>>
      BY <1>4, <2>3, <3>1, EmptySlice
    <3>3. bytes' = Slice(raw, range'[1], range'[2]) /\ Len(bytes') = range'[2] - range'[1]
      BY <1>1, <1>2, <1>4, <2>3, <3>2
    <3> QED
      BY <1>1, <1>2, <2>3, <3>1, <3>3 DEF AnswerInv, RangeExact, raw
  <2>4. CASE phase' = "copy" /\ UNCHANGED error
    BY <1>1, <2>4 DEF AnswerInv, RangeExact
  <2> QED
    BY <1>3, <2>1, <2>2, <2>3, <2>4
<1>10. CopyInv'
  <2> SUFFICES ASSUME phase' = "copy" PROVE CopyInv'
    BY DEF CopyInv
  <2>1. /\ StructureValid(stream) /\ start <= end /\ end <= Last(stream.bounds) /\ start # end
        /\ index' = FirstPart(start) + 1
    <3>1. /\ StructureValid(stream) /\ ~(start > end \/ end > Last(stream.bounds))
          /\ ~(start = end /\ end <= Last(stream.bounds)) /\ index' = FirstPart(start) + 1
      BY <1>3
    <3>2. Last(stream.bounds) \in Nat
      BY <1>5, <3>1
    <3> QED
      BY <1>4, <3>1, <3>2
  <2> DEFINE first == FirstPart(start)
  <2>2. /\ first \in 0..n /\ total(first) <= start /\ first < n /\ start < total(first + 1)
        /\ start < end /\ end <= total(n) /\ n \in Nat /\ raw \in Bytes /\ total(first) \in Nat
    <3>1. start < end /\ end <= total(n) /\ total(n) \in Nat
      BY <1>4, <1>5, <2>1
    <3>2. start < total(n)
      BY <1>4, <3>1
    <3> QED
      BY <1>5, <2>1, <3>1, <3>2
  <2> HIDE DEF first
  <2>3. index' = first + 1 /\ index' - 1 = first
    BY <2>1, <2>2 DEF first
  <2> HIDE DEF n, raw, total
  <2>4. Slice(raw, start, Min({end, total(first)})) = <<>>
    <3>1. Min({end, total(first)}) = total(first)
      BY <1>4, <2>2, MinOfTwo
    <3> QED
      BY <1>4, <2>2, <3>1, EmptySlice
  <2>5. index' <= n /\ range'[1] < total(index') /\ index' <= n + 1
    BY <1>4, <2>2, <2>3
  <2>6. bytes' = Slice(raw, range'[1], Min({range'[2], total(index' - 1)}))
    BY <1>1, <1>2, <1>4, <2>3, <2>4
  <2> QED
    BY <1>2, <1>4, <2>1, <2>2, <2>5, <2>6 DEF CopyInv, StructureValid, n, raw, total
<1> QED
  BY <1>7, <1>8, <1>9, <1>10

\* Copying what a part shares with the range continues the slice.
LEMMA CopyStep ==
  ASSUME LoadInv, CopyPart
  PROVE  LoadInv'
<1> USE DEF LoadInv, loading
<1> DEFINE n == Len(stream.parts)
           total(k) == Total(stream.parts, k)
           raw == FlattenSeq(stream.parts)
           from == range[1]
           to == range[2]
           k == index - 1
<1>1. /\ phase = "copy" /\ phase' = "copy" /\ index' = index + 1 /\ error' = error /\ error = "none"
      /\ UNCHANGED <<run, vocab, file_no, pos, stream, range>>
      /\ index <= n /\ stream.bounds[index] < to
  BY DEF CopyPart, Remaining, AnswerInv
<1>2. /\ StructureValid(stream) /\ from < to /\ to <= total(n)
      /\ total(k) <= from => from < total(index)
      /\ bytes = Slice(raw, from, Min({to, total(k)}))
  BY <1>1 DEF CopyInv
<1>3. from \in Nat /\ to \in Nat /\ index \in Nat /\ k \in Nat /\ k + 1 = index
  BY DEF LoadTypes
<1>4. /\ stream.parts \in Seq(Bytes) /\ n \in Nat /\ raw \in Bytes /\ Len(raw) = total(n)
      /\ k \in 0..n /\ index \in 0..n /\ index \in 1..n
      /\ total(k) \in Nat /\ total(index) \in Nat /\ total(n) \in Nat
      /\ total(k) <= total(index) /\ total(index) <= total(n)
      /\ stream.parts[index] \in Bytes
      /\ stream.bounds[index] = total(k) /\ stream.bounds[index + 1] = total(index)
  <2>1. stream.parts \in Seq(Bytes)
    BY DEF LoadTypes, Stream
  <2>2. n \in Nat
    BY <2>1
  <2>3. k \in 0..n /\ index \in 0..n /\ index \in 1..n /\ n \in 0..n /\ index <= n
        /\ index \in 1..(n + 1) /\ index + 1 \in 1..(n + 1) /\ (index + 1) - 1 = index
    BY <1>1, <1>3, <2>2
  <2>4. raw \in Bytes /\ Len(raw) = total(n)
    BY <2>1, TotalIsLength
  <2>5. /\ \A i \in 0..n : total(i) \in Nat
        /\ \A i \in 1..n : total(i) = total(i - 1) + Len(stream.parts[i])
        /\ \A i, j \in 0..n : i <= j => total(i) <= total(j)
    BY <2>1, TotalFacts
  <2>6. Len(stream.bounds) = n + 1 /\ \A i \in 1..Len(stream.bounds) : stream.bounds[i] = total(i - 1)
    BY <1>2 DEF StructureValid
  <2>7. stream.parts[index] \in Bytes
    BY <2>1, <2>3
  <2> HIDE DEF n, total, raw
  <2>8. stream.bounds[index] = total(k) /\ stream.bounds[index + 1] = total(index)
    BY <2>3, <2>6
  <2> QED
    BY <2>1, <2>2, <2>3, <2>4, <2>5, <2>7, <2>8
<1>5. Slice(raw, total(k), total(index)) = stream.parts[index]
  BY <1>4, PartIsSlice
<1> DEFINE cs == SaturatingSub(from, total(k))
           ce == Min({to, total(index)}) - total(k)
           end == Min({to, total(index)})
<1>6. bytes' = bytes \o Slice(stream.parts[index], cs, ce)
  BY <1>4 DEF CopyPart
<1> HIDE DEF n, total, raw, from, to, k
<1>7. /\ end = IF to <= total(index) THEN to ELSE total(index)
      /\ total(k) < to /\ Min({to, total(k)}) = total(k)
  <2>1. total(k) < to
    BY <1>1, <1>4
  <2>2. \A a, b \in Nat : Min({a, b}) = IF a <= b THEN a ELSE b
    BY MinOfTwo
  <2>3. end = IF to <= total(index) THEN to ELSE total(index)
    BY <1>3, <1>4, <2>2
  <2>4. Min({to, total(k)}) = IF to <= total(k) THEN to ELSE total(k)
    BY <1>3, <1>4, <2>2
  <2> QED
    BY <1>3, <1>4, <2>1, <2>3, <2>4
<1>8. end \in Nat /\ total(k) <= end /\ end <= total(index) /\ from < total(index) /\ end <= Len(raw)
      /\ from < end /\ from <= end
  <2>1. from < total(index)
    BY <1>2, <1>3, <1>4
  <2> HIDE DEF end
  <2> QED
    BY <1>2, <1>3, <1>4, <1>7, <2>1
<1>9. Slice(stream.parts[index], cs, ce) = Slice(raw, total(k) + cs, end)
  <2>1. \A s \in Bytes : \A a, b, c, d \in Nat :
          a <= b /\ b <= Len(s) /\ c <= d /\ d <= b - a =>
            Slice(Slice(s, a, b), c, d) = Slice(s, a + c, a + d)
    BY SliceOfSlice
  <2> HIDE DEF end
  <2>2. ce = end - total(k)
    BY DEF end
  <2>3. cs \in Nat /\ ce \in Nat /\ cs <= ce /\ ce <= total(index) - total(k) /\ total(k) + ce = end
        /\ total(k) <= total(index) /\ total(index) <= Len(raw)
    <3>1. cs \in Nat /\ cs <= end - total(k)
      BY <1>3, <1>4, <1>7, <1>8 DEF SaturatingSub
    <3> HIDE DEF cs, ce
    <3> QED
      BY <1>4, <1>8, <2>2, <3>1
  <2> HIDE DEF cs, ce
  <2> QED
    BY <1>4, <1>5, <2>1, <2>3, SMTT(40)
<1>10. bytes' = Slice(raw, from, end)
  <2> HIDE DEF end, ce
  <2>1. CASE total(k) <= from
    <3>1. bytes = <<>>
      BY <1>2, <1>3, <1>4, <1>7, <2>1, EmptySlice
    <3>2. total(k) + cs = from
      BY <1>3, <1>4, <2>1 DEF SaturatingSub
    <3>3. Slice(raw, from, end) \in Bytes
      BY <1>3, <1>4, <1>8, SliceWithin
    <3>4. bytes' = <<>> \o Slice(raw, from, end)
      BY <1>6, <1>9, <3>1, <3>2
    <3> QED
      BY <3>3, <3>4, JoinFacts
  <2>2. CASE ~(total(k) <= from)
    <3>1. total(k) + cs = total(k) /\ from <= total(k)
      BY <1>3, <1>4, <2>2 DEF SaturatingSub
    <3>2. bytes' = Slice(raw, from, total(k)) \o Slice(raw, total(k), end)
      BY <1>2, <1>6, <1>7, <1>9, <3>1
    <3>3. Slice(raw, from, total(k)) \o Slice(raw, total(k), end) = Slice(raw, from, end)
      <4> DEFINE middle == total(k)
      <4>1. /\ middle \in Nat /\ from \in Nat /\ end \in Nat /\ raw \in Bytes
            /\ from <= middle /\ middle <= end /\ end <= Len(raw)
        BY <1>3, <1>4, <1>8, <3>1
      <4> HIDE DEF middle
      <4>2. Slice(raw, from, middle) \o Slice(raw, middle, end) = Slice(raw, from, end)
        BY <4>1, SlicesMeet, ZenonT(120)
      <4> QED
        BY <4>2 DEF middle
    <3> QED
      BY <3>2, <3>3
  <2> QED
    BY <2>1, <2>2
<1>11. LoadTypes'
  <2> HIDE DEF end
  <2>1. bytes' \in Bytes
    BY <1>3, <1>4, <1>8, <1>10, SliceWithin
  <2> QED
    BY <1>1, <1>3, <2>1 DEF LoadTypes
<1>12. CopyInv'
  <2>1. index' <= n + 1 /\ index' - 1 = index
    BY <1>1, <1>3, <1>4
  <2>2. ~(total(index) <= from)
    BY <1>3, <1>4, <1>8
  <2>3. bytes' = Slice(raw, range'[1], Min({range'[2], total(index' - 1)}))
    BY <1>1, <1>10, <2>1 DEF from, to
  <2> QED
    BY <1>1, <1>2, <2>1, <2>2, <2>3 DEF CopyInv, StructureValid, n, total, raw, from, to
<1>13. (FileIsOpen /\ LoadingInv /\ AnswerInv)'
  BY <1>1 DEF FileIsOpen, LoadingInv, AnswerInv, RangeExact
<1> QED
  BY <1>11, <1>12, <1>13

\* When nothing of the range remains, all of it was copied.
LEMMA FinishStep ==
  ASSUME LoadInv, FinishRange
  PROVE  LoadInv'
<1> USE DEF LoadInv, Fail, loading, reading
<1> DEFINE n == Len(stream.parts)
           total(k) == Total(stream.parts, k)
           raw == FlattenSeq(stream.parts)
           from == range[1]
           to == range[2]
<1>1. /\ phase = "copy" /\ error = "none" /\ ~Remaining
      /\ UNCHANGED <<run, vocab, file_no, pos, stream, range, index, bytes>>
      /\ IF Len(bytes) # to - from THEN phase' = "failed" /\ error' = "short"
         ELSE phase' = "done" /\ error' = "none"
  BY DEF FinishRange, AnswerInv
<1>2. /\ StructureValid(stream) /\ from < to /\ to <= total(n) /\ index <= n + 1
      /\ bytes = Slice(raw, from, Min({to, total(index - 1)}))
  BY <1>1 DEF CopyInv
<1>3. from \in Nat /\ to \in Nat /\ index \in Nat /\ index >= 1 /\ stream.parts \in Seq(Bytes) /\ n \in Nat
  BY DEF LoadTypes, Stream
<1>4. raw \in Bytes /\ Len(raw) = total(n)
  BY <1>3, TotalIsLength
<1>5. \A k \in 0..n : total(k) \in Nat
  BY <1>3, TotalFacts
<1>6. /\ Len(stream.ids) = n /\ Len(stream.bounds) = n + 1
      /\ \A k \in 1..(n + 1) : stream.bounds[k] = total(k - 1)
  BY <1>2 DEF StructureValid
<1>7. ~(index <= n /\ stream.bounds[index] < to)
  BY <1>1 DEF Remaining
<1> HIDE DEF n, total, raw, from, to
<1>8. index \in 1..(n + 1) /\ index - 1 \in 0..n
  BY <1>2, <1>3
<1>9. to <= total(index - 1) /\ total(index - 1) \in Nat
  <2>1. CASE index <= n
    BY <1>3, <1>5, <1>6, <1>7, <1>8, <2>1, SMTT(40)
  <2>2. CASE ~(index <= n)
    <3>1. index - 1 = n
      BY <1>3, <1>8, <2>2
    <3> QED
      BY <1>2, <1>5, <1>8, <3>1
  <2> QED
    BY <2>1, <2>2
<1>10. bytes = Slice(raw, from, to)
  <2>1. Min({to, total(index - 1)}) = to
    BY <1>3, <1>9, MinOfTwo
  <2> QED
    BY <1>2, <2>1
<1>11. Len(bytes) = to - from
  <2>1. to <= Len(raw) /\ from <= to
    BY <1>2, <1>3, <1>4
  <2> QED
    BY <1>2, <1>3, <1>4, <1>10, <2>1, SliceWithin
<1>12. phase' = "done" /\ error' = "none"
  BY <1>1, <1>11
<1>13. LoadTypes'
  BY <1>1 DEF LoadTypes
<1>14. (FileIsOpen /\ LoadingInv /\ CopyInv)'
  BY <1>12 DEF FileIsOpen, LoadingInv, CopyInv
<1>15. AnswerInv'
  BY <1>1, <1>6, <1>10, <1>11, <1>12 DEF AnswerInv, RangeExact, n, raw, from, to
<1> QED
  BY <1>13, <1>14, <1>15

LEMMA LoadInvariant == LoadSpec => []LoadInv
<1>1. LoadInit => LoadInv
  BY InitLoad
<1>2. LoadInv /\ [LoadNext \/ LoadTerminated]_loadVars => LoadInv'
  <2> SUFFICES ASSUME LoadInv, [LoadNext \/ LoadTerminated]_loadVars PROVE LoadInv'
    OBVIOUS
  <2>1. CASE DecodeEntry \/ DictLoaded \/ LoadModel \/ ReadFails
    BY <2>1, VocabStep
  <2>2. CASE OpenFile \/ EndFile
    BY <2>2, FileStep
  <2>3. CASE NextId
    BY <2>3, IdStep
  <2>4. CASE RequestRange
    BY <2>4, RequestStep
  <2>5. CASE CopyPart
    BY <2>5, CopyStep
  <2>6. CASE FinishRange
    BY <2>6, FinishStep
  <2>7. CASE UNCHANGED loadVars
    BY <2>7 DEF LoadInv, LoadTypes, FileIsOpen, LoadingInv, CopyInv, AnswerInv, RangeExact, loadVars,
                loading, reading, LocalIds, Gmap, file, StructureValid
  <2> QED
    BY <2>1, <2>2, <2>3, <2>4, <2>5, <2>6, <2>7 DEF LoadNext, LoadTerminated
<1> QED
  BY <1>1, <1>2, PTL DEF LoadSpec

\* Every range of a loaded stream that is answered is the exact slice of its
\* bytes; the length check never fires, a stream that was loaded is never
\* turned down, and only ranges beyond it are refused (reconstruct_range).
THEOREM RangesAreExact == LoadSpec => []RangeExact
<1>1. LoadInv => RangeExact
  BY DEF LoadInv, AnswerInv
<1> QED
  BY <1>1, LoadInvariant, PTL

\* The tokens of a loaded stream as spans of its bytes.
LEMMA LoadedSpans ==
  ASSUME NEW s \in Stream, s = MakeLoadedStream(s.ids, s.parts), Len(s.ids) = Len(s.parts)
  PROVE  LET raw    == FlattenSeq(s.parts)
             tokens == FromLoadedStream(s)
         IN  /\ Partition(tokens, Len(raw)) <=> \A k \in 1..Len(s.parts) : s.parts[k] # <<>>
             /\ \A k \in 1..Len(tokens) :
                  tokens[k].bytes = Slice(raw, tokens[k].byte_start, tokens[k].byte_end)
<1> DEFINE n == Len(s.parts)
           total(k) == Total(s.parts, k)
           raw == FlattenSeq(s.parts)
           tokens == FromLoadedStream(s)
<1>1. s.ids \in Seq(Nat) /\ s.parts \in Seq(Bytes) /\ n \in Nat
  BY DEF Stream
<1>2. s.bounds = [k \in 1..(n + 1) |-> total(k - 1)]
  <2>1. MakeLoadedStream(s.ids, s.parts).bounds = [k \in 1..(n + 1) |-> total(k - 1)]
    BY DEF MakeLoadedStream
  <2> QED
    BY <2>1
<1>3. tokens = [k \in 1..n |-> [byte_start |-> s.bounds[k], byte_end |-> s.bounds[k + 1],
                               bytes |-> s.parts[k]]]
  BY DEF FromLoadedStream
<1>4. raw \in Bytes /\ Len(raw) = total(n)
  BY <1>1, TotalIsLength
<1>5. /\ \A k \in 0..n : total(k) \in Nat
      /\ \A k \in 1..n : total(k) = total(k - 1) + Len(s.parts[k]) /\ Len(s.parts[k]) \in Nat
      /\ \A j, k \in 0..n : j <= k => total(j) <= total(k)
  BY <1>1, TotalFacts
<1>6. \A k \in 1..n : Slice(raw, total(k - 1), total(k)) = s.parts[k]
  BY <1>1, PartIsSlice
<1>7. total(0) = 0
  BY TotalNext
<1>8. \A k \in 1..n : Len(s.parts[k]) = 0 <=> s.parts[k] = <<>>
  <2>1. \A k \in 1..n : s.parts[k] \in Seq(Nat)
    BY <1>1 DEF Bytes
  <2> QED
    BY <2>1
<1> HIDE DEF tokens, raw, total, n
<1>9. Len(tokens) = n /\ DOMAIN tokens = 1..n
  BY <1>1, <1>3
<1>10. ASSUME NEW k \in 1..n
       PROVE  /\ tokens[k].byte_start = total(k - 1) /\ tokens[k].byte_end = total(k)
              /\ tokens[k].bytes = s.parts[k] /\ k - 1 \in 0..n /\ k \in 0..n
  <2>1. k \in 1..(n + 1) /\ k + 1 \in 1..(n + 1) /\ (k + 1) - 1 = k /\ k - 1 \in 0..n /\ k \in 0..n
    BY <1>1
  <2>2. s.bounds[k] = total(k - 1) /\ s.bounds[k + 1] = total(k)
    BY <1>2, <2>1
  <2> QED
    BY <1>3, <2>1, <2>2
<1>11. NonEmptySpans(tokens) <=> \A k \in 1..n : s.parts[k] # <<>>
  <2>1. \A k \in 1..n : total(k - 1) < total(k) <=> s.parts[k] # <<>>
    BY <1>5, <1>8, <1>10, SMTT(40)
  <2>2. \A k \in 1..n : tokens[k].byte_start < tokens[k].byte_end <=> s.parts[k] # <<>>
    BY <1>10, <2>1
  <2> QED
    BY <1>9, <2>2 DEF NonEmptySpans
<1>12. Contiguous(tokens)
  <2> SUFFICES ASSUME NEW i \in 1..n, i > 1 PROVE tokens[i].byte_start = tokens[i - 1].byte_end
    BY <1>9 DEF Contiguous
  <2>1. i - 1 \in 1..n
    BY <1>1
  <2> QED
    BY <1>10, <2>1
<1>13. Ordered(tokens)
  <2> SUFFICES ASSUME NEW i \in 1..n, NEW j \in 1..n, i < j
               PROVE  tokens[i].byte_end <= tokens[j].byte_start
    BY <1>9 DEF Ordered
  <2>1. i <= j - 1 /\ i \in 0..n /\ j - 1 \in 0..n
    BY <1>1
  <2> QED
    BY <1>5, <1>10, <2>1
<1>14. Reaches(tokens, Len(raw))
  <2>1. CASE n = 0
    BY <1>4, <1>7, <1>9, <2>1 DEF Reaches
  <2>2. CASE n # 0
    <3>1. 1 \in 1..n /\ n \in 1..n /\ 1 - 1 = 0
      BY <1>1, <2>2
    <3> QED
      BY <1>4, <1>7, <1>9, <1>10, <2>2, <3>1 DEF Reaches
  <2> QED
    BY <2>1, <2>2
<1>15. \A k \in 1..n : tokens[k].bytes = Slice(raw, tokens[k].byte_start, tokens[k].byte_end)
  BY <1>6, <1>10
<1> QED
  BY <1>9, <1>11, <1>12, <1>13, <1>14, <1>15 DEF Partition, tokens, raw, n

\* A loaded stream becomes a TokenizerStream that validation accepts exactly if
\* no lexeme in it is empty (TokenizerStream::from_loaded_stream).
THEOREM LoadedStreamBridges == LoadSpec => []BridgesUnlessEmpty
<1>1. LoadInv => BridgesUnlessEmpty
  <2> SUFFICES ASSUME LoadInv, phase = "loaded", run # NoRun PROVE BridgesUnlessEmpty
    BY DEF BridgesUnlessEmpty
  <2> DEFINE raw == FlattenSeq(stream.parts)
             bridge == [raw_len |-> Len(raw), raw_sha256 |-> Sha256(raw),
                        tokens |-> FromLoadedStream(stream)]
             full == \A k \in 1..Len(stream.parts) : stream.parts[k] # <<>>
  <2>1. /\ stream \in Stream /\ Len(stream.ids) = Len(stream.parts)
        /\ stream = MakeLoadedStream(stream.ids, stream.parts)
    BY DEF LoadInv, LoadTypes, LoadingInv
  <2>2. StructureValid(stream)
    <3>1. stream.ids \in Seq(Nat) /\ stream.parts \in Seq(Bytes)
      BY <2>1 DEF Stream
    <3> QED
      BY <2>1, <3>1, MadeIsValid
  <2>3. /\ Partition(bridge.tokens, Len(raw)) <=> full
        /\ \A k \in 1..Len(bridge.tokens) :
             bridge.tokens[k].bytes = Slice(raw, bridge.tokens[k].byte_start, bridge.tokens[k].byte_end)
    BY <2>1, LoadedSpans
  <2>4. WellFormed(bridge, raw) <=> full
    BY <2>3 DEF WellFormed
  <2>5. WellFormed(bridge, raw) \in BOOLEAN
    BY DEF WellFormed
  <2> QED
    BY <2>2, <2>4, <2>5 DEF BridgesUnlessEmpty
<1> QED
  BY <1>1, LoadInvariant, PTL
-----------------------------------------------------------------------------
\* Each word of a file is what is written for the number it is read as.
LEMMA ReadWord ==
  ASSUME NEW content \in Seq(Octet), NEW width \in {2, 3, 4},
         NEW words \in Words(content, width), NEW k \in 1..Len(words)
  PROVE  /\ Slice(content, width * (k - 1), width * k) = Word(words[k], width)
         /\ words[k] \in Nat /\ k <= Len(content)
<1> DEFINE from == width * (k - 1)
           to == width * k
           piece == Slice(content, from, to)
<1>1. content \in Bytes /\ Len(content) \in Nat
  BY OctetsAreBytes
<1>2. /\ Words(content, width) \subseteq Seq(Nat)
      /\ Len(words) = Len(content) \div width
      /\ \A i \in 1..Len(words) :
           words[i] = LittleEndian(Slice(content, width * (i - 1), width * i))
  BY <1>1, WordsAreNumbers, ZenonT(120)
<1>3. words \in Seq(Nat) /\ words[k] \in Nat /\ words[k] = LittleEndian(piece)
  BY <1>2, SMTT(40)
<1>4. /\ from \in Nat /\ to \in Nat /\ to = from + width /\ to <= Len(content) /\ k <= Len(content)
      /\ from + 1 <= to
  <2>1. k \in Nat /\ k >= 1 /\ k <= Len(content) \div width
    BY <1>2, <1>3
  <2>2. CASE width = 2
    BY <1>1, <2>1, <2>2
  <2>3. CASE width = 3
    BY <1>1, <2>1, <2>3
  <2>4. CASE width = 4
    BY <1>1, <2>1, <2>4
  <2> QED
    BY <2>2, <2>3, <2>4
<1> HIDE DEF from, to
<1>5. piece \in Seq(Octet) /\ Len(piece) = width
  <2> DEFINE m == from + 1
  <2>1. m \in Int /\ to \in Int /\ m <= to /\ to - m + 1 = width
    BY <1>4
  <2>2. \A i \in m..to : content[i] \in Octet
    BY <1>1, <1>4
  <2> HIDE DEF m
  <2>3. /\ SubSeq(content, m, to) \in Seq(Octet)
        /\ Len(SubSeq(content, m, to)) = IF m <= to THEN to - m + 1 ELSE 0
    BY <2>1, <2>2, SubSeqProperties, ZenonT(120)
  <2>4. piece = SubSeq(content, m, to)
    BY DEF Slice, m
  <2> QED
    BY <2>1, <2>3, <2>4
<1> HIDE DEF piece
<1>6. Word(LittleEndian(piece), width) = piece
  BY <1>5, WordReadsBack, ZenonT(120)
<1> QED
  BY <1>3, <1>4, <1>6 DEF piece, from, to

\* The words of a run, file by file.
WordLists(r) ==
  [f \in 1..Len(r.files) |->
     [i \in 1..(Len(r.files[f].local) \div WordSize(r)) |-> <<r.files[f], i>>]]

LEMMA ListFacts ==
  ASSUME NEW r \in Run
  PROVE  /\ WordLists(r) \in Seq(Seq(File \X Nat)) /\ Len(WordLists(r)) = Len(r.files)
         /\ Len(r.files) \in Nat
         /\ \A f \in 1..Len(r.files) :
              /\ r.files[f] \in File
              /\ Len(WordLists(r)[f]) = Len(r.files[f].local) \div WordSize(r)
              /\ Len(r.files[f].local) \div WordSize(r) \in Nat
              /\ \A i \in 1..(Len(r.files[f].local) \div WordSize(r)) :
                   WordLists(r)[f][i] = <<r.files[f], i>>
         /\ AllWords(r) = FlattenSeq(WordLists(r))
         /\ AllWords(r) \in Seq(File \X Nat) /\ Len(AllWords(r)) = Total(WordLists(r), Len(r.files))
         /\ Len(AllWords(r)) \in Nat
         /\ \A f \in 0..Len(r.files) : Total(WordLists(r), f) \in Nat
         /\ \A f \in 1..Len(r.files) :
              Total(WordLists(r), f) = Total(WordLists(r), f - 1) + Len(WordLists(r)[f])
<1> DEFINE all_files == r.files
           n(f) == Len(all_files[f].local) \div WordSize(r)
           list(f) == [i \in 1..n(f) |-> <<all_files[f], i>>]
<1>1. all_files \in Seq(File) /\ Len(all_files) \in Nat
  BY DEF Run
<1>2. WordSize(r) \in {2, 4}
  BY DEF WordSize
<1>3. ASSUME NEW f \in 1..Len(all_files)
      PROVE  /\ all_files[f] \in File /\ n(f) \in Nat
             /\ list(f) \in Seq(File \X Nat) /\ Len(list(f)) = n(f)
             /\ \A i \in 1..n(f) : list(f)[i] = <<all_files[f], i>>
  <2>1. all_files[f] \in File
    BY <1>1, <1>3
  <2>2. Len(all_files[f].local) \in Nat
    <3>1. all_files[f].local \in Seq(Octet)
      BY <2>1 DEF File
    <3> QED
      BY <3>1
  <2>3. n(f) \in Nat
    <3>1. WordSize(r) = 2 \/ WordSize(r) = 4
      BY <1>2
    <3>2. \A m \in Nat : m \div 2 \in Nat /\ m \div 4 \in Nat
      OBVIOUS
    <3> QED
      BY <2>2, <3>1, <3>2, Zenon
  <2> HIDE DEF n
  <2>4. \A i \in 1..n(f) : <<all_files[f], i>> \in File \X Nat
    BY <2>1, <2>3
  <2> QED
    BY <2>1, <2>3, <2>4
<1>4. WordLists(r) = [f \in 1..Len(all_files) |-> list(f)]
  BY DEF WordLists
<1> HIDE DEF all_files, n, list
<1>5. WordLists(r) \in Seq(Seq(File \X Nat)) /\ Len(WordLists(r)) = Len(all_files)
  BY <1>1, <1>3, <1>4
<1>6. \A f \in 1..Len(all_files) : WordLists(r)[f] = list(f)
  BY <1>4
<1>7. AllWords(r) = FlattenSeq(WordLists(r))
  BY DEF AllWords, WordLists
<1>8. /\ FlattenSeq(WordLists(r)) \in Seq(File \X Nat)
      /\ Len(FlattenSeq(WordLists(r))) = Total(WordLists(r), Len(WordLists(r)))
  BY <1>5, TotalOfAll, ZenonT(120)
<1>9. /\ \A f \in 0..Len(WordLists(r)) : Total(WordLists(r), f) \in Nat
      /\ \A f \in 1..Len(WordLists(r)) :
           Total(WordLists(r), f) = Total(WordLists(r), f - 1) + Len(WordLists(r)[f])
  BY <1>5, TotalsGrow, ZenonT(120)
<1>10. Len(FlattenSeq(WordLists(r))) \in Nat
  BY <1>8
<1> QED
  BY <1>10, <1>1, <1>3, <1>5, <1>6, <1>7, <1>8, <1>9 DEF all_files, n

\* A stream of the first words of a run, none too many for the limit.
FirstWords(r, v, s) ==
  LET n == Len(s.ids)
  IN  /\ Len(s.parts) = n /\ n <= Len(AllWords(r))
      /\ \A k \in 1..n : /\ Says(r, AllWords(r)[k], s.ids[k])
                         /\ s.parts[k] = v[s.ids[k] + 1]
      /\ n > 1 => Total(s.parts, n - 1) < r.max_bytes

Below(r, s) == Len(s.ids) = 0 \/ Total(s.parts, Len(s.ids)) < r.max_bytes

Complete(r, s) ==
  Len(s.ids) = Len(AllWords(r)) \/ Total(s.parts, Len(s.ids)) >= r.max_bytes

\* How many words are consumed when loading is at `step` of file number f, whose
\* next word is p of len.
Consumed(r, s, step, f, p, len) ==
  /\ step = "load_vocab" => Len(s.ids) = 0 /\ f = 1
  /\ step = "open_file" => f <= Len(r.files) + 1 /\ Len(s.ids) = Total(WordLists(r), f - 1)
  /\ step = "next_id" => p <= len + 1 /\ Len(s.ids) = Total(WordLists(r), f - 1) + (p - 1)

\* What is loaded is the words consumed so far, and the limit was not reached
\* before the last.
PrefixInv ==
  run # NoRun =>
    /\ FirstWords(run, vocab, stream)
    /\ Consumed(run, stream, phase, file_no, pos, Len(local_ids))
    /\ phase \in {"load_vocab", "open_file", "next_id"} => Below(run, stream)
    /\ phase = "loaded" => Complete(run, stream)
    /\ error \in {"outside_gmap", "outside_vocab"} => Below(run, stream)

\* An open file has as many IDs as words.
LEMMA OpenWords ==
  ASSUME LoadTypes, file_no \in 1..Len(run.files), LocalIds # {}
  PROVE  /\ file_no \in 1..Len(run.files) /\ file \in File /\ file = run.files[file_no]
         /\ local_ids \in Seq(Nat) /\ LocalIds = {local_ids} /\ local_ids \in LocalIds
         /\ LocalIds = Words(file.local, WordSize(run)) /\ WordSize(run) \in {2, 3, 4}
         /\ Len(local_ids) = Len(file.local) \div WordSize(run) /\ Len(local_ids) \in Nat
<1>1. file_no \in 1..Len(run.files) /\ file = run.files[file_no] /\ file \in File
  BY DEF LoadTypes, file, Run
<1>2. file.local \in Bytes
  <2>1. file.local \in Seq(Octet)
    BY <1>1 DEF File
  <2> QED
    BY <2>1, OctetsAreBytes
<1>3. local_ids \in Seq(Nat) /\ LocalIds = {local_ids} /\ local_ids \in LocalIds
  BY IdsAreNumbers
<1>4. LocalIds = Words(file.local, WordSize(run)) /\ WordSize(run) \in {2, 3, 4}
  BY DEF LocalIds, WordSize
<1>5. \A words \in Words(file.local, WordSize(run)) : Len(words) = Len(file.local) \div WordSize(run)
  BY <1>2, <1>4, WordsAreNumbers, ZenonT(120)
<1> QED
  BY <1>1, <1>3, <1>4, <1>5

\* The ID that is loaded for a word is the one that the word says.
LEMMA SaysWhatIsRead ==
  ASSUME LoadTypes, file_no \in 1..Len(run.files), LocalIds # {}, pos <= Len(local_ids), NEW id \in GlobalIds
  PROVE  Says(run, <<file, pos>>, id)
<1>1. /\ file \in File /\ local_ids \in Seq(Nat) /\ local_ids \in Words(file.local, WordSize(run))
      /\ WordSize(run) \in {2, 3, 4}
  BY OpenWords
<1>2. file.local \in Seq(Octet) /\ file.gmap24 \in Seq(Octet) /\ file.gmap32 \in Seq(Octet)
  BY <1>1 DEF File
<1>3. pos \in 1..Len(local_ids) /\ local_id = local_ids[pos]
  BY <1>1 DEF LoadTypes, local_id
<1>4. /\ Slice(file.local, WordSize(run) * (pos - 1), WordSize(run) * pos) = Word(local_id, WordSize(run))
      /\ local_id \in Nat
  BY <1>1, <1>2, <1>3, ReadWord
<1> DEFINE word == <<file, pos>>
<1>5. word[1] = file /\ word[2] = pos
  OBVIOUS
<1>6. CASE run.kind = "target"
  <2>1. id = local_id /\ WordSize(run) = 4
    BY <1>6 DEF GlobalIds, WordSize
  <2> QED
    BY <1>4, <1>5, <1>6, <2>1 DEF Says
<1>7. CASE run.kind # "target"
  <2>0. run.kind = "du" /\ WordSize(run) = 2
    BY <1>7 DEF LoadTypes, Run, WordSize
  <2>1. PICK gmap \in Gmap : local_id < Len(gmap) /\ id = gmap[local_id + 1]
    BY <1>7 DEF GlobalIds
  <2> DEFINE k == local_id + 1
             wide == IF 24 \in run.gmaps THEN 3 ELSE 4
             content == IF 24 \in run.gmaps THEN file.gmap24 ELSE file.gmap32
  <2>2. content \in Seq(Octet) /\ wide \in {2, 3, 4} /\ gmap \in Words(content, wide)
    BY <1>2, <2>1 DEF Gmap
  <2>3. Len(gmap) \in Nat
    <3>1. Words(content, wide) \subseteq Seq(Nat)
      BY <2>2, OctetsAreBytes, WordsAreNumbers
    <3> QED
      BY <2>2, <3>1
  <2>4. k \in 1..Len(gmap) /\ k - 1 = local_id
    BY <1>4, <2>1, <2>3
  <2> HIDE DEF k, content, wide
  <2>5. Slice(content, wide * (k - 1), wide * k) = Word(gmap[k], wide) /\ k <= Len(content)
    BY <2>2, <2>4, ReadWord
  <2>6. gmap[k] = id
    BY <2>1 DEF k
  <2>7. k \in 1..Len(file.gmap24 \o file.gmap32)
    <3> DEFINE a == file.gmap24
               b == file.gmap32
    <3>1. a \in Seq(Octet) /\ b \in Seq(Octet) /\ (content = a \/ content = b)
      BY <1>2 DEF content
    <3> HIDE DEF a, b
    <3>2. Len(a \o b) = Len(a) + Len(b) /\ Len(a) \in Nat /\ Len(b) \in Nat
      BY <3>1
    <3>3. k \in Nat /\ k >= 1 /\ k <= Len(a \o b) /\ Len(a \o b) \in Nat
      BY <2>3, <2>4, <2>5, <3>1, <3>2
    <3>4. k \in 1..Len(a \o b)
      BY <3>3
    <3> QED
      BY <3>4 DEF a, b
  <2>8. Slice(file.local, WordSize(run) * (pos - 1), WordSize(run) * pos) = Word(k - 1, 2)
    BY <1>4, <2>0, <2>4
  <2>9. IF 24 \in run.gmaps THEN Slice(file.gmap24, 3 * (k - 1), 3 * k) = Word(id, 3)
        ELSE Slice(file.gmap32, 4 * (k - 1), 4 * k) = Word(id, 4)
    BY <2>5, <2>6 DEF content, wide
  <2> QED
    BY <1>5, <1>7, <2>7, <2>8, <2>9 DEF Says
<1> QED
  BY <1>6, <1>7

LEMMA InitPrefix == LoadInit => PrefixInv
<1> SUFFICES ASSUME LoadInit, run # NoRun PROVE PrefixInv
  BY DEF PrefixInv
<1>1. run \in Run
  BY InitLoad DEF LoadInv, LoadTypes
<1>2. file_no = 1 /\ error = "none" /\ phase = "load_vocab" /\ stream = Unbuilt
  BY DEF LoadInit
<1>3. Len(stream.ids) = 0 /\ Len(stream.parts) = 0
  BY <1>2 DEF Unbuilt
<1>4. Len(AllWords(run)) \in Nat
  BY <1>1, ListFacts
<1>5. FirstWords(run, vocab, stream) /\ Below(run, stream)
  BY <1>3, <1>4 DEF FirstWords, Below
<1>6. Consumed(run, stream, phase, file_no, pos, Len(local_ids))
  BY <1>2, <1>3 DEF Consumed
<1> QED
  BY <1>2, <1>5, <1>6 DEF PrefixInv

\* Reading the vocabulary consumes no words.
LEMMA VocabPrefix ==
  ASSUME LoadInv, PrefixInv, DecodeEntry \/ DictLoaded \/ LoadModel \/ ReadFails
  PROVE  PrefixInv'
<1> USE DEF Fail, loading, reading
<1>1. /\ run' = run /\ stream' = stream /\ file_no' = file_no
      /\ phase \in {"load_vocab", "open_file"}
      /\ phase' \in {"load_vocab", "open_file", "failed"}
      /\ phase' = "load_vocab" => phase = "load_vocab"
      /\ error' = error \/ error' \in {"entry", "gmap_directory", "model", "file"}
      /\ phase = "load_vocab" \/ vocab' = vocab
  BY DEF DecodeEntry, DictLoaded, LoadModel, ReadFails
<1> SUFFICES ASSUME run # NoRun PROVE PrefixInv'
  BY <1>1 DEF PrefixInv
<1>2. /\ FirstWords(run, vocab, stream) /\ Below(run, stream)
      /\ Consumed(run, stream, phase, file_no, pos, Len(local_ids))
  BY <1>1 DEF PrefixInv
<1>3. FirstWords(run, vocab', stream)
  <2>1. CASE vocab' = vocab
    BY <1>2, <2>1
  <2>2. CASE phase = "load_vocab"
    <3>1. Len(stream.ids) = 0
      BY <1>2, <2>2 DEF Consumed
    <3> QED
      BY <1>2, <3>1 DEF FirstWords
  <2> QED
    BY <1>1, <2>1, <2>2
<1>4. Consumed(run, stream, phase', file_no, pos', Len(local_ids)')
  <2>1. Total(WordLists(run), 0) = 0
    BY TotalNext
  <2>2. Len(run.files) \in Nat
    BY ListFacts DEF LoadInv, LoadTypes
  <2>3. CASE phase = "load_vocab"
    <3>1. Len(stream.ids) = 0 /\ file_no = 1
      BY <1>2, <2>3 DEF Consumed
    <3>2. file_no - 1 = 0 /\ file_no <= Len(run.files) + 1
      BY <2>2, <3>1
    <3> QED
      BY <1>1, <2>1, <3>1, <3>2 DEF Consumed
  <2>4. CASE phase = "open_file"
    BY <1>1, <1>2, <2>4 DEF Consumed
  <2> QED
    BY <1>1, <2>3, <2>4
<1>5. error' \in {"outside_gmap", "outside_vocab"} => Below(run, stream)
  BY <1>2
<1> QED
  BY <1>1, <1>2, <1>3, <1>4, <1>5 DEF PrefixInv

\* Opening a file consumes none either; behind the last file all are consumed.
LEMMA OpenPrefix ==
  ASSUME LoadInv, PrefixInv, OpenFile
  PROVE  PrefixInv'
<1> USE DEF Fail, reading
<1>1. phase = "open_file" /\ run' = run /\ vocab' = vocab /\ file_no' = file_no
  BY DEF OpenFile
<1> SUFFICES ASSUME run # NoRun PROVE PrefixInv'
  BY <1>1 DEF PrefixInv
<1>2. /\ FirstWords(run, vocab, stream) /\ Below(run, stream)
      /\ file_no <= Len(run.files) + 1 /\ Len(stream.ids) = Total(WordLists(run), file_no - 1)
      /\ error = "none" /\ LoadTypes
  BY <1>1 DEF PrefixInv, Consumed, LoadInv, AnswerInv
<1>3. /\ Len(run.files) \in Nat /\ file_no \in Nat /\ file_no >= 1
      /\ Len(AllWords(run)) = Total(WordLists(run), Len(run.files)) /\ Len(stream.ids) \in Nat
  <2>1. run \in Run /\ stream.ids \in Seq(Nat)
    BY <1>2 DEF LoadTypes, Stream
  <2> QED
    BY <1>2, <2>1, ListFacts DEF LoadTypes
<1>4. CASE phase' = "failed" /\ error' = "words" /\ stream' = stream
  BY <1>1, <1>2, <1>4 DEF PrefixInv, Consumed
<1>5. CASE phase' = "next_id" /\ pos' = 1 /\ stream' = stream /\ error' = error
           /\ file_no <= Len(run.files) /\ LocalIds # {}
  <2>1. Len(local_ids) \in Nat /\ local_ids' = local_ids
    <3>1. file_no \in 1..Len(run.files)
      BY <1>3, <1>5
    <3>2. Len(local_ids) \in Nat
      BY <1>2, <1>5, <3>1, OpenWords
    <3> QED
      BY <1>1, <3>2 DEF local_ids, LocalIds, file
  <2>2. Consumed(run, stream, "next_id", file_no, 1, Len(local_ids))
    BY <1>2, <1>3, <2>1 DEF Consumed
  <2> QED
    BY <1>1, <1>2, <1>5, <2>1, <2>2 DEF PrefixInv
<1>6. CASE phase' = "loaded" /\ stream' = MakeLoadedStream(stream.ids, stream.parts) /\ error' = error
           /\ file_no > Len(run.files)
  <2>1. file_no - 1 = Len(run.files)
    BY <1>2, <1>3, <1>6
  <2>2. Complete(run, stream)
    BY <1>2, <1>3, <2>1 DEF Complete
  <2>3. stream'.ids = stream.ids /\ stream'.parts = stream.parts
    BY <1>6 DEF MakeLoadedStream
  <2>4. FirstWords(run, vocab, stream') /\ Complete(run, stream')
    BY <1>2, <2>2, <2>3 DEF FirstWords, Complete
  <2> QED
    BY <1>1, <1>2, <1>6, <2>4 DEF PrefixInv, Consumed
<1> QED
  BY <1>4, <1>5, <1>6 DEF OpenFile

\* At the end of a file, its words are consumed.
LEMMA EndPrefix ==
  ASSUME LoadInv, PrefixInv, EndFile
  PROVE  PrefixInv'
<1> USE DEF reading
<1>1. /\ phase = "next_id" /\ phase' = "open_file" /\ run' = run /\ vocab' = vocab /\ stream' = stream
      /\ file_no' = file_no + 1 /\ error' = error /\ pos > Len(local_ids)
  BY DEF EndFile
<1> SUFFICES ASSUME run # NoRun PROVE PrefixInv'
  BY <1>1 DEF PrefixInv
<1>2. /\ FirstWords(run, vocab, stream) /\ Below(run, stream)
      /\ pos <= Len(local_ids) + 1 /\ Len(stream.ids) = Total(WordLists(run), file_no - 1) + (pos - 1)
      /\ LoadTypes /\ file_no \in 1..Len(run.files) /\ LocalIds # {} /\ run \in Run
  BY <1>1 DEF PrefixInv, Consumed, LoadInv, FileIsOpen, LoadTypes
<1>3. Len(local_ids) \in Nat /\ Len(WordLists(run)[file_no]) = Len(local_ids)
  BY <1>2, OpenWords, ListFacts
<1>4. pos - 1 = Len(local_ids)
  BY <1>1, <1>2, <1>3 DEF LoadTypes
<1>5. Len(stream.ids) = Total(WordLists(run), file_no)
  BY <1>2, <1>3, <1>4, ListFacts
<1>6. file_no + 1 <= Len(run.files) + 1 /\ (file_no + 1) - 1 = file_no
  BY <1>2, ListFacts
<1>7. Consumed(run, stream, "open_file", file_no + 1, pos', Len(local_ids)')
  BY <1>5, <1>6 DEF Consumed
<1> QED
  BY <1>1, <1>2, <1>7 DEF PrefixInv

\* Stream t is s with the next word's token.
AddsWord(r, v, s, t, id) ==
  LET m == Len(s.ids) + 1
  IN  /\ m <= Len(AllWords(r)) /\ Says(r, AllWords(r)[m], id)
      /\ t.ids = Append(s.ids, id) /\ t.parts = Append(s.parts, v[id + 1])

\* One word more, below the limit, is again a prefix.
LEMMA OneMoreWord ==
  ASSUME NEW r \in Run, NEW v, NEW s \in Stream, NEW t, NEW id \in Nat,
         FirstWords(r, v, s), Below(r, s), AddsWord(r, v, s, t, id)
  PROVE  FirstWords(r, v, t) /\ Len(t.ids) = Len(s.ids) + 1
<1> DEFINE n == Len(s.ids)
           m == n + 1
           lexeme == v[id + 1]
           ids == s.ids
           parts == s.parts
           longer == Append(parts, lexeme)
<1>1. ids \in Seq(Nat) /\ parts \in Seq(Bytes) /\ n \in Nat /\ Len(ids) = n /\ Len(parts) = n
  BY DEF Stream, FirstWords
<1>0. /\ m <= Len(AllWords(r)) /\ Says(r, AllWords(r)[m], id)
      /\ t.ids = Append(ids, id) /\ t.parts = longer
  BY DEF AddsWord
<1> HIDE DEF ids, parts, lexeme
<1>2. /\ Len(t.ids) = m /\ Len(t.parts) = m
      /\ \A k \in 1..n : t.ids[k] = ids[k] /\ t.parts[k] = parts[k]
      /\ t.ids[m] = id /\ t.parts[m] = lexeme
  <2>1. /\ Len(Append(ids, id)) = Len(ids) + 1
        /\ \A k \in 1..Len(ids) : Append(ids, id)[k] = ids[k]
        /\ Append(ids, id)[Len(ids) + 1] = id
    BY <1>1
  <2>2. /\ Len(Append(parts, lexeme)) = Len(parts) + 1
        /\ \A k \in 1..Len(parts) : Append(parts, lexeme)[k] = parts[k]
        /\ Append(parts, lexeme)[Len(parts) + 1] = lexeme
    <3>1. parts \in Seq(Bytes \cup {lexeme})
      BY <1>1
    <3> QED
      BY <3>1
  <2> QED
    BY <1>0, <1>1, <2>1, <2>2
<1>3. Total(t.parts, n) = Total(parts, n)
  <2>1. longer \in Seq(Bytes \cup {lexeme}) /\ n \in 0..Len(longer) /\ n \in 0..n
        /\ SubSeq(longer, 1, n) = parts
    <3>1. parts \in Seq(Bytes \cup {lexeme})
      BY <1>1
    <3>2. longer \in Seq(Bytes \cup {lexeme}) /\ Len(longer) = n + 1
      BY <1>1, <3>1
    <3>3. SubSeq(longer, 1, n) = parts
      <4>1. longer = parts \o <<lexeme>>
        BY <3>1
      <4> QED
        BY <1>1, <3>1, <3>2, <4>1
    <3> HIDE DEF longer
    <3> QED
      BY <1>1, <3>2, <3>3
  <2> HIDE DEF longer
  <2>2. \A k \in 0..n : Total(SubSeq(longer, 1, n), k) = Total(longer, k)
    BY <2>1, TotalOfFront
  <2> QED
    BY <1>0, <2>1, <2>2
<1>4. m > 1 => Total(t.parts, m - 1) < r.max_bytes
  <2>1. m > 1 => n # 0
    BY <1>1
  <2>2. n # 0 => Total(parts, n) < r.max_bytes
    BY DEF Below, parts
  <2>3. m - 1 = n
    BY <1>1
  <2> QED
    BY <1>3, <2>1, <2>2, <2>3
<1>5. \A k \in 1..m : Says(r, AllWords(r)[k], t.ids[k]) /\ t.parts[k] = v[t.ids[k] + 1]
  <2> SUFFICES ASSUME NEW k \in 1..m
               PROVE  Says(r, AllWords(r)[k], t.ids[k]) /\ t.parts[k] = v[t.ids[k] + 1]
    OBVIOUS
  <2>1. CASE k = m
    BY <1>0, <1>2, <2>1 DEF lexeme
  <2>2. CASE k # m
    <3>1. k \in 1..n
      BY <1>1, <2>2, SMTT(40)
    <3> QED
      BY <1>2, <3>1 DEF FirstWords, ids, parts
  <2> QED
    BY <2>1, <2>2
<1> HIDE DEF m, n
<1>7. FirstWords(r, v, t)
  BY <1>0, <1>2, <1>4, <1>5 DEF FirstWords
<1> QED
  BY <1>2, <1>7 DEF m, n

\* The next ID is that of the next word.
LEMMA IdPrefix ==
  ASSUME LoadInv, PrefixInv, NextId
  PROVE  PrefixInv'
<1> USE DEF Fail, reading
<1>1. /\ phase = "next_id" /\ run' = run /\ vocab' = vocab /\ file_no' = file_no
      /\ pos <= Len(local_ids)
  BY DEF NextId
<1> SUFFICES ASSUME run # NoRun PROVE PrefixInv'
  BY <1>1 DEF PrefixInv
<1>2. /\ FirstWords(run, vocab, stream) /\ Below(run, stream)
      /\ Len(stream.ids) = Total(WordLists(run), file_no - 1) + (pos - 1)
      /\ LoadTypes /\ file_no \in 1..Len(run.files) /\ LocalIds # {} /\ run \in Run /\ error = "none"
      /\ stream \in Stream /\ Len(stream.parts) = Len(stream.ids) /\ vocab \in Seq(Bytes)
  BY <1>1 DEF PrefixInv, Consumed, LoadInv, FileIsOpen, LoadTypes, FirstWords, AnswerInv
<1>3. local_ids' = local_ids
  BY <1>1 DEF local_ids, LocalIds, file
<1>4. CASE phase' = "failed" /\ stream' = stream
  BY <1>1, <1>2, <1>4 DEF PrefixInv, Consumed
<1>5. ASSUME NEW id \in GlobalIds, id < Len(vocab), pos' = pos + 1, error' = error,
             LET ids   == Append(stream.ids, id)
                 parts == Append(stream.parts, vocab[id + 1])
             IN  IF Reached(parts)
                 THEN stream' = MakeLoadedStream(ids, parts) /\ phase' = "loaded"
                 ELSE stream' = [stream EXCEPT !.ids = ids, !.parts = parts] /\ UNCHANGED phase
      PROVE  PrefixInv'
  <2> DEFINE lists == WordLists(run)
             ids == Append(stream.ids, id)
             parts == Append(stream.parts, vocab[id + 1])
             n == Len(stream.ids)
  <2>1. id \in Nat
    BY <1>1, <1>2, IdsAreNumbers
  <2>2. /\ Len(local_ids) \in Nat /\ pos \in 1..Len(local_ids) /\ file = run.files[file_no]
        /\ Len(lists[file_no]) = Len(local_ids) /\ lists[file_no][pos] = <<file, pos>>
        /\ lists \in Seq(Seq(File \X Nat)) /\ file_no \in 1..Len(lists)
        /\ AllWords(run) = FlattenSeq(lists) /\ Len(AllWords(run)) \in Nat
        /\ Total(lists, file_no - 1) \in Nat
    <3>1. /\ Len(local_ids) \in Nat /\ file = run.files[file_no]
          /\ Len(local_ids) = Len(file.local) \div WordSize(run)
      BY <1>2, OpenWords
    <3>2. pos \in 1..Len(local_ids)
      BY <1>1, <1>2, <3>1 DEF LoadTypes
    <3>3. file_no - 1 \in 0..Len(run.files)
      BY <1>2, ListFacts
    <3> QED
      BY <1>2, <3>1, <3>2, <3>3, ListFacts
  <2>3. n + 1 = Total(lists, file_no - 1) + pos /\ n \in Nat
    <3> DEFINE before == Total(lists, file_no - 1)
    <3>1. n = before + (pos - 1) /\ before \in Nat /\ pos \in 1..Len(local_ids) /\ Len(local_ids) \in Nat
      BY <1>2, <2>2
    <3> HIDE DEF n, before
    <3>2. n + 1 = before + pos /\ n \in Nat
      BY <3>1
    <3> QED
      BY <3>2 DEF before
  <2>4. n + 1 <= Len(AllWords(run)) /\ AllWords(run)[n + 1] = <<file, pos>>
    <3>1. /\ Total(lists, file_no - 1) + pos \in 1..Len(FlattenSeq(lists))
          /\ FlattenSeq(lists)[Total(lists, file_no - 1) + pos] = lists[file_no][pos]
      <4>1. pos \in 1..Len(lists[file_no])
        BY <2>2
      <4> HIDE DEF lists
      <4> QED
        BY <2>2, <4>1, FlattenedElement, ZenonT(120)
    <3> DEFINE place == Total(lists, file_no - 1) + pos
               words == AllWords(run)
    <3>2. /\ place \in 1..Len(words) /\ words[place] = <<file, pos>> /\ Len(words) \in Nat
          /\ n + 1 = place
      BY <2>2, <2>3, <3>1
    <3> HIDE DEF place, words, n
    <3>3. place <= Len(words) /\ words[place] = <<file, pos>>
      BY <3>2
    <3>4. n + 1 <= Len(words) /\ words[n + 1] = <<file, pos>>
      BY <3>2, <3>3, Zenon
    <3> QED
      BY <3>4 DEF words
  <2>5. Says(run, AllWords(run)[n + 1], id)
    BY <1>1, <1>2, <2>4, SaysWhatIsRead
  <2>6. stream'.ids = ids /\ stream'.parts = parts
    <3>1. CASE Reached(parts)
      BY <1>5, <3>1 DEF MakeLoadedStream
    <3>2. CASE ~Reached(parts)
      BY <1>2, <1>5, <3>2 DEF Stream
    <3> QED
      BY <3>1, <3>2
  <2>7. FirstWords(run, vocab, stream') /\ Len(stream'.ids) = n + 1
    <3> DEFINE next == stream'
    <3>1. AddsWord(run, vocab, stream, next, id)
      BY <2>4, <2>5, <2>6 DEF AddsWord
    <3> HIDE DEF next
    <3>2. FirstWords(run, vocab, next) /\ Len(next.ids) = Len(stream.ids) + 1
      BY <1>2, <2>1, <3>1, OneMoreWord
    <3> QED
      BY <3>2 DEF next
  <2>8. Len(parts) = n + 1 /\ Len(stream'.ids) = Len(parts)
    <3>1. stream.parts \in Seq(Bytes) /\ Len(stream.parts) = n
      BY <1>2 DEF Stream
    <3>2. Len(parts) = n + 1
      BY <1>2, <2>1, <3>1, <1>5
    <3> QED
      BY <2>7, <3>2
  <2> HIDE DEF parts, ids
  <2>9. CASE Reached(parts)
    <3>1. phase' = "loaded"
      BY <1>5, <2>9 DEF parts
    <3>2. Complete(run, stream')
      BY <2>6, <2>8, <2>9 DEF Reached, Complete
    <3> QED
      BY <1>1, <1>2, <1>5, <2>7, <3>1, <3>2 DEF PrefixInv, Consumed
  <2>10. CASE ~Reached(parts)
    <3>1. phase' = "next_id"
      BY <1>1, <1>5, <2>10 DEF parts
    <3>2. Below(run, stream')
      <4>1. stream'.parts \in Seq(Bytes) /\ run.max_bytes \in Nat
        <5>1. LoadInv'
          BY IdStep
        <5>2. stream' \in Stream
          BY <5>1 DEF LoadInv, LoadTypes
        <5> QED
          BY <1>2, <5>2 DEF Stream, Run
      <4>2. Total(parts, Len(parts)) \in Nat
        BY <2>6, <4>1, TotalIsLength
      <4>3. Total(parts, Len(parts)) < run.max_bytes
        BY <2>10, <4>1, <4>2 DEF Reached
      <4> QED
        BY <2>6, <2>8, <4>3 DEF Below
    <3>3. Consumed(run, stream', "next_id", file_no, pos + 1, Len(local_ids))
      <4>1. pos + 1 <= Len(local_ids) + 1 /\ (pos + 1) - 1 = pos
        BY <2>2
      <4> QED
        BY <2>3, <2>7, <4>1 DEF Consumed
    <3> QED
      BY <1>1, <1>2, <1>3, <1>5, <2>7, <3>1, <3>2, <3>3 DEF PrefixInv
  <2> QED
    BY <2>9, <2>10
<1> QED
  BY <1>4, <1>5 DEF NextId

\* A range is read from the stream without touching it.
LEMMA ReadPrefix ==
  ASSUME PrefixInv, RequestRange \/ CopyPart \/ FinishRange \/ UNCHANGED loadVars
  PROVE  PrefixInv'
<1>1. /\ run' = run /\ vocab' = vocab /\ file_no' = file_no /\ pos' = pos /\ stream' = stream
      /\ \/ phase' = phase /\ error' = error
         \/ /\ phase' \in {"failed", "done", "copy"}
            /\ error' \in {error, "structure", "outside", "short"}
  BY DEF RequestRange, CopyPart, FinishRange, Fail, loading, reading, loadVars
<1>2. local_ids' = local_ids
  BY <1>1 DEF local_ids, LocalIds, file
<1> QED
  BY <1>1, <1>2 DEF PrefixInv, Consumed

\* What is loaded is the run's own tokens in file order, up to the one that
\* reaches the limit (src/lib.rs, load_du_stream and
\* load_target_stream).
THEOREM ShortestPrefixLoaded == LoadSpec => []LoadsShortestPrefix
<1>1. LoadInit => PrefixInv
  BY InitPrefix
<1>2. LoadInv /\ PrefixInv /\ [LoadNext \/ LoadTerminated]_loadVars => PrefixInv'
  <2> SUFFICES ASSUME LoadInv, PrefixInv, [LoadNext \/ LoadTerminated]_loadVars PROVE PrefixInv'
    OBVIOUS
  <2>1. CASE DecodeEntry \/ DictLoaded \/ LoadModel \/ ReadFails
    BY <2>1, VocabPrefix
  <2>2. CASE OpenFile
    BY <2>2, OpenPrefix
  <2>3. CASE EndFile
    BY <2>3, EndPrefix
  <2>4. CASE NextId
    BY <2>4, IdPrefix
  <2>5. CASE RequestRange \/ CopyPart \/ FinishRange \/ UNCHANGED loadVars
    BY <2>5, ReadPrefix
  <2> QED
    BY <2>1, <2>2, <2>3, <2>4, <2>5 DEF LoadNext, LoadTerminated
<1>3. LoadInv /\ PrefixInv => LoadsShortestPrefix
  BY DEF LoadInv, PrefixInv, LoadsShortestPrefix, FirstWords, Below, Complete
<1> QED
  BY <1>1, <1>2, <1>3, LoadInvariant, PTL DEF LoadSpec
-----------------------------------------------------------------------------
\* The line of a dictionary without its carriage return is a text.
LEMMA LineIsText ==
  ASSUME LoadTypes, NEW k \in 1..Len(Lines)
  PROVE  StripCr(Lines[k]) \in Texts
<1>1. Lines \in Seq(Texts)
  BY LinesAreTexts DEF LoadTypes, Run, Texts, Lines
<1>2. \A line \in Texts : StripCr(line) \in Texts
  BY DEF StripCr, Front, Texts
<1> QED
  BY <1>1, <1>2

LEMMA InitVocab == LoadInit => VocabAsWritten
<1> SUFFICES ASSUME LoadInit PROVE VocabAsWritten
  OBVIOUS
<1>1. vocab = <<>> /\ error = "none" /\ phase \in {"load_vocab", "loaded"}
  BY DEF LoadInit
<1>2. DictAsWritten
  BY <1>1 DEF DictAsWritten, VocabLoaded
<1>3. ModelAsWritten
  BY <1>1 DEF ModelAsWritten, VocabLoaded
<1> QED
  BY <1>2, <1>3 DEF VocabAsWritten

\* A line is decoded to the one lexeme it means, or turned down as it means none.
LEMMA EntryVocab == LoadInv /\ VocabAsWritten /\ DecodeEntry => VocabAsWritten'
<1> SUFFICES ASSUME LoadInv, VocabAsWritten, DecodeEntry PROVE VocabAsWritten'
  OBVIOUS
<1> DEFINE line(k) == LexemeDenotes(StripCr(Lines[k]))
           next == Len(vocab) + 1
<1>1. /\ phase = "load_vocab" /\ run.kind = "du" /\ Len(vocab) < Len(Lines) /\ UNCHANGED run
      /\ vocab \in Seq(Bytes)
  BY DEF DecodeEntry, LoadInv, LoadTypes
<1>2. error = "none"
  BY <1>1 DEF LoadInv, AnswerInv
<1>3. \A k \in 1..Len(vocab) : line(k) = {vocab[k]}
  BY <1>1 DEF VocabAsWritten, DictAsWritten
<1>4. /\ line(next) = DecodeDuLexeme(StripCr(Lines[next])) /\ line(next) \subseteq Bytes
      /\ AtMostOne(line(next))
  <2>1. next \in 1..Len(Lines)
    <3>1. Lines \in Seq(Texts)
      BY LinesAreTexts DEF LoadInv, LoadTypes, Run, Texts, Lines
    <3> QED
      BY <1>1, <3>1
  <2>2. StripCr(Lines[next]) \in Texts
    BY <2>1, LineIsText DEF LoadInv
  <2> HIDE DEF next
  <2> QED
    BY <2>2, LexemeMeans, ZenonT(120)
<1>5. \/ line(next) = {} /\ phase' = "failed" /\ error' = "entry" /\ vocab' = vocab
      \/ \E lexeme \in line(next) : /\ vocab' = Append(vocab, lexeme)
                                    /\ phase' = "load_vocab" /\ error' = "none"
  BY <1>1, <1>2, <1>4 DEF DecodeEntry, Fail
<1>6. \A k : line(k)' = line(k)
  BY <1>1 DEF Lines
<1> HIDE DEF line
<1>7. /\ \A k \in 1..Len(vocab') : line(k) = {vocab'[k]}
      /\ error' = "entry" => line(Len(vocab') + 1) = {}
      /\ ~VocabLoaded'
  <2>1. CASE line(next) = {} /\ phase' = "failed" /\ error' = "entry" /\ vocab' = vocab
    BY <1>3, <2>1 DEF VocabLoaded
  <2>2. CASE \E lexeme \in line(next) : /\ vocab' = Append(vocab, lexeme)
                                        /\ phase' = "load_vocab" /\ error' = "none"
    <3>1. PICK lexeme \in line(next) : vocab' = Append(vocab, lexeme)
      BY <2>2
    <3>2. line(next) = {lexeme} /\ lexeme \in Bytes
      BY <1>4, <3>1 DEF AtMostOne
    <3>3. /\ Len(vocab') = next /\ vocab'[next] = lexeme
          /\ \A k \in 1..Len(vocab) : vocab'[k] = vocab[k]
      BY <1>1, <3>1, <3>2
    <3>4. \A k \in 1..Len(vocab') : k \in 1..Len(vocab) \/ k = next
      BY <1>1, <3>3
    <3> HIDE DEF next
    <3> QED
      BY <1>3, <2>2, <3>2, <3>3, <3>4 DEF VocabLoaded
  <2> QED
    BY <1>5, <2>1, <2>2
<1>8. DictAsWritten'
  <2>1. /\ \A k \in 1..Len(vocab') : line(k)' = {vocab'[k]}
        /\ error' = "entry" => (line(Len(vocab) + 1))' = {}
    BY <1>6, <1>7
  <2> QED
    BY <1>7, <2>1 DEF DictAsWritten, line
<1>9. ModelAsWritten'
  BY <1>1 DEF ModelAsWritten
<1> QED
  BY <1>8, <1>9 DEF VocabAsWritten

\* A dictionary that was read to its end is the lines of its lexemes.
LEMMA DictVocab == LoadInv /\ VocabAsWritten /\ DictLoaded => VocabAsWritten'
<1> SUFFICES ASSUME LoadInv, VocabAsWritten, DictLoaded PROVE VocabAsWritten'
  OBVIOUS
<1> DEFINE line(k) == LexemeDenotes(StripCr(Lines[k]))
           text(k) == Append(Lines[k], LF)
<1>1. /\ phase = "load_vocab" /\ run.kind = "du" /\ Len(vocab) = Len(Lines)
      /\ UNCHANGED <<run, vocab>>
  BY DEF DictLoaded, loading
<1>2. error' # "entry"
  BY <1>1 DEF LoadInv, AnswerInv, DictLoaded, Fail
<1>3. \A k \in 1..Len(vocab) : line(k) = {vocab[k]}
  BY <1>1 DEF VocabAsWritten, DictAsWritten
<1>4. FlattenSeq([k \in 1..Len(vocab) |-> text(k)]) \in {run.vocab, Append(run.vocab, LF)}
  <2>1. run.vocab \in Texts
    BY DEF LoadInv, LoadTypes, Run, Texts
  <2>2. FlattenSeq(EndedLines(Lines)) \in {run.vocab, Append(run.vocab, LF)}
    BY <2>1, LinesAreTexts DEF Lines
  <2> QED
    BY <1>1, <2>2 DEF EndedLines
<1>5. Lines' = Lines
  BY <1>1 DEF Lines
<1>6. DictAsWritten'
  <2>1. (\A k \in 1..Len(vocab) : line(k) = {vocab[k]})'
    BY <1>1, <1>3, <1>5
  <2>2. (FlattenSeq([k \in 1..Len(vocab) |-> text(k)]))' = FlattenSeq([k \in 1..Len(vocab) |-> text(k)])
    BY <1>1, <1>5
  <2>3. (FlattenSeq([k \in 1..Len(vocab) |-> text(k)]) \in {run.vocab, Append(run.vocab, LF)})'
    BY <1>1, <1>4, <2>2
  <2> QED
    BY <1>2, <2>1, <2>3 DEF DictAsWritten
<1>7. ModelAsWritten'
  BY <1>1 DEF ModelAsWritten
<1> QED
  BY <1>6, <1>7 DEF VocabAsWritten

\* model.bin is read exactly if it is the export of what is read.
LEMMA ModelVocab == LoadInv /\ LoadModel => VocabAsWritten'
<1> SUFFICES ASSUME LoadInv, LoadModel PROVE VocabAsWritten'
  OBVIOUS
<1>1. run.kind = "target" /\ UNCHANGED run /\ run.vocab \in Seq(Octet)
  BY DEF LoadModel, LoadInv, LoadTypes
<1>2. error = "none"
  BY DEF LoadModel, LoadInv, AnswerInv
<1>3. DictAsWritten'
  BY <1>1 DEF DictAsWritten
<1>4. ASSUME VocabLoaded' PROVE Export(vocab') = run.vocab
  <2>1. phase' = "open_file"
    BY <1>4 DEF VocabLoaded
  <2>2. vocab' \in LoadModelBin(run.vocab)
    BY <2>1 DEF LoadModel, Fail
  <2> QED
    BY <1>1, <2>2, ModelIsExport
<1>5. ASSUME error' = "model", NEW v \in Vocabs PROVE Export(v) # run.vocab
  <2>1. LoadModelBin(run.vocab) = {}
    BY <1>2, <1>5 DEF LoadModel, Fail
  <2>2. v \in LoadModelBin(Export(v))
    BY InputsAssumption, ExportIsRead
  <2> QED
    BY <2>1, <2>2
<1>6. ModelAsWritten'
  BY <1>1, <1>4, <1>5 DEF ModelAsWritten
<1> QED
  BY <1>3, <1>6 DEF VocabAsWritten

\* From then on the vocabulary stays as it is.
LEMMA NextVocab == LoadInv /\ VocabAsWritten /\ [LoadNext \/ LoadTerminated]_loadVars
                     => VocabAsWritten'
<1> SUFFICES ASSUME LoadInv, VocabAsWritten, [LoadNext \/ LoadTerminated]_loadVars
             PROVE  VocabAsWritten'
  OBVIOUS
<1>1. CASE DecodeEntry
  BY <1>1, EntryVocab
<1>2. CASE DictLoaded
  BY <1>2, DictVocab
<1>3. CASE LoadModel
  BY <1>3, ModelVocab
<1>4. CASE ReadFails \/ OpenFile \/ NextId \/ EndFile \/ RequestRange \/ CopyPart \/ FinishRange
  <2>1. phase' # "load_vocab" /\ ~VocabLoaded' /\ error' \notin {"entry", "model"}
    <3>1. error = "none"
      BY <1>4, ZenonT(60) DEF LoadInv, AnswerInv, ReadFails, OpenFile, NextId, EndFile, RequestRange, CopyPart,
                  FinishRange
    <3>2. error' \notin {"entry", "model"}
      BY <1>4, <3>1, ZenonT(60) DEF Fail, ReadFails, OpenFile, NextId, EndFile, RequestRange, CopyPart, FinishRange
    <3>3. phase' # "load_vocab"
      BY <1>4, ZenonT(60) DEF Fail, ReadFails, OpenFile, NextId, EndFile, RequestRange, CopyPart, FinishRange
    <3>4. ASSUME phase' = "open_file" PROVE file_no' # 1
      <4>1. EndFile
        BY <1>4, <3>4 DEF Fail, ReadFails, OpenFile, NextId, RequestRange, CopyPart, FinishRange
      <4>2. file_no' = file_no + 1 /\ file_no \in Nat \ {0}
        BY <4>1 DEF EndFile, LoadInv, LoadTypes
      <4> QED
        BY <4>2, SMTT(40)
    <3> QED
      BY <3>2, <3>3, <3>4 DEF VocabLoaded
  <2> QED
    BY <2>1 DEF VocabAsWritten, DictAsWritten, ModelAsWritten
<1>5. CASE LoadTerminated \/ UNCHANGED loadVars
  <2>1. UNCHANGED <<run, vocab, phase, file_no, error>>
    BY <1>5 DEF LoadTerminated, loadVars, loading
  <2> QED
    BY <2>1 DEF VocabAsWritten, DictAsWritten, ModelAsWritten, VocabLoaded, Lines
<1> QED
  BY <1>1, <1>2, <1>3, <1>4, <1>5 DEF LoadNext

\* The vocabulary is what its file says: a dictionary has the lexeme of every
\* line at the line's place, and turns a line down exactly if it means nothing;
\* a model is loaded exactly if its file is the export of what is loaded
\* (load_du_dict, decode_du_lexeme and load_model_bin).
THEOREM VocabularyAsWritten == LoadSpec => []VocabAsWritten
<1>1. LoadInit => VocabAsWritten
  BY InitVocab
<1>2. LoadInv /\ VocabAsWritten /\ [LoadNext \/ LoadTerminated]_loadVars => VocabAsWritten'
  BY NextVocab
<1> QED
  BY <1>1, <1>2, LoadInvariant, PTL DEF LoadSpec
=============================================================================
