----------------------------- MODULE CleanRerun -----------------------------
(***************************************************************************)
(* scripts/r26/clean_rerun_phase.py: speed cells whose windows overlapped  *)
(* outside GPU work are measured again, at most two attempts per cell and  *)
(* run, and a run that was killed is resumed from its ledger and from the  *)
(* canonical files of each cell.                                           *)
(*                                                                         *)
(* On disk: the ledger (clean-rerun-plan.json), the completion receipt,    *)
(* per cell the bench command, the steady summary and the archived         *)
(* attempts.  A SIGTERM ends the process at any step, without its          *)
(* `finally`: what is only in memory is lost.                              *)
(***************************************************************************)
EXTENDS Naturals, FiniteSets, FiniteSetsExt

CONSTANTS
  Cells,      \* result labels of contaminated_cells()
  NoCell,     \* no cell is being measured
  Boots,      \* boot labels
  BootOf,     \* boot label of each cell
  MaxRuns,    \* bound: runs of the phase, the first one and its resumptions
  MaxDamage   \* bound: summaries lost or altered between two runs

ASSUME CellsAssumption == Cells # {} /\ IsFiniteSet(Cells) /\ NoCell \notin Cells
ASSUME BootAssumption == BootOf \in [Cells -> Boots] /\ IsFiniteSet(Boots)
ASSUME BoundsAssumption == MaxRuns \in Nat /\ MaxDamage \in Nat

VARIABLES
  pc,          \* where main is; "idle" when no process runs
  runs,        \* runs started
  began,       \* history: number of each cell's last measurement when this run
               \* started
  damage,      \* summaries damaged so far
  ledger,      \* disk: cells with a clean row in clean-rerun-plan.json
  receipt,     \* disk: clean-rerun-completed.json
  command,     \* disk: cell -> its last bench command
  summary,     \* disk: cell -> its steady summary
  archives,    \* disk: cell -> numbers of its archived attempts
  rows,        \* memory: ledger's cells with a clean row
  completed,   \* memory: completed_labels
  boots,       \* memory: boot labels of by_boot not started yet
  group,       \* memory: cells of this boot not measured yet
  cell,        \* memory: the cell being measured
  attempt,     \* memory: number of this attempt
  last,        \* memory: number of the last attempt of this run
  measured,    \* memory: this boot's cells with a clean outcome
  benchOk      \* memory: ok of this attempt

runVars    == <<runs, began, damage>>
diskVars   == <<ledger, receipt, command, summary, archives>>
memoryVars == <<rows, completed, boots, group, cell, attempt, last, measured,
                benchOk>>
vars == <<pc, runVars, diskVars, memoryVars>>

\* max(..., default=0)
Max0(S) == Max(S \cup {0})

\* Files carry the number of the measurement they are from, 0 before the first.
Commands  == [id : Nat, returned : BOOLEAN, window : BOOLEAN]
Summaries == [id : Nat, valid : BOOLEAN]

NoCommand == [id |-> 0, returned |-> FALSE, window |-> FALSE]
NoSummary == [id |-> 0, valid |-> FALSE]

TypeOK ==
  /\ pc \in {"idle", "receipt", "ledger", "nextBoot", "quiet", "boot",
             "nextCell", "attempt", "bench", "summary", "archive", "outcome",
             "groupEnd", "final", "diagnostics"}
  /\ runs \in 0 .. MaxRuns /\ damage \in 0 .. MaxDamage
  /\ began \in [Cells -> Nat]
  /\ ledger \subseteq Cells /\ rows \subseteq Cells
  /\ receipt \in {"none", "running", "incomplete", "complete"}
  /\ command \in [Cells -> Commands] /\ summary \in [Cells -> Summaries]
  /\ archives \in [Cells -> SUBSET (Nat \ {0})]
  /\ completed \subseteq Cells /\ boots \subseteq Boots
  /\ group \subseteq Cells /\ cell \in Cells \cup {NoCell}
  /\ attempt \in Nat /\ last \in Nat
  /\ measured \subseteq Cells /\ benchOk \in BOOLEAN

Init ==
  /\ pc = "idle" /\ runs = 0 /\ damage = 0
  /\ began = [c \in Cells |-> 0]
  /\ ledger = {} /\ receipt = "none"
  /\ command = [c \in Cells |-> NoCommand]
  /\ summary = [c \in Cells |-> NoSummary]
  /\ archives = [c \in Cells |-> {}]
  /\ rows = {} /\ completed = {} /\ boots = {} /\ group = {} /\ cell = NoCell
  /\ attempt = 0 /\ last = 0 /\ measured = {} /\ benchOk = FALSE

\* What a process knew is gone with it.
MemoryLost ==
  /\ rows' = {} /\ completed' = {} /\ boots' = {} /\ group' = {}
  /\ cell' = NoCell /\ attempt' = 0 /\ last' = 0 /\ measured' = {}
  /\ benchOk' = FALSE

-----------------------------------------------------------------------------

\* cell_clean: the isolation log covers the command's window with no foreign
\* process and no unhealthy GPU.
CellClean(c) == command[c].window

\* The canonical files of a cell meet the contract: launch, options and return
\* code of the command, a clean window, valid counters in the summary.
MeetsContract(c) ==
  command[c].returned /\ CellClean(c) /\ summary[c].valid

\* Mutant: a ledger row is trusted whatever the files say.
Mutant_TrustLedger ==
  /\ completed' = ledger
  /\ rows' = ledger

\* resume_state: rows of the ledger count when their files still do; the other
\* rows lose their clean mark, in memory.
ResumeState ==
  /\ completed' = {c \in ledger : MeetsContract(c)}
  /\ rows' = {c \in ledger : MeetsContract(c)}

Start ==
  /\ pc = "idle" /\ runs < MaxRuns
  /\ runs' = runs + 1
  /\ began' = [c \in Cells |-> command[c].id]
  /\ ResumeState
  /\ pc' = "receipt"
  /\ UNCHANGED <<damage, diskVars, boots, group, cell, attempt, last, measured,
        benchOk>>

\* Mutant: the receipt is only written when the run ends.
Mutant_ReceiptAtEnd ==
  /\ pc = "receipt"
  /\ pc' = "ledger"
  /\ UNCHANGED <<runVars, diskVars, memoryVars>>

\* The receipt of an earlier run is replaced before anything is measured.
WriteRunning ==
  /\ pc = "receipt"
  /\ receipt' = "running"
  /\ pc' = "ledger"
  /\ UNCHANGED <<runVars, ledger, command, summary, archives, memoryVars>>

\* Mutant: the ledger is only written when a boot's cells are done.
Mutant_LedgerLater ==
  /\ pc = "ledger"
  /\ boots' = {BootOf[c] : c \in Cells \ completed}
  /\ pc' = "nextBoot"
  /\ UNCHANGED <<runVars, diskVars, rows, completed, group, cell, attempt,
        last, measured, benchOk>>

\* rt.save_json of the ledger with the marks taken away, then by_boot.
WriteLedger ==
  /\ pc = "ledger"
  /\ ledger' = rows
  /\ boots' = {BootOf[c] : c \in Cells \ completed}
  /\ pc' = "nextBoot"
  /\ UNCHANGED <<runVars, receipt, command, summary, archives, rows,
        completed, group, cell, attempt, last, measured, benchOk>>

\* The next boot label of by_boot, with its cells.
NextBoot ==
  /\ pc = "nextBoot"
  /\ \/ \E b \in boots :
          /\ boots' = boots \ {b}
          /\ group' = {c \in Cells \ completed : BootOf[c] = b}
          /\ measured' = {}
          /\ pc' = "quiet"
     \/ /\ boots = {}
        /\ pc' = "final"
        /\ UNCHANGED <<boots, group, measured>>
  /\ UNCHANGED <<runVars, diskVars, rows, completed, cell, attempt, last,
        benchOk>>

\* wait_for_quiet before the boot: without a quiet window in 900 seconds the
\* loop over the boots is left.
QuietBeforeBoot ==
  /\ pc = "quiet"
  /\ \/ pc' = "boot" /\ UNCHANGED boots
     \/ pc' = "groupEnd" /\ boots' = {}
  /\ UNCHANGED <<runVars, diskVars, rows, completed, group, cell, attempt,
        last, measured, benchOk>>

\* rt.boot; an unhealthy boot or an exception ends the group.
Boot ==
  /\ pc = "boot"
  /\ pc' \in {"nextCell", "groupEnd"}
  /\ UNCHANGED <<runVars, diskVars, memoryVars>>

\* Mutant: the highest number is taken again.
Mutant_SameNumber(c) == Max0(archives[c])

\* next_attempt_number: one more than the highest archived attempt.
NextAttemptNumber(c) == Max0(archives[c]) + 1

NextCell ==
  /\ pc = "nextCell"
  /\ \/ \E c \in group :
          /\ cell' = c
          /\ group' = group \ {c}
          /\ attempt' = NextAttemptNumber(c)
          /\ last' = NextAttemptNumber(c) + 1
          /\ pc' = "attempt"
     \/ /\ group = {}
        /\ pc' = "groupEnd"
        /\ UNCHANGED <<cell, group, attempt, last>>
  /\ UNCHANGED <<runVars, diskVars, rows, completed, boots, measured,
        benchOk>>

\* Mutant: one attempt too many.
Mutant_ThirdAttempt ==
  /\ pc = "attempt"
  /\ \/ attempt <= last + 1 /\ pc' = "bench"
     \/ pc' = "outcome"
  /\ UNCHANGED <<runVars, diskVars, memoryVars>>

\* wait_for_quiet before the attempt: without a quiet window the cell is given
\* up; both attempts may be used up.
Attempt ==
  /\ pc = "attempt"
  /\ \/ attempt <= last /\ pc' = "bench"
     \/ pc' = "outcome"
  /\ UNCHANGED <<runVars, diskVars, memoryVars>>

\* rt.bench: rt.run leaves the command's file, with this attempt's window.
\* Output that cannot be read makes the bench fail in spite of its code.
Bench ==
  /\ pc = "bench"
  /\ \E returned, window \in BOOLEAN :
       /\ command' = [command EXCEPT ![cell] =
                        [id |-> @.id + 1, returned |-> returned,
                         window |-> window]]
       /\ benchOk' \in {FALSE, returned}
  /\ pc' = "summary"
  /\ UNCHANGED <<runVars, ledger, receipt, summary, archives, rows,
        completed, boots, group, cell, attempt, last, measured>>

\* steady_metrics.summarize: a failed bench leaves the summary as it was.
Summarize ==
  /\ pc = "summary"
  /\ \/ /\ benchOk
        /\ \E valid \in BOOLEAN :
             summary' = [summary EXCEPT ![cell] =
                           [id |-> command[cell].id, valid |-> valid]]
     \/ ~benchOk /\ UNCHANGED summary
  /\ pc' = "archive"
  /\ UNCHANGED <<runVars, ledger, receipt, command, archives, memoryVars>>

CleanNow == benchOk /\ summary[cell].valid /\ CellClean(cell)

\* preserve_attempt makes a directory of its own for the attempt (an existing
\* one is an exception: GroupFails); then the next attempt, or the outcome.
Archive ==
  /\ pc = "archive"
  /\ attempt \notin archives[cell]
  /\ archives' = [archives EXCEPT ![cell] = @ \cup {attempt}]
  /\ \/ /\ CleanNow
        /\ measured' = measured \cup {cell}
        /\ pc' = "outcome"
        /\ UNCHANGED attempt
     \/ /\ ~CleanNow
        /\ attempt' = attempt + 1
        /\ pc' = "attempt"
        /\ UNCHANGED measured
  /\ UNCHANGED <<runVars, ledger, receipt, command, summary, rows,
        completed, boots, group, cell, last, benchOk>>

\* The outcome joins the group's entry.
Outcome ==
  /\ pc = "outcome"
  /\ pc' = "nextCell"
  /\ UNCHANGED <<runVars, diskVars, memoryVars>>

\* An exception in the group: the cell in progress has no outcome.
GroupFails ==
  /\ pc \in {"quiet", "attempt", "bench", "summary", "archive"}
  /\ pc' = "groupEnd"
  /\ UNCHANGED <<runVars, diskVars, memoryVars>>

\* The group's finally: rt.stop, and the ledger with this group's entry.
GroupEnd ==
  /\ pc = "groupEnd"
  /\ rows' = rows \cup measured
  /\ ledger' = rows \cup measured
  /\ pc' = "nextBoot"
  /\ UNCHANGED <<runVars, receipt, command, summary, archives, completed,
        boots, group, cell, attempt, last, measured, benchOk>>

\* Everything counted: diagnostics first; else the incomplete receipt, exit 2.
Final ==
  /\ pc = "final"
  /\ \/ /\ Cardinality(rows) = Cardinality(Cells)
        /\ pc' = "diagnostics"
        /\ UNCHANGED <<receipt, memoryVars>>
     \/ /\ Cardinality(rows) # Cardinality(Cells)
        /\ receipt' = "incomplete"
        /\ pc' = "idle"
        /\ MemoryLost
  /\ UNCHANGED <<runVars, ledger, command, summary, archives>>

\* final_runtime_diagnostics may raise, and then there is no receipt.
Diagnostics ==
  /\ pc = "diagnostics"
  /\ receipt' \in {receipt, "complete"}
  /\ pc' = "idle"
  /\ MemoryLost
  /\ UNCHANGED <<runVars, ledger, command, summary, archives>>

\* The process is killed, at any step.
Killed ==
  /\ pc # "idle"
  /\ pc' = "idle"
  /\ MemoryLost
  /\ UNCHANGED <<runVars, diskVars>>

\* Between two runs a summary is lost or altered.
Damaged(c) ==
  /\ pc = "idle" /\ damage < MaxDamage /\ runs < MaxRuns
  /\ damage' = damage + 1
  /\ summary[c].valid
  /\ summary' = [summary EXCEPT ![c].valid = FALSE]
  /\ UNCHANGED <<pc, runs, began, ledger, receipt, command, archives, memoryVars>>

Step == \/ WriteRunning \/ WriteLedger \/ NextBoot \/ QuietBeforeBoot \/ Boot
        \/ NextCell \/ Attempt \/ Bench \/ Summarize \/ Archive \/ Outcome
        \/ GroupFails \/ GroupEnd \/ Final \/ Diagnostics

\* No further run is started.
Finished == pc = "idle" /\ runs = MaxRuns /\ UNCHANGED vars

Next == Start \/ Step \/ Killed \/ (\E c \in Cells : Damaged(c)) \/ Finished

Spec == Init /\ [][Next]_vars

-----------------------------------------------------------------------------

\* The files a clean row rests on are of one and the same measurement.
OneMeasurement(c) == summary[c].id = command[c].id

\* A clean row on disk never stands for files of two different measurements,
\* whenever the process was killed: a resumed run may take the row's word for
\* which measurement its files belong to.
LedgerIsConsistent == \A c \in ledger : OneMeasurement(c)

\* "Reuse only canonical receipts that still satisfy the original contract": a
\* complete receipt is written only when every cell has files of one clean,
\* valid measurement, whatever was killed or damaged before.
CompleteIsEarned ==
  [][ receipt # "complete" /\ receipt' = "complete" =>
        \A c \in Cells : MeetsContract(c) /\ OneMeasurement(c) ]_vars

\* Two files that are written one after the other never contradict each other:
\* while the complete receipt is on disk, every cell is clean in the ledger,
\* also when a resumed run takes marks away and is killed in between.
ReceiptMatchesLedger == receipt = "complete" => ledger = Cells

\* An archived attempt is never written again, and no attempt is lost to a
\* directory that was already there.
ArchiveIsFree == pc = "archive" => attempt \notin archives[cell]

\* A run measures a cell at most twice, whatever earlier runs left of it, how
\* often it was resumed and wherever it was killed: a contaminated cell cannot
\* occupy the GPUs forever.
TwoPerRun == \A c \in Cells : command[c].id <= began[c] + 2
=============================================================================
