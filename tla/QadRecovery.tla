---------------------------- MODULE QadRecovery ----------------------------
(***************************************************************************)
(* The recoveries of the QAD battery.  continue_qad_battery.py (stage 1)   *)
(* keeps the one phase that was measured before the first GPU fault and    *)
(* runs the coordinator on the rest of the plan, in a root of its own;     *)
(* continue_qad_tail.py (stage 2) keeps the phases stage 1 recorded before *)
(* the second fault and runs the coordinator on what was left.             *)
(*                                                                         *)
(* The coordinator knows nothing of the kept phases: it writes its own     *)
(* plan, progress and execution ledger over the root's.  `execute` puts    *)
(* the two halves together in the except, else and finally clauses around  *)
(* it, and an interrupt or a kill can hit any of them.                     *)
(*                                                                         *)
(* Every file is written under <name>.tmp and renamed.  The coordinator's  *)
(* save_json overwrites a .tmp that is in the way; atomic_write, with      *)
(* which the recoveries write, is refused by it.                           *)
(***************************************************************************)
EXTENDS Naturals, Sequences

CONSTANTS
  Last,           \* number of phases of PINNED_PHASES
  TailFrom,       \* EXPECTED_RECORDED_PHASES
  MaxInterrupts   \* bound: KeyboardInterrupts

ASSUME PlanAssumption ==
  /\ Last \in Nat /\ TailFrom \in Nat
  /\ 1 < TailFrom /\ TailFrom < Last
ASSUME InterruptsAssumption == MaxInterrupts \in Nat

Stages == {1, 2}
Phases == 1 .. Last
Codes  == {"ok", "failed"}
Rows   == [phase : Phases, code : Codes]
Saved   == {"plan", "progress", "executed"}
Ledgers == [kind : {"none", "rest", "merged"}, rows : Seq(Rows)]

VARIABLES
  stage,        \* the recovery that runs, or ran last
  pc,           \* where it is; "idle" when none runs
  interrupts,   \* KeyboardInterrupts so far
  outcome,      \* how each stage ended; "refused": by a require of its finally
                \* clause, "broken": without getting through that clause
  plan,         \* disk: phase-plan.json
  progress,     \* disk: phase-progress.json
  executed,     \* disk: qualification-executed.json
  interrupted,  \* disk: qualification-interrupted.json, its completed_phases
  receipts,     \* disk: phase-*.command.json
  tailProgress, \* disk: tail-progress.json
  stale,        \* disk: which of Saved has left its .tmp in the stage's root
  kept,         \* memory: rows of the source root
  completed,    \* memory: the coordinator's list of that name
  raised        \* memory: an exception left coordinator.main

diskVars   == <<plan, progress, executed, interrupted, receipts, tailProgress,
              stale>>
memoryVars == <<kept, completed, raised>>
vars == <<stage, pc, interrupts, outcome, diskVars, memoryVars>>

NoReceipts == [p \in Phases |-> "none"]
NoLedger   == [kind |-> "none", rows |-> <<>>]
FirstRow   == [phase |-> 1, code |-> "ok"]

\* Points before the try of `execute`, inside coordinator.main, and after it.
StagingPoints == {"copy", "seedPlan", "seedProgress"}
TryPoints     == {"main", "before", "launch", "phase", "record", "save",
                  "stop", "execute", "leave"}
AfterPoints   == {"except", "restore", "merge", "plan", "progress"}

TypeOK ==
  /\ stage \in Stages
  /\ pc \in StagingPoints \cup TryPoints \cup AfterPoints \cup {"idle"}
  /\ interrupts \in 0 .. MaxInterrupts
  /\ outcome \in [Stages -> {"none", "complete", "failed", "refused",
                            "broken"}]
  /\ plan \in [Stages -> {"none", "pinned", "rest"}]
  /\ progress \in [Stages -> Seq(Rows)]
  /\ executed \in [Stages -> Ledgers] /\ interrupted \in [Stages -> Ledgers]
  /\ \A s \in Stages :
       /\ Len(progress[s]) <= Last /\ Len(executed[s].rows) <= Last
       /\ Len(interrupted[s].rows) <= Last
  /\ receipts \in [Stages -> [Phases -> Codes \cup {"none"}]]
  /\ tailProgress \in BOOLEAN /\ stale \subseteq Saved
  /\ kept \in Seq(Rows) /\ completed \in Seq(Rows)
  /\ Len(kept) + Len(completed) <= Last
  /\ raised \in BOOLEAN

Init ==
  /\ stage = 1 /\ pc = "copy" /\ interrupts = 0
  /\ outcome = [s \in Stages |-> "none"]
  /\ plan = [s \in Stages |-> "none"]
  /\ progress = [s \in Stages |-> <<>>]
  /\ executed = [s \in Stages |-> NoLedger]
  /\ interrupted = [s \in Stages |-> NoLedger]
  /\ receipts = [s \in Stages |-> NoReceipts]
  /\ tailProgress = FALSE /\ stale = {}
  /\ kept = <<FirstRow>> /\ completed = <<>> /\ raised = FALSE

-----------------------------------------------------------------------------
(* Helpers.                                                                *)

Goto(p) == pc' = p
At(p)   == pc = p

\* Rows in the order of the plan, from a phase on.
InPlanOrder(rows, first) ==
  /\ first + Len(rows) - 1 <= Last
  /\ \A n \in 1 .. Len(rows) : rows[n].phase = first + n - 1

\* Every row's return code is its invocation receipt's.
Backed(s, rows) ==
  \A n \in 1 .. Len(rows) : receipts[s][rows[n].phase] = rows[n].code

\* coordinator.PHASES starts after the kept phases.
NextPhase == Len(kept) + Len(completed) + 1

\* rt.save_json wrote over the .tmp of a file and renamed it.
Renamed(file) == stale' = stale \ {file}

\* The file that is written at this point, under its .tmp until the rename.
Writes ==
  CASE pc \in {"seedPlan", "main", "plan"} -> {"plan"}
    [] pc \in {"seedProgress", "save", "progress"} -> {"progress"}
    [] pc = "execute" -> {"executed"}
    [] pc = "merge" /\ executed[stage].kind # "none" -> {"executed"}
    [] OTHER -> {}

\* Who is stopped in the middle of a write may leave its .tmp.
LeavesTemporary == \E left \in SUBSET Writes : stale' = stale \cup left

\* The stage ends and what it knew is gone.
End(how) ==
  /\ Goto("idle")
  /\ outcome' = [outcome EXCEPT ![stage] = how]
  /\ kept' = <<>> /\ completed' = <<>> /\ raised' = FALSE

-----------------------------------------------------------------------------
(* execute, before the coordinator.                                        *)

\* validate_source of the tail: the root of stage 1 has the pinned plan, the
\* expected rows, their receipts, and an interruption that agrees with them.
SourceIsValid ==
  /\ outcome[1] # "none"
  /\ plan[1] = "pinned"
  /\ Len(progress[1]) = TailFrom /\ InPlanOrder(progress[1], 1)
  /\ Backed(1, progress[1])
  /\ interrupted[1].kind # "none"
  /\ interrupted[1].rows = Tail(progress[1])

\* The tail is started by hand, with a hold receipt for the fault.
StartTail ==
  /\ At("idle") /\ stage = 1
  /\ SourceIsValid
  /\ stage' = 2
  /\ kept' = progress[1]
  /\ Goto("copy")
  /\ UNCHANGED <<interrupts, outcome, diskVars, completed, raised>>

\* copy_preserved takes the first phase's files, copy_evidence everything but
\* progress, interruption and the other operational files: also a .tmp.
CopyEvidence ==
  /\ At("copy")
  /\ receipts' = [receipts EXCEPT ![stage] =
                    IF stage = 1 THEN [NoReceipts EXCEPT ![1] = "ok"]
                    ELSE receipts[1]]
  /\ executed' = [executed EXCEPT ![stage] =
                    IF stage = 1 THEN NoLedger ELSE executed[1]]
  /\ Goto("seedPlan")
  /\ UNCHANGED <<stage, interrupts, outcome, plan, progress, interrupted,
        tailProgress, stale, memoryVars>>

SeedPlan ==
  /\ At("seedPlan") /\ "plan" \notin stale
  /\ plan' = [plan EXCEPT ![stage] = "pinned"]
  /\ Goto("seedProgress")
  /\ UNCHANGED <<stage, interrupts, outcome, progress, executed, interrupted,
        receipts, tailProgress, stale, memoryVars>>

SeedProgress ==
  /\ At("seedProgress") /\ "progress" \notin stale
  /\ progress' = [progress EXCEPT ![stage] = kept]
  /\ Goto("main")
  /\ UNCHANGED <<stage, interrupts, outcome, plan, executed, interrupted,
        receipts, tailProgress, stale, memoryVars>>

-----------------------------------------------------------------------------
(* coordinator.main.                                                       *)

\* It writes its own plan, before its try.
WritePlan ==
  /\ At("main")
  /\ plan' = [plan EXCEPT ![stage] = "rest"]
  /\ Renamed("plan")
  /\ Goto("before")
  /\ UNCHANGED <<stage, interrupts, outcome, progress, executed, interrupted,
        receipts, tailProgress, memoryVars>>

\* Production is idle, healthy and paused; or the run is refused.
Prepare ==
  /\ At("before")
  /\ pc' \in {"launch", "except"}
  /\ UNCHANGED <<stage, interrupts, outcome, diskVars, memoryVars>>

Launch ==
  /\ At("launch")
  /\ Goto(IF NextPhase <= Last THEN "phase" ELSE "execute")
  /\ UNCHANGED <<stage, interrupts, outcome, diskVars, memoryVars>>

\* rt.run returns: it has left the phase's command receipt.
PhaseEnds ==
  /\ At("phase")
  /\ \E code \in Codes :
       receipts' = [receipts EXCEPT ![stage][NextPhase] = code]
  /\ Goto("record")
  /\ UNCHANGED <<stage, interrupts, outcome, plan, progress, executed,
        interrupted, tailProgress, stale, memoryVars>>

RecordPhase ==
  /\ At("record")
  /\ completed' = Append(completed, [phase |-> NextPhase,
                                     code |-> receipts[stage][NextPhase]])
  /\ Goto("save")
  /\ UNCHANGED <<stage, interrupts, outcome, diskVars, kept, raised>>

\* phase-progress.json becomes the coordinator's.
SaveProgress ==
  /\ At("save")
  /\ progress' = [progress EXCEPT ![stage] = completed]
  /\ Renamed("progress")
  /\ Goto("stop")
  /\ UNCHANGED <<stage, interrupts, outcome, plan, executed, interrupted,
        receipts, tailProgress, memoryVars>>

\* rt.stop returns or raises.
StopContainer ==
  /\ At("stop")
  /\ pc' \in {"launch", "except"}
  /\ UNCHANGED <<stage, interrupts, outcome, diskVars, memoryVars>>

WriteExecuted ==
  /\ At("execute")
  /\ executed' = [executed EXCEPT ![stage] =
                    [kind |-> "rest", rows |-> completed]]
  /\ Renamed("executed")
  /\ Goto("leave")
  /\ UNCHANGED <<stage, interrupts, outcome, plan, progress, interrupted,
        receipts, tailProgress, memoryVars>>

LeaveTry ==
  /\ At("leave")
  /\ Goto("restore")
  /\ UNCHANGED <<stage, interrupts, outcome, diskVars, memoryVars>>

WriteInterrupted ==
  /\ At("except")
  /\ interrupted' = [interrupted EXCEPT ![stage] =
                       [kind |-> "rest", rows |-> completed]]
  /\ raised' = TRUE
  /\ Goto("restore")
  /\ UNCHANGED <<stage, interrupts, outcome, plan, progress, executed, receipts,
        tailProgress, stale, kept, completed>>

\* The coordinator's finally: production is restored, or that raises too.
RestoreProduction ==
  /\ At("restore")
  /\ raised' \in {raised, TRUE}
  /\ Goto("merge")
  /\ UNCHANGED <<stage, interrupts, outcome, diskVars, kept, completed>>

-----------------------------------------------------------------------------
(* execute, after the coordinator.  A require of the merge, or one on the  *)
(* rows of the restoration, that fails has no action: StaleOnly says that  *)
(* none ever does.  A .tmp in the way of the restoration does refuse it.   *)

\* validate_remaining_execution, validate_tail_execution: the coordinator's
\* ledger is the rest of the plan, and its receipts are there.
ExecutionIsValid ==
  LET rows == executed[stage].rows IN
    /\ Len(rows) = Last - Len(kept)
    /\ InPlanOrder(rows, Len(kept) + 1)
    /\ Backed(stage, rows)

\* Without a ledger, only a coordinator that raised is no error; with one, it
\* is replaced by the merged one with atomic_write.
MayMerge ==
  IF executed[stage].kind = "none"
    THEN raised
    ELSE ExecutionIsValid /\ "executed" \notin stale

\* Mutant: what was recorded is merged, executed or not.
Mutant_MergeRecorded ==
  /\ At("merge")
  /\ executed' = [executed EXCEPT ![stage] =
                    [kind |-> "merged", rows |-> kept \o completed]]
  /\ Goto("plan")
  /\ UNCHANGED <<stage, interrupts, outcome, plan, progress, interrupted,
        receipts, tailProgress, stale, memoryVars>>

\* merge_execution with an execution ledger: kept rows, then its rows.
Merge ==
  /\ At("merge")
  /\ executed[stage].kind # "none" /\ MayMerge
  /\ executed' = [executed EXCEPT ![stage] =
                    [kind |-> "merged", rows |-> kept \o @.rows]]
  /\ Goto("plan")
  /\ UNCHANGED <<stage, interrupts, outcome, plan, progress, interrupted,
        receipts, tailProgress, stale, memoryVars>>

\* ... without one, after an exception: the tail leaves its tail-progress.
NothingToMerge ==
  /\ At("merge")
  /\ executed[stage].kind = "none" /\ raised
  /\ tailProgress' = (tailProgress \/ stage = 2)
  /\ Goto("plan")
  /\ UNCHANGED <<stage, interrupts, outcome, plan, progress, executed,
        interrupted, receipts, stale, memoryVars>>

RestorePlan ==
  /\ At("plan") /\ "plan" \notin stale
  /\ plan' = [plan EXCEPT ![stage] = "pinned"]
  /\ Goto("progress")
  /\ UNCHANGED <<stage, interrupts, outcome, progress, executed, interrupted,
        receipts, tailProgress, stale, memoryVars>>

\* Mutant: the preserved rows are not told from fresh ones.
Mutant_AllFresh == progress[stage]

\* remaining_progress drops the reused first row, fresh_progress_rows knows
\* the preserved rows when the coordinator has not replaced them.
FreshRows ==
  LET rows == progress[stage] IN
    IF stage = 1
      THEN IF rows # <<>> /\ Head(rows).phase = 1 THEN Tail(rows) ELSE rows
      ELSE IF rows = kept THEN <<>> ELSE rows

\* A prefix of the rest of the plan, and after a merge the tail's ledger's.
MayRestore ==
  /\ InPlanOrder(FreshRows, Len(kept) + 1)
  /\ stage = 2 /\ ~raised => executed[2].rows = kept \o FreshRows

\* Mutant: the coordinator's progress stays.
Mutant_LeaveProgress ==
  /\ At("progress") /\ MayRestore /\ "progress" \notin stale
  /\ End(IF raised THEN "failed" ELSE "complete")
  /\ UNCHANGED <<stage, interrupts, diskVars>>

RestoreProgress ==
  /\ At("progress") /\ MayRestore /\ "progress" \notin stale
  /\ progress' = [progress EXCEPT ![stage] = kept \o FreshRows]
  /\ End(IF raised THEN "failed" ELSE "complete")
  /\ UNCHANGED <<stage, interrupts, plan, executed, interrupted, receipts,
        tailProgress, stale>>

\* atomic_write finds the .tmp of the plan or of the progress and raises, out
\* of the finally clause.
RestoreRefused ==
  /\ pc \in {"plan", "progress"} /\ pc \in stale
  /\ At("progress") => MayRestore
  /\ End("refused")
  /\ UNCHANGED <<stage, interrupts, diskVars>>

-----------------------------------------------------------------------------

\* KeyboardInterrupt, wherever the main thread is, also between the write of a
\* .tmp and its rename.
Interrupt ==
  /\ interrupts < MaxInterrupts
  /\ interrupts' = interrupts + 1
  /\ \/ /\ pc \in StagingPoints \cup {"plan", "progress"}
        /\ End("broken")
     \/ /\ pc \in {"main", "before"}       \* not in the try yet
        /\ raised' = TRUE /\ Goto("merge")
        /\ UNCHANGED <<outcome, kept, completed>>
     \/ /\ pc \in TryPoints \ {"main"}
        /\ Goto("except")
        /\ UNCHANGED <<outcome, memoryVars>>
     \/ /\ pc \in {"except", "restore", "merge"}
        /\ raised' = TRUE
        /\ Goto(CASE pc = "except" -> "restore" [] pc = "restore" -> "merge"
                  [] OTHER -> "plan")
        /\ UNCHANGED <<outcome, kept, completed>>
  /\ LeavesTemporary
  /\ UNCHANGED <<stage, plan, progress, executed, interrupted, receipts,
        tailProgress>>

\* The machine or the process goes down: no finally.
Killed ==
  /\ pc # "idle"
  /\ End("broken")
  /\ LeavesTemporary
  /\ UNCHANGED <<stage, interrupts, plan, progress, executed, interrupted,
        receipts, tailProgress>>

Step == \/ CopyEvidence \/ SeedPlan \/ SeedProgress \/ WritePlan \/ Prepare
        \/ Launch \/ PhaseEnds \/ RecordPhase \/ SaveProgress \/ StopContainer
        \/ WriteExecuted \/ LeaveTry \/ WriteInterrupted \/ RestoreProduction
        \/ Merge \/ NothingToMerge \/ RestorePlan \/ RestoreProgress
        \/ RestoreRefused

\* No recovery runs, and none can be started.
Over == At("idle") /\ (stage = 2 \/ ~SourceIsValid) /\ UNCHANGED vars

Next == StartTail \/ Step \/ Interrupt \/ Killed \/ Over

Spec == Init /\ [][Next]_vars

-----------------------------------------------------------------------------

\* "The full eleven-phase ledger is written only after both tail phases have
\* actual invocation receipts": a merged ledger has every phase of the plan
\* once, in order, each with the return code of the receipt beside it.
LedgerEarned ==
  \A s \in Stages :
    executed[s].kind = "merged" =>
      LET rows == executed[s].rows IN
        Len(rows) = Last /\ InPlanOrder(rows, 1) /\ Backed(s, rows)

\* How many rows a stage keeps.
KeptBy(s) == IF s = 1 THEN 1 ELSE TailFrom

\* Whole plan; the kept phases, then those its coordinator recorded.
Restored(s) ==
  /\ plan[s] = "pinned"
  /\ Len(progress[s]) >= KeptBy(s)
  /\ InPlanOrder(progress[s], 1) /\ Backed(s, progress[s])
  /\ executed[s].kind = "merged" => progress[s] = executed[s].rows

\* Whole plan; the kept phases alone, or those of the coordinator alone.
HalfRestored(s) ==
  /\ plan[s] = "pinned"
  /\ \/ InPlanOrder(progress[s], 1) /\ Len(progress[s]) = KeptBy(s)
     \/ InPlanOrder(progress[s], KeptBy(s) + 1)
  /\ Backed(s, progress[s])
  /\ executed[s].kind = "none"

\* A recovery that left its finally clause, however its coordinator ended, has
\* the whole plan on disk again and lost no row: the kept phases are followed
\* by those its coordinator recorded, and a merged ledger says the same.  One
\* that was refused there by a .tmp has the whole plan too, but its progress is
\* the kept rows or the coordinator's, one of the two: each backed by its
\* receipt, and no ledger claims more.
EvidenceSurvives ==
  \A s \in Stages :
    /\ outcome[s] \in {"complete", "failed"} => Restored(s)
    /\ outcome[s] = "refused" => HalfRestored(s)

\* Only a .tmp refuses a recovery, and only its restoration: one left by an
\* interrupt in a save of the coordinator, which therefore raised and has no
\* ledger.  No require on the ledger or on the rows ever fails, and the .tmp of
\* stage 1 never gets into the root of the tail.
StaleOnly ==
  /\ pc \in StagingPoints => stale = {}
  /\ At("merge") => MayMerge
  /\ At("progress") => MayRestore
  /\ pc \in {"plan", "progress"} /\ pc \in stale =>
       raised /\ interrupts > 0 /\ executed[stage].kind = "none"

\* A recovery's coordinator starts without an execution ledger in its root, so
\* that one found later is its own.
OwnLedger == At("main") => executed[stage].kind = "none"
=============================================================================
