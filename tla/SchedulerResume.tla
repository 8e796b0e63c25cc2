-------------------------- MODULE SchedulerResume --------------------------
(***************************************************************************)
(* The scheduler recheck phase (scheduler_recheck_phase.py) and the        *)
(* workload it runs for each plan (agent_workload_recheck.py).             *)
(*                                                                         *)
(* A phase boots one server per boot group and runs the group's plans on   *)
(* it; a plan measures the cells of its grid and rewrites its receipt      *)
(* after every cell.  A phase that was killed is started again, either     *)
(* from nothing or with --resume: then the receipts on disk are judged     *)
(* before anything is touched, complete plans are taken over, partial ones *)
(* measure what is missing, and the phase says of every cell which run     *)
(* measured it.  An operator may change the image or the checkpoint        *)
(* between two runs.                                                       *)
(***************************************************************************)
EXTENDS Naturals, Sequences, FiniteSets

CONSTANTS
  Groups,         \* BOOT_GROUPS, by position: 1 .. n
  PlanGroup,      \* the group of each plan, by position in ALL_PLANS
  CellPlan,       \* the plan of each cell, grid after grid
  LmcacheGroups,  \* groups whose cache_mode is lmcache
  OverlayGroups,  \* groups whose candidate has the overlay's API
  MaxRuns,        \* bound: starts of the phase
  MaxFresh,       \* bound: starts without --resume
  MaxConfigs      \* bound: images and checkpoints the operator uses

Plans == DOMAIN PlanGroup
Cells == DOMAIN CellPlan

ASSUME GroupsAssumption ==
  Groups \in Nat \ {0} /\ LmcacheGroups \cup OverlayGroups \subseteq 1 .. Groups
ASSUME PlansAssumption ==
  /\ PlanGroup \in Seq(1 .. Groups)
  /\ CellPlan \in Seq(Plans) /\ \A p \in Plans : \E c \in Cells : CellPlan[c] = p
ASSUME BoundsAssumption ==
  /\ MaxRuns \in Nat /\ MaxFresh \in Nat /\ MaxConfigs \in Nat \ {0}

\* A cell of a receipt: "unmeasured" are the boundary failures, the failed
\* primes and the exceptions of the harness, "failed" a measurement whose gates
\* did not all pass.  `run` is the run of the phase that measured it.
Statuses == {"none", "complete", "failed", "unmeasured"}
CellRecords == [status : Statuses, run : 0 .. MaxRuns]
NoCell == [status |-> "none", run |-> 0]
States == {"absent", "reusable", "partial", "invalid"}
Points == {"idle", "group", "boot", "discover", "plans", "workload", "stop",
           "finish"}

VARIABLES
  cells,    \* disk: the cells of all receipts
  again,    \* disk: cells the receipts' resume chains list as re-executed
  launch,   \* disk: the configuration each group's launch.json records
  summary,  \* disk: the status of phase-summary.json
  config,   \* the image and checkpoint the operator has set
  history,  \* the starts so far: configuration and --resume
  pc,       \* where the phase is
  group,    \* the group it works on
  triage,   \* what --resume found for each plan
  parsed,   \* the receipts as --resume read them
  plan,     \* the plan whose workload runs
  done,     \* the cells this workload executed
  records,  \* PhaseState.invocations: status of each plan
  labels,   \* the era the records state for each cell
  booted, reused,  \* PhaseState.booted_groups, reused_groups
  sound     \* no entry of PhaseState.errors, all captured facts as required

diskVars   == <<cells, again, launch, summary>>
memoryVars == <<group, triage, parsed, plan, done, records, labels, booted,
                reused, sound>>
vars == <<diskVars, config, history, pc, memoryVars>>

CellsOf(p) == {c \in Cells : CellPlan[c] = p}
PlansOf(g) == {p \in Plans : PlanGroup[p] = g}
GroupOf(c) == PlanGroup[CellPlan[c]]
First(S)   == CHOOSE x \in S : \A y \in S : x <= y
Run        == Len(history)
Resuming   == Run > 0 /\ history[Run].resume
FreshRuns  == {r \in 1 .. Run : ~history[r].resume}

\* The same test in both files: the window was measured and the gates judged.
Terminal(r) == r.status \in {"complete", "failed"}

TypeOK ==
  /\ cells \in [Cells -> CellRecords] /\ again \subseteq Cells
  /\ launch \in [1 .. Groups -> 0 .. MaxConfigs]
  /\ summary \in {"none", "complete", "failed"}
  /\ config \in 1 .. MaxConfigs
  /\ history \in Seq([config : 1 .. MaxConfigs, resume : BOOLEAN])
  /\ Run <= MaxRuns
  /\ pc \in Points /\ group \in 0 .. Groups + 1
  /\ triage \in [Plans -> States] /\ parsed \in [Cells -> CellRecords]
  /\ plan \in Plans \cup {0} /\ done \subseteq Cells
  /\ records \in [Plans -> {"none", "complete", "failed", "unattempted", "raised"}]
  /\ labels \in [Cells -> {"none", "reused", "resumed", "new"}]
  /\ booted \subseteq 1 .. Groups /\ reused \subseteq 1 .. Groups
  /\ sound \in BOOLEAN

\* PhaseState(), and what a run that ended leaves of it.
NoPhase ==
  /\ group' = 0 /\ plan' = 0 /\ done' = {} /\ booted' = {} /\ reused' = {}
  /\ triage' = [p \in Plans |-> "absent"] /\ parsed' = [c \in Cells |-> NoCell]
  /\ records' = [p \in Plans |-> "none"] /\ labels' = [c \in Cells |-> "none"]
  /\ sound' = TRUE

Init ==
  /\ cells = [c \in Cells |-> NoCell] /\ again = {}
  /\ launch = [g \in 1 .. Groups |-> 0] /\ summary = "none"
  /\ config = 1 /\ history = <<>> /\ pc = "idle"
  /\ group = 0 /\ plan = 0 /\ done = {} /\ booted = {} /\ reused = {}
  /\ triage = [p \in Plans |-> "absent"] /\ parsed = [c \in Cells |-> NoCell]
  /\ records = [p \in Plans |-> "none"] /\ labels = [c \in Cells |-> "none"]
  /\ sound = TRUE

-----------------------------------------------------------------------------
(* What --resume makes of the receipts.                                    *)

\* The launch receipt must name the image and the checkpoint of today.
BootMatches(g) == launch[g] = config

\* A receipt exists once a cell was saved; cells that are not terminal are
\* dropped, and a receipt that lacks nothing is taken over as a whole.
PlanState(p) ==
  IF \A c \in CellsOf(p) : cells[c].status = "none" THEN "absent"
  ELSE IF \A c \in CellsOf(p) : Terminal(cells[c]) THEN "reusable"
  ELSE "partial"

\* (mutant) the launch receipts are not compared
Mutant_JudgedByCells(p) == PlanState(p)

\* A receipt is only as good as the boot it is attributed to.
Judged(p) ==
  IF PlanState(p) # "absent" /\ ~BootMatches(PlanGroup[p]) THEN "invalid"
  ELSE PlanState(p)

\* A cell some resumption of its receipt executed keeps that era; every other
\* one counts as measured by the original run.
Era(c) == IF c \in again THEN "resumed" ELSE "reused"

-----------------------------------------------------------------------------
(* main.                                                                   *)

\* --resume finds a receipt it must not use: the phase reports it and touches
\* no service.  (The validation of the plan itself depends on the source alone.)
Refuse ==
  /\ pc = "idle" /\ \E p \in Plans : Judged(p) = "invalid"
  /\ summary' = "failed"
  /\ UNCHANGED <<cells, again, launch, config, history, pc, memoryVars>>

\* A resumption archives the directory of the earlier run, which must exist.
Start(resume) ==
  /\ pc = "idle" /\ Run < MaxRuns
  /\ IF resume THEN Run > 0 /\ \A p \in Plans : Judged(p) # "invalid"
               ELSE Cardinality(FreshRuns) < MaxFresh
  /\ history' = Append(history, [config |-> config, resume |-> resume])
  /\ triage' = [p \in Plans |-> IF resume THEN Judged(p) ELSE "absent"]
  /\ parsed' = IF resume THEN cells ELSE parsed
  /\ group' = 1 /\ pc' = "group"
  /\ UNCHANGED <<diskVars, config, plan, done, records, labels, booted, reused,
                 sound>>

\* (mutant) one group too many
Mutant_NextGroup ==
  /\ group' = group + 1
  /\ pc' = IF group <= Groups THEN "group" ELSE "finish"

NextGroup ==
  /\ group' = group + 1
  /\ pc' = IF group < Groups THEN "group" ELSE "finish"

\* An exception that leaves boot_group ends the loop over the groups.
PhaseRaises ==
  /\ pc \in {"group", "stop"} /\ sound' = FALSE /\ pc' = "finish"
  /\ UNCHANGED <<diskVars, config, history, group, triage, parsed, plan, done,
                 records, labels, booted, reused>>

-----------------------------------------------------------------------------
(* boot_group.                                                             *)

Pending(g) == {p \in PlansOf(g) : triage[p] # "reusable"}

\* The record of a plan taken over whole: judged by its cells alone.
ReusedRecord(p) ==
  IF \A c \in CellsOf(p) : parsed[c].status = "complete" THEN "complete" ELSE "failed"

EnterGroup ==
  /\ pc = "group"
  /\ LET taken == PlansOf(group) \ Pending(group) IN
       /\ records' = [p \in Plans |-> IF p \in taken THEN ReusedRecord(p) ELSE records[p]]
       /\ labels' = [c \in Cells |-> IF CellPlan[c] \in taken THEN Era(c) ELSE labels[c]]
  /\ IF Pending(group) = {}
       THEN NextGroup /\ reused' = reused \cup {group}
       ELSE pc' = "boot" /\ UNCHANGED <<group, reused>>
  /\ UNCHANGED <<diskVars, config, history, triage, parsed, plan, done, booted, sound>>

\* Every pending plan, also one whose record is already there.
MarkUnattempted ==
  records' = [p \in Plans |-> IF p \in Pending(group) THEN "unattempted" ELSE records[p]]

\* runtime.boot writes the launch receipt before docker run, so a boot that
\* fails has replaced it; it raises before that when the port is taken.
Boot(outcome) ==
  /\ pc = "boot"
  /\ launch' = [launch EXCEPT ![group] = IF outcome = "refused" THEN @ ELSE config]
  /\ IF outcome = "healthy"
       THEN /\ booted' = booted \cup {group} /\ pc' = "discover"
            /\ UNCHANGED records
       ELSE MarkUnattempted /\ pc' = "stop" /\ UNCHANGED booted
  /\ sound' = (sound /\ outcome \in {"healthy", "unhealthy"})
  /\ UNCHANGED <<cells, again, summary, config, history, group, triage, parsed,
                 plan, done, labels, reused>>

\* The API has the expected schema, boot structure and effective lanes, or not.
ApiAnswers == {"asRequired", "mismatch", "raised"}

\* Token budget, KV capacity, DMA transport and LMCache storage as required.
FactsHold == BOOLEAN

\* A structural field is refused with 4xx and leaves the state unchanged.
RejectionsHold == IF group \in OverlayGroups THEN BOOLEAN ELSE {TRUE}

\* Only the API stops the group; all of them count at the end.
Discover(api, facts, rejections) ==
  /\ pc = "discover"
  /\ IF api = "asRequired"
       THEN pc' = "plans" /\ UNCHANGED records
       ELSE MarkUnattempted /\ pc' = "stop"
  /\ sound' = (sound /\ api = "asRequired" /\ facts /\ rejections)
  /\ UNCHANGED <<diskVars, config, history, group, triage, parsed, plan, done,
                 labels, booted, reused>>

\* The mutable policy is accepted and read back, or not.
PolicyAnswers == {"configured", "rejected", "raised"}

\* The plans of the group in their order, one at a time.
StartPlan(outcome) ==
  /\ pc = "plans"
  /\ LET todo == {p \in Pending(group) : records[p] = "none"} IN
       /\ todo # {} /\ plan' = First(todo)
  /\ IF outcome = "configured"
       THEN pc' = "workload" /\ UNCHANGED <<records, sound>>
       ELSE /\ records' = [records EXCEPT ![plan'] =
                             IF outcome = "raised" THEN "raised" ELSE "unattempted"]
            /\ sound' = (sound /\ outcome # "raised")
            /\ UNCHANGED pc
  /\ done' = {}
  /\ UNCHANGED <<diskVars, config, history, group, triage, parsed, labels, booted,
                 reused>>

PlansDone ==
  /\ pc = "plans" /\ \A p \in Pending(group) : records[p] # "none"
  /\ pc' = "stop"
  /\ UNCHANGED <<diskVars, config, history, memoryVars>>

\* The finally clause: a last capture, then the container is stopped.
StopGroup ==
  /\ pc = "stop" /\ NextGroup
  /\ sound' \in {sound, sound /\ group \notin booted}
  /\ UNCHANGED <<diskVars, config, history, triage, parsed, plan, done, records,
                 labels, booted, reused>>

-----------------------------------------------------------------------------
(* The workload: agent_workload_recheck.py with or without --resume.       *)

Prior == IF triage[plan] = "partial"
           THEN {c \in CellsOf(plan) : Terminal(parsed[c])} ELSE {}
Missing == CellsOf(plan) \ (Prior \cup done)

\* How a scenario ends: all its gates passed; some did not; or the boundary
\* policy, the primes or the harness failed before anything was measured.
ScenarioEnds == {"complete", "failed", "unmeasured"}

\* (mutant) the cells taken over are not saved with the new ones
Mutant_SaveExecuted(status) ==
  /\ pc = "workload" /\ Missing # {}
  /\ LET c == First(Missing) IN
       /\ done' = done \cup {c}
       /\ cells' = [d \in Cells |->
            IF d = c THEN [status |-> status, run |-> Run]
            ELSE IF d \in CellsOf(plan) \ done THEN NoCell
            ELSE cells[d]]
       /\ again' = IF triage[plan] = "partial" THEN again \cup {c}
                                               ELSE again \ CellsOf(plan)
  /\ UNCHANGED <<launch, summary, config, history, pc, group, triage, parsed, plan,
                 records, labels, booted, reused, sound>>

\* One scenario, whose receipt is saved with the cells taken over and the
\* cells executed so far: whatever else the file held is gone.
MeasureCell(status) ==
  /\ pc = "workload" /\ Missing # {}
  /\ LET c == First(Missing) IN
       /\ done' = done \cup {c}
       /\ cells' = [d \in Cells |->
            IF d = c THEN [status |-> status, run |-> Run]
            ELSE IF d \in CellsOf(plan) \ (Prior \cup done) THEN NoCell
            ELSE cells[d]]
       /\ again' = IF triage[plan] = "partial" THEN again \cup {c}
                                               ELSE again \ CellsOf(plan)
  /\ UNCHANGED <<launch, summary, config, history, pc, group, triage, parsed, plan,
                 records, labels, booted, reused, sound>>

\* The exit code of a workload that got through its grid; one that dies before,
\* or is timed out, has another.
ExitsZero(zero) ==
  zero => Missing = {} /\ \A c \in CellsOf(plan) : cells[c].status = "complete"

\* (mutant) the exit code is not looked at
Mutant_QualifiedByFile(zero) ==
  \A c \in CellsOf(plan) : cells[c].status = "complete"

\* What run_workload_plan reads back: the file, whoever wrote it last.
Qualified(zero) ==
  /\ zero
  /\ \A c \in CellsOf(plan) : cells[c].status = "complete"
  /\ \A c \in Prior : cells[c] = parsed[c]

\* Only a record of a resumed phase states eras.
LabelsAfter ==
  [c \in Cells |->
     IF ~Resuming \/ CellPlan[c] # plan \/ cells[c].status = "none" THEN labels[c]
     ELSE IF c \in Prior THEN Era(c) ELSE "new"]

EndWorkload(zero, captured) ==
  /\ pc = "workload" /\ ExitsZero(zero)
  /\ records' = [records EXCEPT ![plan] =
                   IF Qualified(zero) /\ captured THEN "complete" ELSE "failed"]
  /\ labels' = LabelsAfter
  /\ sound' = (sound /\ captured)
  /\ pc' = "plans"
  /\ UNCHANGED <<diskVars, config, history, group, triage, parsed, plan, done,
                 booted, reused>>

\* An exception inside run_workload_plan.
WorkloadRaises ==
  /\ pc = "workload" /\ pc' = "plans"
  /\ records' = [records EXCEPT ![plan] = "raised"] /\ sound' = FALSE
  /\ UNCHANGED <<diskVars, config, history, group, triage, parsed, plan, done,
                 labels, booted, reused>>

-----------------------------------------------------------------------------
(* The end.                                                                *)

\* compare_trace_group over the members of each group of plans: the traces are
\* seeded, so they agree where every member has its cells.
TracesEqual == \A c \in Cells : Terminal(cells[c])

\* (mutant) attempted plans count as qualified
Mutant_ChecksAttempted ==
  /\ booted \cup reused = 1 .. Groups
  /\ \A p \in Plans : records[p] # "none"
  /\ TracesEqual
  /\ LmcacheGroups \cap reused = {}
  /\ sound

Checks ==
  /\ booted \cup reused = 1 .. Groups
  /\ \A p \in Plans : records[p] = "complete"
  /\ TracesEqual
  /\ LmcacheGroups \cap reused = {}
  /\ sound

Finish ==
  /\ pc = "finish" /\ pc' = "idle" /\ NoPhase
  /\ summary' = IF Checks THEN "complete" ELSE "failed"
  /\ UNCHANGED <<cells, again, launch, config, history>>

\* SIGKILL, a reboot: everything in memory is gone.  (The workload client, in a
\* session of its own, is taken to go with it.)
Killed ==
  /\ pc # "idle" /\ pc' = "idle" /\ NoPhase
  /\ UNCHANGED <<diskVars, config, history>>

\* Another image or checkpoint, between two runs.
Reconfigure ==
  /\ pc = "idle" /\ config < MaxConfigs /\ config' = config + 1
  /\ UNCHANGED <<diskVars, history, pc, memoryVars>>

RunStep ==
  \/ PhaseRaises \/ EnterGroup \/ PlansDone \/ StopGroup \/ WorkloadRaises \/ Finish
  \/ \E o \in {"healthy", "unhealthy", "raised", "refused"} : Boot(o)
  \/ \E api \in ApiAnswers, facts \in FactsHold, rejections \in RejectionsHold :
       Discover(api, facts, rejections)
  \/ \E o \in PolicyAnswers : StartPlan(o)
  \/ \E s \in ScenarioEnds : MeasureCell(s)
  \/ \E zero, captured \in BOOLEAN : EndWorkload(zero, captured)

Next ==
  \/ RunStep \/ Refuse \/ Killed \/ Reconfigure
  \/ \E resume \in BOOLEAN : Start(resume)

Spec == Init /\ [][Next]_vars

-----------------------------------------------------------------------------
(* Properties.                                                             *)

\* While a resumed phase runs, no measurement on disk is lost, changed or made
\* again: not those it takes over, nor those it has made itself.
ResumeKeepsMeasurements ==
  [][pc # "idle" /\ Resuming =>
       \A c \in Cells : Terminal(cells[c]) => cells'[c] = cells[c]]_vars

\* The receipts a summary of status complete stands for: all cells complete, a
\* run from nothing measured them all itself, a resumed one booted exactly the
\* groups that lacked something, both LMCache groups among them.
CompleteIsEarned ==
  [][Finish /\ summary' = "complete" =>
       /\ \A c \in Cells : cells[c].status = "complete"
       /\ \A c \in Cells : Resuming \/ cells[c].run = Run
       /\ \A g \in 1 .. Groups :
            g \in booted <=> \E c \in Cells : GroupOf(c) = g /\ cells[c].run = Run
       /\ LmcacheGroups \subseteq booted]_vars

\* A plan recorded as complete has all its cells complete on disk, measured by
\* this run or found by --resume: an older file at its place never passes for
\* the plan's result.
RecordsAreCurrent ==
  \A p \in Plans : records[p] = "complete" =>
    \A c \in CellsOf(p) :
      /\ cells[c].status = "complete"
      /\ \/ cells[c].run = Run
         \/ Resuming /\ cells[c] = parsed[c]

\* A measurement said to stem from a resumed run does, and one said to be new
\* was made by this run.  (A cell that never was measured keeps its entry, and
\* is called new, when the workload that should repeat it dies before it saves.)
LateErasAreTrue ==
  \A c \in Cells :
    /\ labels[c] = "resumed" => history[cells[c].run].resume /\ cells[c].run < Run
    /\ labels[c] = "new" /\ Terminal(cells[c]) => cells[c].run = Run

\* A cell said to stem from the original run was not measured by a resumption.
OriginalEraIsTrue ==
  \A c \in Cells : labels[c] = "reused" => ~history[cells[c].run].resume

\* Every cell taken over was measured with today's image and checkpoint.
ReusedUnderItsBoot ==
  \A c \in Cells : labels[c] \in {"reused", "resumed"} =>
    history[cells[c].run].config = config

\* So it is as long as the phase, once begun, is only ever resumed.
ReusedUnderItsBootIfResumed == FreshRuns \subseteq {1} => ReusedUnderItsBoot

\* What a summary says of the origin of its cells: the resumed and the new ones
\* were measured when it says, and everything taken over under this very boot.
LabelsAreTrue == LateErasAreTrue /\ ReusedUnderItsBootIfResumed
=============================================================================
