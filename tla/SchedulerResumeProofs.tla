----------------------- MODULE SchedulerResumeProofs -----------------------
(***************************************************************************)
(* What SchedulerResume promises, for every plan of groups, plans and      *)
(* cells, and every number of starts and configurations.                   *)
(***************************************************************************)
EXTENDS SchedulerResume, WellFoundedInduction, TLAPS

Active   == pc # "idle"
Known(c) == cells[c].status # "none"
IsPending(p, g) == p \in Plans /\ PlanGroup[p] = g /\ triage[p] # "reusable"

\* A phase that does not run remembers nothing; one that runs has a start of
\* its own, a group, and in it a booted server and a pending plan.
Phase ==
  /\ pc = "idle" =>
       /\ booted = {} /\ \A p \in Plans : records[p] = "none"
       /\ \A c \in Cells : labels[c] = "none"
  /\ Active => Run > 0 /\ history[Run].config = config
  /\ pc \notin {"idle", "finish"} => group \in 1 .. Groups
  /\ pc = "boot" => \E p \in Plans : IsPending(p, group)
  /\ pc \in {"discover", "plans", "workload"} => group \in booted
  /\ pc = "workload" => IsPending(plan, group) /\ records[plan] = "none"
  /\ \A g \in booted : launch[g] = config /\ \E p \in Plans : IsPending(p, g)

\* Every measurement has its run, and those of this run their booted server.
Measured ==
  /\ \A c \in Cells : cells[c].run \in 0 .. Run
  /\ \A c \in Cells : Known(c) => cells[c].run > 0
  /\ Active => \A c \in Cells : cells[c].run = Run => GroupOf(c) \in booted

\* The judgement of the receipts, and the receipts as they were judged.
Found ==
  /\ Active /\ ~Resuming => \A p \in Plans : triage[p] = "absent"
  /\ Active /\ Resuming =>
       /\ \A c \in Cells : parsed[c].status # "none" => parsed[c].run < Run
       /\ \A p \in Plans : triage[p] # "invalid"
       /\ \A c \in Cells :
            /\ triage[CellPlan[c]] = "reusable" => Terminal(parsed[c])
            /\ triage[CellPlan[c]] = "absent" => parsed[c].status = "none"
       /\ \A p \in Plans : triage[p] = "partial" =>
            \E c \in CellsOf(p) : ~Terminal(parsed[c])

\* What is terminal on disk when it is judged stays, and so does everything of
\* a plan whose turn has not come.
Kept ==
  Active /\ Resuming => \A c \in Cells :
    /\ Terminal(parsed[c]) => cells[c] = parsed[c]
    /\ records[CellPlan[c]] = "none" /\ ~(pc = "workload" /\ plan = CellPlan[c])
         => cells[c] = parsed[c]

\* The cells of the workload: executed by this run, taken over, or still to do.
Working ==
  pc = "workload" => \A c \in CellsOf(plan) :
    /\ c \in done => cells[c].run = Run /\ c \notin Prior
    /\ Resuming /\ c \in Missing => ~Terminal(cells[c])

\* Labels come with the record of the plan.
Labelled ==
  \A c \in Cells :
    /\ labels[c] # "none" => records[CellPlan[c]] # "none"
    /\ labels[c] \in {"reused", "resumed"} => Terminal(cells[c])

\* Cells listed as re-executed were measured by a resumption.
AgainIsResumed ==
  \A c \in again : Known(c) => history[cells[c].run].resume

\* Without a second fresh start every receipt is of its group's last launch, and
\* while a phase runs all of them are of its configuration.
Lineage ==
  FreshRuns \subseteq {1} => \A c \in Cells : Known(c) =>
    /\ launch[GroupOf(c)] = history[cells[c].run].config
    /\ Active => history[cells[c].run].config = config

\* The inductive invariant.
IInv ==
  /\ TypeOK /\ Phase /\ Measured /\ Found /\ Kept /\ Working
  /\ Labelled /\ AgainIsResumed /\ Lineage
  /\ RecordsAreCurrent /\ LateErasAreTrue


-----------------------------------------------------------------------------


\* Plans, groups and cells are the indices of the sequences.
LEMMA Indices ==
  /\ Plans \subseteq Nat \ {0} /\ Cells \subseteq Nat \ {0}
  /\ \A p \in Plans : PlanGroup[p] \in 1 .. Groups
  /\ \A c \in Cells : CellPlan[c] \in Plans /\ GroupOf(c) \in 1 .. Groups
<1>1. PlanGroup \in Seq(1 .. Groups) /\ CellPlan \in Seq(Plans)
  BY PlansAssumption
<1> DEFINE G == 1 .. Groups
<1>2. Plans = 1 .. Len(PlanGroup) /\ \A p \in Plans : PlanGroup[p] \in G
  <2>1. PlanGroup \in Seq(G)
    BY <1>1
  <2> HIDE DEF G
  <2> QED
    BY <2>1 DEF Plans
<1>3. Cells = 1 .. Len(CellPlan) /\ \A c \in Cells : CellPlan[c] \in Plans
  BY <1>1 DEF Cells
<1>4. Len(PlanGroup) \in Nat /\ Len(CellPlan) \in Nat
  BY <1>1
<1> QED
  BY <1>2, <1>3, <1>4 DEF GroupOf

\* A set of indices has a first one.
LEMMA FirstIsIn ==
  ASSUME NEW S, S \subseteq Nat, S # {}
  PROVE  First(S) \in S
<1>1. PICK x \in S : \A y \in S : ~ (<<y, x>> \in OpToRel(<, Nat))
  BY NatLessThanWellFounded, WFMin
<1>2. \A y \in S : ~ (y < x)
  BY <1>1, Zenon DEF OpToRel
<1>3. \A y \in S : x <= y
  BY <1>2
<1> QED
  BY <1>3 DEF First


\* Every step keeps the types.
LEMMA TypeStep ==
  ASSUME TypeOK, Phase, [Next]_vars
  PROVE  TypeOK'
<1> USE GroupsAssumption, BoundsAssumption, Indices DEF TypeOK, diskVars, memoryVars
<1>0. pc \notin {"idle", "finish"} => group \in 1 .. Groups
  BY DEF Phase
<1>1. CASE \E resume \in BOOLEAN : Start(resume)
  <2>1. PICK resume \in BOOLEAN : Start(resume)
    BY <1>1
  <2>2. history' \in Seq([config : 1 .. MaxConfigs, resume : BOOLEAN]) /\ Run' <= MaxRuns
    BY <2>1 DEF Start, Run
  <2>3. triage' \in [Plans -> States]
    BY <2>1 DEF Start, Judged, PlanState, States
  <2>4. parsed' \in [Cells -> CellRecords]
    BY <2>1 DEF Start
  <2>5. group' \in 0 .. Groups + 1 /\ pc' \in Points
    BY <2>1 DEF Start, Points
  <2>6. UNCHANGED <<diskVars, config, plan, done, records, labels, booted, reused, sound>>
    BY <2>1 DEF Start
  <2> QED
    BY <2>2, <2>3, <2>4, <2>5, <2>6
<1>2. CASE Refuse
  BY <1>2, <1>0 DEF Refuse, Points, Run, States, CellRecords, NoCell, Statuses
<1>3. CASE Killed
  BY <1>3, <1>0 DEF Killed, NoPhase, Points, Run, States, CellRecords, NoCell, Statuses
<1>4. CASE Reconfigure
  BY <1>4, <1>0 DEF Reconfigure, Points, Run, States, CellRecords, NoCell, Statuses
<1>5. CASE PhaseRaises
  BY <1>5, <1>0 DEF PhaseRaises, Points, Run, States, CellRecords, NoCell, Statuses
<1>6. CASE EnterGroup
  <2>1. records' \in [Plans -> {"none", "complete", "failed", "unattempted", "raised"}]
    BY <1>6, <1>0 DEF EnterGroup, ReusedRecord
  <2>2. labels' \in [Cells -> {"none", "reused", "resumed", "new"}]
    BY <1>6, <1>0 DEF EnterGroup, Era
  <2>3. group' \in 0 .. Groups + 1 /\ pc' \in Points
    BY <1>6, <1>0 DEF EnterGroup, NextGroup, Points
  <2>4. reused' \subseteq 1 .. Groups
    BY <1>6, <1>0 DEF EnterGroup
  <2> QED
    BY <1>6, <2>1, <2>2, <2>3, <2>4 DEF EnterGroup, Run
<1>7. CASE \E o \in {"healthy", "unhealthy", "raised", "refused"} : Boot(o)
  <2>1. PICK o \in {"healthy", "unhealthy", "raised", "refused"} : Boot(o)
    BY <1>7
  <2>2. launch' \in [1 .. Groups -> 0 .. MaxConfigs]
    BY <1>0, <2>1 DEF Boot
  <2>3. records' \in [Plans -> {"none", "complete", "failed", "unattempted", "raised"}]
    BY <2>1 DEF Boot, MarkUnattempted
  <2> QED
    BY <1>0, <2>1, <2>2, <2>3 DEF Boot, Points, Run
<1>8. CASE \E api \in ApiAnswers, facts \in FactsHold, rejections \in RejectionsHold :
               Discover(api, facts, rejections)
  BY <1>8, <1>0 DEF Discover, MarkUnattempted, Points, Run, States, CellRecords, NoCell, Statuses
<1>9. CASE \E o \in PolicyAnswers : StartPlan(o)
  <2>1. PICK o \in PolicyAnswers : StartPlan(o)
    BY <1>9
  <2>2. plan' \in Plans
    <3> DEFINE todo == {p \in Pending(group) : records[p] = "none"}
    <3>1. todo # {} /\ plan' = First(todo)
      BY <2>1 DEF StartPlan
    <3>2. todo \subseteq Plans
      BY DEF Pending, PlansOf
    <3>3. First(todo) \in todo
      <4> HIDE DEF todo
      <4> QED
        BY <3>1, <3>2, FirstIsIn
    <3> QED
      BY <3>1, <3>2, <3>3
  <2> QED
    BY <2>1, <2>2 DEF StartPlan, Points, Run
<1>10. CASE PlansDone
  BY <1>10, <1>0 DEF PlansDone, Points, Run, States, CellRecords, NoCell, Statuses
<1>11. CASE StopGroup
  <2>1. group' \in 0 .. Groups + 1 /\ pc' \in Points
    BY <1>11, <1>0 DEF StopGroup, NextGroup, Points
  <2>2. sound' \in BOOLEAN
    BY <1>11 DEF StopGroup
  <2> QED
    BY <1>11, <2>1, <2>2 DEF StopGroup, Run
<1>12. CASE \E s \in ScenarioEnds : MeasureCell(s)
  <2>1. PICK s \in ScenarioEnds : MeasureCell(s)
    BY <1>12
  <2>2. First(Missing) \in Cells
    <3>1. Missing \subseteq Cells
      BY DEF Missing, CellsOf
    <3>2. Missing # {}
      BY <2>1 DEF MeasureCell
    <3> QED
      BY <3>1, <3>2, FirstIsIn
  <2>3. cells' \in [Cells -> CellRecords]
    BY <2>1 DEF MeasureCell, CellRecords, NoCell, ScenarioEnds, Statuses, Run
  <2>4. again' \subseteq Cells
    BY <2>1, <2>2 DEF MeasureCell
  <2> QED
    BY <2>1, <2>2, <2>3, <2>4 DEF MeasureCell, Run
<1>13. CASE \E zero, captured \in BOOLEAN : EndWorkload(zero, captured)
  <2>1. labels' \in [Cells -> {"none", "reused", "resumed", "new"}]
    BY <1>13 DEF EndWorkload, LabelsAfter, Era
  <2> QED
    BY <1>13, <2>1 DEF EndWorkload, Points, Run
<1>14. CASE WorkloadRaises
  BY <1>14, <1>0 DEF WorkloadRaises, Points, Run, States, CellRecords, NoCell, Statuses
<1>15. CASE Finish
  BY <1>15, <1>0 DEF Finish, NoPhase, Points, Run, States, CellRecords, NoCell, Statuses
<1>16. CASE UNCHANGED vars
  BY <1>16, <1>0 DEF vars, Points, Run, States, CellRecords, NoCell, Statuses
<1> QED
  BY <1>1, <1>2, <1>3, <1>4, <1>5, <1>6, <1>7, <1>8, <1>9, <1>10, <1>11, <1>12, <1>13, <1>14, <1>15, <1>16 DEF Next, RunStep


\* What a start does to the history.
LEMMA StartHistory ==
  ASSUME TypeOK, NEW resume \in BOOLEAN, Start(resume)
  PROVE  /\ Run \in Nat /\ Run' = Run + 1
         /\ history'[Run'] = [config |-> config, resume |-> resume]
         /\ \A r \in 1 .. Run : history'[r] = history[r]
         /\ Resuming' = resume
BY DEF TypeOK, Start, Run, Resuming

\* The cell a workload measures is one of its plan's that are missing.
LEMMA MissingCell ==
  ASSUME Missing # {}
  PROVE  First(Missing) \in Missing /\ First(Missing) \in CellsOf(plan)
<1>1. Missing \subseteq CellsOf(plan) /\ Missing \subseteq Cells
  BY DEF Missing, CellsOf
<1>2. First(Missing) \in Missing
  BY <1>1, Indices, FirstIsIn
<1> QED
  BY <1>1, <1>2

\* The plan a group turns to is pending and has no record.
LEMMA NextPlan ==
  ASSUME NEW o \in PolicyAnswers, StartPlan(o)
  PROVE  plan' \in Pending(group) /\ records[plan'] = "none"
<1> DEFINE todo == {p \in Pending(group) : records[p] = "none"}
<1>1. todo # {} /\ plan' = First(todo)
  BY DEF StartPlan
<1>2. todo \subseteq Nat
  BY Indices DEF Pending, PlansOf
<1>3. First(todo) \in todo
  <2> HIDE DEF todo
  <2> QED
    BY <1>1, <1>2, FirstIsIn
<1> QED
  BY <1>1, <1>3


\* A running phase keeps its start, its group and its booted servers in step.
LEMMA PhaseStep ==
  ASSUME TypeOK, Phase, [Next]_vars
  PROVE  Phase'
<1> USE GroupsAssumption, Indices DEF Phase, IsPending, Active, Run, diskVars, memoryVars
<1>0. group \in Nat /\ pc \in Points
  BY DEF TypeOK
<1>1. CASE \E resume \in BOOLEAN : Start(resume)
  <2>1. PICK resume \in BOOLEAN : Start(resume)
    BY <1>1
  <2>2. Run' = Run + 1 /\ Run \in Nat /\ history'[Run'].config = config
    <3>1. /\ Run' = Run + 1 /\ Run \in Nat
          /\ history'[Run'] = [config |-> config, resume |-> resume]
      BY <2>1, StartHistory
    <3> QED
      BY <3>1
  <2>3. booted = {} /\ \A p \in Plans : records[p] = "none"
    BY <2>1 DEF Start
  <2> QED
    BY <2>1, <2>2, <2>3 DEF Start
<1>2. CASE Refuse
  BY <1>2, <1>0 DEF Refuse
<1>3. CASE Killed
  BY <1>3, <1>0 DEF Killed, NoPhase
<1>4. CASE Reconfigure
  BY <1>4, <1>0 DEF Reconfigure
<1>5. CASE PhaseRaises
  BY <1>5, <1>0 DEF PhaseRaises
<1>6. CASE EnterGroup
  <2>1. pc' = "boot" => group' = group
    BY <1>6 DEF EnterGroup, NextGroup
  <2>2. pc' \in {"group", "boot", "finish"}
    BY <1>6 DEF EnterGroup, NextGroup
  <2>3. pc' = "group" => group' \in 1 .. Groups
    BY <1>6, <1>0 DEF EnterGroup, NextGroup
  <2>4. pc' = "boot" => \E p \in Plans : IsPending(p, group)
    BY <1>6 DEF EnterGroup, NextGroup, Pending, PlansOf
  <2> QED
    BY <1>6, <1>0, <2>1, <2>2, <2>3, <2>4 DEF EnterGroup
<1>7. CASE \E o \in {"healthy", "unhealthy", "raised", "refused"} : Boot(o)
  <2>1. PICK o \in {"healthy", "unhealthy", "raised", "refused"} : Boot(o)
    BY <1>7
  <2>2. group \in 1 .. Groups /\ launch \in [1 .. Groups -> 0 .. MaxConfigs]
    BY <2>1 DEF Boot, TypeOK
  <2>3. \A g \in booted : launch'[g] = config
    BY <2>1, <2>2 DEF Boot, TypeOK
  <2>4. pc' = "discover" => booted' = booted \cup {group} /\ launch'[group] = config
    BY <2>1, <2>2 DEF Boot
  <2>5. pc' \in {"discover", "stop"} /\ (pc' = "stop" => booted' = booted)
    BY <2>1 DEF Boot
  <2>6. UNCHANGED <<config, history, group, triage>>
    BY <2>1 DEF Boot
  <2>7. \E p \in Plans : IsPending(p, group)
    BY <2>1 DEF Boot
  <2>8. pc = "boot"
    BY <2>1 DEF Boot
  <2> QED
    BY <2>2, <2>3, <2>4, <2>5, <2>6, <2>7, <2>8
<1>8. CASE \E api \in ApiAnswers, facts \in FactsHold, rejections \in RejectionsHold :
               Discover(api, facts, rejections)
  BY <1>8, <1>0 DEF Discover, MarkUnattempted
<1>9. CASE \E o \in PolicyAnswers : StartPlan(o)
  <2>1. PICK o \in PolicyAnswers : StartPlan(o)
    BY <1>9
  <2>2. plan' \in Pending(group) /\ records[plan'] = "none"
    BY <2>1, NextPlan
  <2>3. IsPending(plan', group)
    BY <2>2 DEF Pending, PlansOf
  <2>4. pc' = "workload" => records' = records
    BY <2>1 DEF StartPlan
  <2>5. pc' \in {"plans", "workload"}
    BY <2>1 DEF StartPlan
  <2> QED
    BY <2>1, <2>2, <2>3, <2>4, <2>5 DEF StartPlan
<1>10. CASE PlansDone
  BY <1>10, <1>0 DEF PlansDone
<1>11. CASE StopGroup
  BY <1>11, <1>0 DEF StopGroup, NextGroup
<1>12. CASE \E s \in ScenarioEnds : MeasureCell(s)
  BY <1>12, <1>0 DEF MeasureCell
<1>13. CASE \E zero, captured \in BOOLEAN : EndWorkload(zero, captured)
  <2>1. PICK zero, captured \in BOOLEAN : EndWorkload(zero, captured)
    BY <1>13
  <2>2. pc' = "plans" /\ pc = "workload"
    BY <2>1 DEF EndWorkload
  <2>3. UNCHANGED <<diskVars, config, history, group, triage, booted>>
    BY <2>1 DEF EndWorkload
  <2> QED
    BY <2>2, <2>3
<1>14. CASE WorkloadRaises
  BY <1>14, <1>0 DEF WorkloadRaises
<1>15. CASE Finish
  BY <1>15, <1>0 DEF Finish, NoPhase
<1>16. CASE UNCHANGED vars
  BY <1>16, <1>0 DEF vars
<1> QED
  BY <1>1, <1>2, <1>3, <1>4, <1>5, <1>6, <1>7, <1>8, <1>9, <1>10, <1>11, <1>12, <1>13, <1>14, <1>15, <1>16 DEF Next, RunStep


\* One scenario changes its own cell and those of its plan that are neither taken
\* over nor executed.
LEMMA MeasureFacts ==
  ASSUME TypeOK, Phase, NEW s \in ScenarioEnds, MeasureCell(s)
  PROVE  LET c0 == First(Missing) IN
         /\ c0 \in Cells /\ CellPlan[c0] = plan /\ c0 \notin Prior \cup done
         /\ cells'[c0] = [status |-> s, run |-> Run]
         /\ \A d \in Cells : d # c0 =>
              cells'[d] = IF CellPlan[d] = plan /\ d \notin Prior \cup done
                            THEN NoCell ELSE cells[d]
         /\ done' = done \cup {c0} /\ Prior' = Prior
         /\ again' = IF triage[plan] = "partial" THEN again \cup {c0}
                                                 ELSE again \ CellsOf(plan)
<1> DEFINE c0 == First(Missing)
<1>1. c0 \in Missing /\ c0 \in CellsOf(plan)
  BY MissingCell DEF MeasureCell
<1>2. c0 \in Cells /\ CellPlan[c0] = plan /\ c0 \notin Prior \cup done
  BY <1>1 DEF Missing, CellsOf
<1>3. Prior' = Prior
  BY DEF Prior, MeasureCell
<1> HIDE DEF c0
<1>4. /\ done' = done \cup {c0}
      /\ cells' = [d \in Cells |->
            IF d = c0 THEN [status |-> s, run |-> Run]
            ELSE IF d \in CellsOf(plan) \ (Prior \cup done) THEN NoCell
            ELSE cells[d]]
      /\ again' = IF triage[plan] = "partial" THEN again \cup {c0}
                                              ELSE again \ CellsOf(plan)
  BY DEF MeasureCell, c0
<1>5. \A d \in Cells : d \in CellsOf(plan) <=> CellPlan[d] = plan
  BY DEF CellsOf
<1>6. cells'[c0] = [status |-> s, run |-> Run]
  BY <1>2, <1>4
<1>7. \A d \in Cells : d # c0 =>
              cells'[d] = IF CellPlan[d] = plan /\ d \notin Prior \cup done
                            THEN NoCell ELSE cells[d]
  BY <1>4, <1>5
<1> QED
  BY <1>2, <1>3, <1>4, <1>6, <1>7 DEF c0

\* Only starts write the history.
LEMMA HistoryStep ==
  ASSUME TypeOK, [Next]_vars
  PROVE  /\ Run \in Nat /\ Run' \in Nat /\ Run <= Run'
         /\ \A r \in 1 .. Run : history'[r] = history[r]
<1>0. Run \in Nat
  BY DEF TypeOK, Run
<1>1. CASE \E resume \in BOOLEAN : Start(resume)
  <2>1. PICK resume \in BOOLEAN : Start(resume)
    BY <1>1
  <2>2. Run' = Run + 1 /\ \A r \in 1 .. Run : history'[r] = history[r]
    BY <2>1, StartHistory
  <2> QED
    BY <1>0, <2>2
<1>2. CASE history' = history
  BY <1>0, <1>2 DEF Run
<1> QED
  BY <1>1, <1>2 DEF Next, RunStep, Refuse, Killed, Reconfigure, PhaseRaises, EnterGroup,
    Boot, Discover, StartPlan, PlansDone, StopGroup, MeasureCell, EndWorkload,
    WorkloadRaises, Finish, vars


\* Every measurement keeps its run.
LEMMA MeasuredStep ==
  ASSUME TypeOK, Phase, Measured, [Next]_vars
  PROVE  Measured'
<1> USE Indices DEF Measured, Known, Active, GroupOf, diskVars, memoryVars
<1>0. Run \in Nat
  BY DEF TypeOK, Run
<1>1. CASE \E resume \in BOOLEAN : Start(resume)
  <2>1. PICK resume \in BOOLEAN : Start(resume)
    BY <1>1
  <2>2. Run' = Run + 1 /\ cells' = cells
    BY <2>1, StartHistory DEF Start
  <2>3. \A c \in Cells : cells'[c].run \in 0 .. Run /\ (cells'[c].status # "none" => cells'[c].run > 0)
    BY <2>2
  <2>4. ASSUME NEW c \in Cells
        PROVE  cells'[c].run \in 0 .. Run' /\ cells'[c].run # Run'
    <3>1. cells'[c].run \in 0 .. Run
      BY <2>3
    <3> HIDE DEF Run
    <3> QED
      BY <1>0, <2>2, <3>1
  <2> QED
    BY <2>3, <2>4
<1>2. CASE Refuse
  BY <1>2, <1>0 DEF Refuse, Run
<1>3. CASE Killed
  BY <1>3, <1>0 DEF Killed, NoPhase, Run
<1>4. CASE Reconfigure
  BY <1>4, <1>0 DEF Reconfigure, Run
<1>5. CASE PhaseRaises
  BY <1>5, <1>0 DEF PhaseRaises, Run
<1>6. CASE EnterGroup
  BY <1>6, <1>0 DEF EnterGroup, NextGroup, Run
<1>7. CASE \E o \in {"healthy", "unhealthy", "raised", "refused"} : Boot(o)
  BY <1>7, <1>0 DEF Boot, MarkUnattempted, Run
<1>8. CASE \E api \in ApiAnswers, facts \in FactsHold, rejections \in RejectionsHold :
               Discover(api, facts, rejections)
  BY <1>8, <1>0 DEF Discover, MarkUnattempted, Run
<1>9. CASE \E o \in PolicyAnswers : StartPlan(o)
  BY <1>9, <1>0 DEF StartPlan, Run
<1>10. CASE PlansDone
  BY <1>10, <1>0 DEF PlansDone, Run
<1>11. CASE StopGroup
  BY <1>11, <1>0 DEF StopGroup, NextGroup, Run
<1>12. CASE \E s \in ScenarioEnds : MeasureCell(s)
  <2>1. PICK s \in ScenarioEnds : MeasureCell(s)
    BY <1>12
  <2> DEFINE c0 == First(Missing)
  <2>2. /\ c0 \in Cells /\ CellPlan[c0] = plan /\ c0 \notin Prior \cup done
        /\ cells'[c0] = [status |-> s, run |-> Run]
        /\ \A d \in Cells : d # c0 =>
             cells'[d] = IF CellPlan[d] = plan /\ d \notin Prior \cup done
                           THEN NoCell ELSE cells[d]
        /\ done' = done \cup {c0} /\ Prior' = Prior
    BY <2>1, MeasureFacts
  <2> HIDE DEF c0
  <2>3. GroupOf(c0) \in booted /\ pc = "workload"
    BY <2>1, <2>2 DEF Phase, IsPending, MeasureCell
  <2>4. Run' = Run /\ booted' = booted /\ pc' = pc
    BY <2>1 DEF MeasureCell, Run
  <2>5. \A d \in Cells : cells'[d].run \in 0 .. Run /\ (cells'[d].status # "none" => cells'[d].run > 0)
    <3>1. Run > 0
      BY <2>3 DEF Phase
    <3>2. cells'[c0].run \in 0 .. Run /\ cells'[c0].run > 0
      BY <1>0, <2>2, <3>1
    <3>3. ASSUME NEW d \in Cells, d # c0
          PROVE  cells'[d].run \in 0 .. Run /\ (cells'[d].status # "none" => cells'[d].run > 0)
      <4>1. cells'[d] = cells[d] \/ cells'[d] = NoCell
        BY <2>2, <3>3
      <4>2. cells[d].run \in 0 .. Run /\ (cells[d].status # "none" => cells[d].run > 0)
        BY <3>3
      <4>3. NoCell.run = 0 /\ NoCell.status = "none"
        BY DEF NoCell
      <4> QED
        BY <1>0, <4>1, <4>2, <4>3
    <3> QED
      BY <3>2, <3>3
  <2>6. \A d \in Cells : cells'[d].run = Run => GroupOf(d) \in booted
    <3>1. Run > 0
      BY <2>3 DEF Phase
    <3>2. ASSUME NEW d \in Cells, cells'[d].run = Run, d # c0
          PROVE  GroupOf(d) \in booted
      <4>1. cells'[d] = cells[d] \/ cells'[d] = NoCell
        BY <2>2, <3>2
      <4>2. cells'[d] = cells[d]
        BY <1>0, <3>1, <3>2, <4>1 DEF NoCell
      <4> QED
        BY <2>3, <3>2, <4>2
    <3> QED
      BY <2>3, <3>2
  <2> QED
    BY <2>3, <2>4, <2>5, <2>6
<1>13. CASE \E zero, captured \in BOOLEAN : EndWorkload(zero, captured)
  BY <1>13, <1>0 DEF EndWorkload, Run
<1>14. CASE WorkloadRaises
  BY <1>14, <1>0 DEF WorkloadRaises, Run
<1>15. CASE Finish
  BY <1>15, <1>0 DEF Finish, NoPhase, Run
<1>16. CASE UNCHANGED vars
  BY <1>16, <1>0 DEF vars, Run
<1> QED
  BY <1>1, <1>2, <1>3, <1>4, <1>5, <1>6, <1>7, <1>8, <1>9, <1>10, <1>11, <1>12, <1>13, <1>14, <1>15, <1>16 DEF Next, RunStep


\* The judgement of the receipts stands while the phase runs.
LEMMA FoundStep ==
  ASSUME TypeOK, Measured, Found, [Next]_vars
  PROVE  Found'
<1> USE Indices DEF Found, Active, Terminal, diskVars, memoryVars
<1>0. Run \in Nat
  BY DEF TypeOK, Run
<1>1. CASE \E resume \in BOOLEAN : Start(resume)
  <2>1. PICK resume \in BOOLEAN : Start(resume)
    BY <1>1
  <2>2. Run' = Run + 1 /\ Resuming' = resume
    BY <2>1, StartHistory
  <2>3. CASE ~resume
    BY <2>1, <2>2, <2>3 DEF Start
  <2>4. CASE resume
    <3>1. parsed' = cells /\ triage' = [p \in Plans |-> Judged(p)]
      BY <2>1, <2>4 DEF Start
    <3>2. \A p \in Plans : triage'[p] # "invalid" /\ triage'[p] = PlanState(p)
      BY <2>1, <2>4, <3>1 DEF Start, Judged
    <3>3. \A c \in Cells : parsed'[c].status # "none" => parsed'[c].run < Run'
      BY <1>0, <2>2, <3>1 DEF Measured
    <3>4. \A c \in Cells : c \in CellsOf(CellPlan[c])
      BY DEF CellsOf
    <3>5. \A c \in Cells :
            /\ triage'[CellPlan[c]] = "reusable" => Terminal(parsed'[c])
            /\ triage'[CellPlan[c]] = "absent" => parsed'[c].status = "none"
      BY <3>1, <3>2, <3>4 DEF PlanState
    <3>6. \A p \in Plans : triage'[p] = "partial" =>
              \E c \in CellsOf(p) : ~Terminal(parsed'[c])
      BY <3>1, <3>2 DEF PlanState
    <3> QED
      BY <2>2, <2>4, <3>2, <3>3, <3>5, <3>6 DEF CellsOf
  <2> QED
    BY <2>3, <2>4
<1>2. CASE Refuse
  BY <1>2, <1>0 DEF Refuse, Run, Resuming, CellsOf
<1>3. CASE Killed
  BY <1>3, <1>0 DEF Killed, NoPhase, Run, Resuming, CellsOf
<1>4. CASE Reconfigure
  BY <1>4, <1>0 DEF Reconfigure, Run, Resuming, CellsOf
<1>5. CASE PhaseRaises
  BY <1>5, <1>0 DEF PhaseRaises, Run, Resuming, CellsOf
<1>6. CASE EnterGroup
  BY <1>6, <1>0 DEF EnterGroup, NextGroup, Run, Resuming, CellsOf
<1>7. CASE \E o \in {"healthy", "unhealthy", "raised", "refused"} : Boot(o)
  BY <1>7, <1>0 DEF Boot, MarkUnattempted, Run, Resuming, CellsOf
<1>8. CASE \E api \in ApiAnswers, facts \in FactsHold, rejections \in RejectionsHold :
               Discover(api, facts, rejections)
  BY <1>8, <1>0 DEF Discover, MarkUnattempted, Run, Resuming, CellsOf
<1>9. CASE \E o \in PolicyAnswers : StartPlan(o)
  BY <1>9, <1>0 DEF StartPlan, Run, Resuming, CellsOf
<1>10. CASE PlansDone
  BY <1>10, <1>0 DEF PlansDone, Run, Resuming, CellsOf
<1>11. CASE StopGroup
  BY <1>11, <1>0 DEF StopGroup, NextGroup, Run, Resuming, CellsOf
<1>12. CASE \E s \in ScenarioEnds : MeasureCell(s)
  BY <1>12, <1>0 DEF MeasureCell, Run, Resuming, CellsOf
<1>13. CASE \E zero, captured \in BOOLEAN : EndWorkload(zero, captured)
  BY <1>13, <1>0 DEF EndWorkload, Run, Resuming, CellsOf
<1>14. CASE WorkloadRaises
  BY <1>14, <1>0 DEF WorkloadRaises, Run, Resuming, CellsOf
<1>15. CASE Finish
  BY <1>15, <1>0 DEF Finish, NoPhase, Run, Resuming, CellsOf
<1>16. CASE UNCHANGED vars
  BY <1>16, <1>0 DEF vars, Run, Resuming, CellsOf
<1> QED
  BY <1>1, <1>2, <1>3, <1>4, <1>5, <1>6, <1>7, <1>8, <1>9, <1>10, <1>11, <1>12, <1>13, <1>14, <1>15, <1>16 DEF Next, RunStep


\* What was terminal when judged stays on disk.
LEMMA KeptStep ==
  ASSUME TypeOK, Phase, Found, Kept, Working, [Next]_vars
  PROVE  Kept'
<1> USE Indices DEF Kept, Active, Terminal, diskVars, memoryVars
<1>1. CASE \E resume \in BOOLEAN : Start(resume)
  <2>1. PICK resume \in BOOLEAN : Start(resume)
    BY <1>1
  <2>2. Resuming' = resume
    BY <2>1, StartHistory
  <2>3. resume => parsed' = cells
    BY <2>1 DEF Start
  <2> QED
    BY <2>1, <2>2, <2>3 DEF Start
<1>2. CASE Refuse
  BY <1>2 DEF Refuse, Run, Resuming
<1>3. CASE Killed
  BY <1>3 DEF Killed, NoPhase, Run, Resuming
<1>4. CASE Reconfigure
  BY <1>4 DEF Reconfigure, Run, Resuming
<1>5. CASE PhaseRaises
  BY <1>5 DEF PhaseRaises, Run, Resuming
<1>6. CASE EnterGroup
  <2>1. \A p \in Plans : records'[p] = "none" => records[p] = "none"
    BY <1>6 DEF EnterGroup, ReusedRecord, TypeOK
  <2>2. pc' \in {"group", "boot", "finish"} /\ pc = "group"
    BY <1>6 DEF EnterGroup, NextGroup
  <2>3. Resuming' = Resuming /\ UNCHANGED <<cells, parsed>>
    BY <1>6 DEF EnterGroup, Resuming, Run
  <2> QED
    BY <2>1, <2>2, <2>3
<1>7. CASE \E o \in {"healthy", "unhealthy", "raised", "refused"} : Boot(o)
  <2>1. PICK o \in {"healthy", "unhealthy", "raised", "refused"} : Boot(o)
    BY <1>7
  <2>2. \A p \in Plans : records'[p] = "none" => records[p] = "none"
    BY <2>1 DEF Boot, MarkUnattempted, TypeOK
  <2>3. pc = "boot" /\ pc' \in {"discover", "stop"} /\ Resuming' = Resuming
    BY <2>1 DEF Boot, Resuming, Run
  <2> QED
    BY <2>1, <2>2, <2>3 DEF Boot
<1>8. CASE \E api \in ApiAnswers, facts \in FactsHold, rejections \in RejectionsHold :
               Discover(api, facts, rejections)
  <2>1. \A p \in Plans : records'[p] = "none" => records[p] = "none"
    BY <1>8 DEF Discover, MarkUnattempted, TypeOK
  <2>2. pc = "discover" /\ pc' \in {"plans", "stop"} /\ UNCHANGED <<cells, parsed>> /\ Resuming' = Resuming
    BY <1>8 DEF Discover, Resuming, Run
  <2> QED
    BY <2>1, <2>2
<1>9. CASE \E o \in PolicyAnswers : StartPlan(o)
  <2>1. PICK o \in PolicyAnswers : StartPlan(o)
    BY <1>9
  <2>2. /\ cells' = cells /\ parsed' = parsed /\ Resuming' = Resuming /\ pc = "plans"
        /\ pc' \in {"plans", "workload"}
    BY <2>1 DEF StartPlan, Resuming, Run
  <2>3. \A p \in Plans : records'[p] = "none" => records[p] = "none"
    <3>1. records[plan'] = "none"
      BY <2>1, NextPlan
    <3> QED
      BY <2>1, <3>1 DEF StartPlan, TypeOK
  <2> QED
    BY <2>2, <2>3
<1>10. CASE PlansDone
  BY <1>10 DEF PlansDone, Run, Resuming
<1>11. CASE StopGroup
  BY <1>11 DEF StopGroup, NextGroup, Run, Resuming
<1>12. CASE \E s \in ScenarioEnds : MeasureCell(s)
  <2>1. PICK s \in ScenarioEnds : MeasureCell(s)
    BY <1>12
  <2> DEFINE c0 == First(Missing)
  <2>2. /\ c0 \in Cells /\ CellPlan[c0] = plan /\ c0 \notin Prior \cup done
        /\ cells'[c0] = [status |-> s, run |-> Run]
        /\ \A d \in Cells : d # c0 =>
             cells'[d] = IF CellPlan[d] = plan /\ d \notin Prior \cup done
                           THEN NoCell ELSE cells[d]
        /\ done' = done \cup {c0} /\ Prior' = Prior
    BY <2>1, MeasureFacts
  <2> HIDE DEF c0
  <2>3. Resuming' = Resuming /\ UNCHANGED <<pc, parsed, plan, triage, records>> /\ pc = "workload"
    BY <2>1 DEF MeasureCell, Resuming, Run
  <2>4. IsPending(plan, group)
    BY <2>3 DEF Phase
  <2>5. ASSUME Resuming, NEW d \in Cells, Terminal(parsed[d])
        PROVE  cells'[d] = parsed[d]
    <3>1. CellPlan[d] = plan => d \in Prior
      BY <2>3, <2>4, <2>5 DEF Found, IsPending, Prior, CellsOf, States, TypeOK
    <3>2. d # c0
      BY <2>2, <3>1
    <3> QED
      BY <2>2, <2>3, <2>5, <3>1, <3>2
  <2>6. ASSUME Resuming, NEW d \in Cells, CellPlan[d] # plan, records[CellPlan[d]] = "none"
        PROVE  cells'[d] = parsed[d]
    <3>1. d # c0
      BY <2>2, <2>6
    <3> QED
      BY <2>2, <2>3, <2>6, <3>1
  <2> QED
    BY <2>3, <2>5, <2>6
<1>13. CASE \E zero, captured \in BOOLEAN : EndWorkload(zero, captured)
  <2>1. PICK zero, captured \in BOOLEAN : EndWorkload(zero, captured)
    BY <1>13
  <2>2. pc' = "plans" /\ pc = "workload" /\ UNCHANGED <<cells, parsed>> /\ Resuming' = Resuming
    BY <2>1 DEF EndWorkload, Resuming, Run
  <2>3. \A p \in Plans : records'[p] = "none" => records[p] = "none" /\ p # plan
    BY <2>1 DEF EndWorkload, TypeOK
  <2> QED
    BY <2>2, <2>3
<1>14. CASE WorkloadRaises
  <2>1. pc' = "plans" /\ pc = "workload" /\ UNCHANGED <<cells, parsed>> /\ Resuming' = Resuming
    BY <1>14 DEF WorkloadRaises, Resuming, Run
  <2>2. \A p \in Plans : records'[p] = "none" => records[p] = "none" /\ p # plan
    BY <1>14 DEF WorkloadRaises, TypeOK
  <2> QED
    BY <2>1, <2>2
<1>15. CASE Finish
  BY <1>15 DEF Finish, NoPhase, Run, Resuming
<1>16. CASE UNCHANGED vars
  BY <1>16 DEF vars, Run, Resuming
<1> QED
  BY <1>1, <1>2, <1>3, <1>4, <1>5, <1>6, <1>7, <1>8, <1>9, <1>10, <1>11, <1>12, <1>13, <1>14, <1>15, <1>16 DEF Next, RunStep


\* The workload knows which cells it executed and which it took over.
LEMMA WorkingStep ==
  ASSUME TypeOK, Phase, Found, Kept, Working, [Next]_vars
  PROVE  Working'
<1> USE Indices DEF Working, Terminal, diskVars, memoryVars
<1>1. CASE \E resume \in BOOLEAN : Start(resume)
  BY <1>1 DEF Start
<1>2. CASE Refuse
  BY <1>2 DEF Refuse, CellsOf, Run, Resuming, Missing, Prior
<1>3. CASE Killed
  BY <1>3 DEF Killed, NoPhase
<1>4. CASE Reconfigure
  BY <1>4 DEF Reconfigure, CellsOf, Run, Resuming, Missing, Prior
<1>5. CASE PhaseRaises
  BY <1>5 DEF PhaseRaises
<1>6. CASE EnterGroup
  BY <1>6 DEF EnterGroup, NextGroup
<1>7. CASE \E o \in {"healthy", "unhealthy", "raised", "refused"} : Boot(o)
  BY <1>7 DEF Boot, MarkUnattempted
<1>8. CASE \E api \in ApiAnswers, facts \in FactsHold, rejections \in RejectionsHold :
               Discover(api, facts, rejections)
  BY <1>8 DEF Discover, MarkUnattempted
<1>9. CASE \E o \in PolicyAnswers : StartPlan(o)
  <2>1. PICK o \in PolicyAnswers : StartPlan(o)
    BY <1>9
  <2>2. plan' \in Pending(group) /\ records[plan'] = "none"
    BY <2>1, NextPlan
  <2>3. /\ done' = {} /\ Resuming' = Resuming /\ pc = "plans"
        /\ UNCHANGED <<cells, parsed, triage>>
    BY <2>1 DEF StartPlan, Resuming, Run
  <2>4. Missing' = CellsOf(plan') \ Prior'
    BY <2>3 DEF Missing, CellsOf
  <2>5. ASSUME Resuming, NEW c \in CellsOf(plan'), c \notin Prior'
        PROVE  ~Terminal(cells[c])
    <3>1. c \in Cells /\ CellPlan[c] = plan' /\ plan' \in Plans /\ triage[plan'] # "reusable"
      BY <2>2, <2>5 DEF CellsOf, Pending, PlansOf
    <3>2. cells[c] = parsed[c]
      BY <2>2, <2>3, <2>5, <3>1 DEF Kept, Active
    <3>3. ~Terminal(parsed[c])
      BY <2>3, <2>5, <3>1 DEF Found, Active, Prior, CellsOf, TypeOK, States
    <3> QED
      BY <3>2, <3>3
  <2> QED
    BY <2>3, <2>4, <2>5
<1>10. CASE PlansDone
  BY <1>10 DEF PlansDone
<1>11. CASE StopGroup
  BY <1>11 DEF StopGroup, NextGroup
<1>12. CASE \E s \in ScenarioEnds : MeasureCell(s)
  <2>1. PICK s \in ScenarioEnds : MeasureCell(s)
    BY <1>12
  <2> DEFINE c0 == First(Missing)
  <2>2. /\ c0 \in Cells /\ CellPlan[c0] = plan /\ c0 \notin Prior \cup done
        /\ cells'[c0] = [status |-> s, run |-> Run]
        /\ \A d \in Cells : d # c0 =>
             cells'[d] = IF CellPlan[d] = plan /\ d \notin Prior \cup done
                           THEN NoCell ELSE cells[d]
        /\ done' = done \cup {c0} /\ Prior' = Prior
    BY <2>1, MeasureFacts
  <2> HIDE DEF c0
  <2>3. /\ Resuming' = Resuming /\ UNCHANGED <<plan, triage>> /\ pc = "workload"
        /\ Run' = Run
    BY <2>1 DEF MeasureCell, Resuming, Run
  <2>4. CellsOf(plan)' = CellsOf(plan) /\ Missing' = Missing \ {c0}
    BY <2>2, <2>3 DEF Missing, CellsOf
  <2>5. ASSUME NEW d \in CellsOf(plan), d \in done'
        PROVE  cells'[d].run = Run /\ d \notin Prior
    <3>1. d \in Cells /\ CellPlan[d] = plan
      BY <2>5 DEF CellsOf
    <3>2. CASE d = c0
      BY <2>2, <3>2
    <3>3. CASE d # c0
      <4>1. d \in done
        BY <2>2, <2>5, <3>3
      <4>2. cells[d].run = Run /\ d \notin Prior
        BY <2>3, <2>5, <4>1
      <4> QED
        BY <2>2, <3>1, <3>3, <4>1, <4>2
    <3> QED
      BY <3>2, <3>3
  <2>6. ASSUME NEW d \in CellsOf(plan), d \in Missing, d # c0
        PROVE  ~Terminal(cells'[d])
    <3>1. d \in Cells /\ CellPlan[d] = plan /\ d \notin Prior \cup done
      BY <2>6 DEF CellsOf, Missing
    <3> QED
      BY <2>2, <2>6, <3>1 DEF NoCell
  <2> QED
    BY <2>2, <2>3, <2>4, <2>5, <2>6
<1>13. CASE \E zero, captured \in BOOLEAN : EndWorkload(zero, captured)
  BY <1>13 DEF EndWorkload
<1>14. CASE WorkloadRaises
  BY <1>14 DEF WorkloadRaises
<1>15. CASE Finish
  BY <1>15 DEF Finish, NoPhase
<1>16. CASE UNCHANGED vars
  BY <1>16 DEF vars, CellsOf, Run, Resuming, Missing, Prior
<1> QED
  BY <1>1, <1>2, <1>3, <1>4, <1>5, <1>6, <1>7, <1>8, <1>9, <1>10, <1>11, <1>12, <1>13, <1>14, <1>15, <1>16 DEF Next, RunStep


\* Cells of a plan with a record do not change, and records come from nothing but
\* the plan's own turn.
LEMMA RecordedCellsStay ==
  ASSUME TypeOK, Phase, [Next]_vars
  PROVE  \A c \in Cells : records[CellPlan[c]] # "none" => cells'[c] = cells[c]
<1> USE Indices DEF diskVars, memoryVars
<1>1. CASE \E resume \in BOOLEAN : Start(resume)
  BY <1>1 DEF Start
<1>2. CASE Refuse
  BY <1>2 DEF Refuse
<1>3. CASE Killed
  BY <1>3 DEF Killed, NoPhase
<1>4. CASE Reconfigure
  BY <1>4 DEF Reconfigure
<1>5. CASE PhaseRaises
  BY <1>5 DEF PhaseRaises
<1>6. CASE EnterGroup
  BY <1>6 DEF EnterGroup, NextGroup
<1>7. CASE \E o \in {"healthy", "unhealthy", "raised", "refused"} : Boot(o)
  BY <1>7 DEF Boot, MarkUnattempted
<1>8. CASE \E api \in ApiAnswers, facts \in FactsHold, rejections \in RejectionsHold :
               Discover(api, facts, rejections)
  BY <1>8 DEF Discover, MarkUnattempted
<1>9. CASE \E o \in PolicyAnswers : StartPlan(o)
  BY <1>9 DEF StartPlan
<1>10. CASE PlansDone
  BY <1>10 DEF PlansDone
<1>11. CASE StopGroup
  BY <1>11 DEF StopGroup, NextGroup
<1>12. CASE \E s \in ScenarioEnds : MeasureCell(s)
  <2>1. PICK s \in ScenarioEnds : MeasureCell(s)
    BY <1>12
  <2> DEFINE c0 == First(Missing)
  <2>2. /\ c0 \in Cells /\ CellPlan[c0] = plan /\ c0 \notin Prior \cup done
        /\ cells'[c0] = [status |-> s, run |-> Run]
        /\ \A d \in Cells : d # c0 =>
             cells'[d] = IF CellPlan[d] = plan /\ d \notin Prior \cup done
                           THEN NoCell ELSE cells[d]
        /\ done' = done \cup {c0} /\ Prior' = Prior
    BY <2>1, MeasureFacts
  <2> HIDE DEF c0
  <2>3. records[plan] = "none"
    BY <2>1 DEF Phase, MeasureCell
  <2> QED
    BY <2>2, <2>3
<1>13. CASE \E zero, captured \in BOOLEAN : EndWorkload(zero, captured)
  BY <1>13 DEF EndWorkload
<1>14. CASE WorkloadRaises
  BY <1>14 DEF WorkloadRaises
<1>15. CASE Finish
  BY <1>15 DEF Finish, NoPhase
<1>16. CASE UNCHANGED vars
  BY <1>16 DEF vars
<1> QED
  BY <1>1, <1>2, <1>3, <1>4, <1>5, <1>6, <1>7, <1>8, <1>9, <1>10, <1>11, <1>12, <1>13, <1>14, <1>15, <1>16 DEF Next, RunStep


\* Records of complete plans stay backed by cells.
LEMMA RecordsStep ==
  ASSUME TypeOK, Phase, Found, Kept, Working, RecordsAreCurrent, [Next]_vars
  PROVE  RecordsAreCurrent'
<1> USE Indices DEF diskVars, memoryVars
<1>0. ASSUME Run' = Run, Resuming' = Resuming, parsed' = parsed,
             \A p \in Plans : records'[p] = "complete" =>
               \/ records[p] = "complete"
               \/ \A c \in CellsOf(p) :
                    /\ cells'[c].status = "complete"
                    /\ cells'[c].run = Run \/ (Resuming /\ cells'[c] = parsed[c])
      PROVE  RecordsAreCurrent'
  <2>1. SUFFICES ASSUME NEW p \in Plans, records'[p] = "complete",
                        NEW c \in Cells, CellPlan[c] = p
                 PROVE  /\ cells'[c].status = "complete"
                        /\ cells'[c].run = Run \/ (Resuming /\ cells'[c] = parsed[c])
    BY <1>0 DEF RecordsAreCurrent, CellsOf
  <2>2. CASE records[p] = "complete"
    <3>1. cells'[c] = cells[c]
      BY <2>1, <2>2, RecordedCellsStay
    <3> QED
      BY <2>1, <2>2, <3>1 DEF RecordsAreCurrent, CellsOf
  <2>3. CASE records[p] # "complete"
    BY <1>0, <2>1, <2>3 DEF CellsOf
  <2> QED
    BY <2>2, <2>3
<1>1. CASE \E resume \in BOOLEAN : Start(resume)
  <2>1. \A p \in Plans : records'[p] = "none"
    BY <1>1 DEF Start, Phase
  <2> QED
    BY <2>1 DEF RecordsAreCurrent
<1>2. CASE Refuse
  BY <1>2, <1>0 DEF Refuse, Run, Resuming, TypeOK
<1>3. CASE Killed
  BY <1>3 DEF Killed, NoPhase, RecordsAreCurrent
<1>4. CASE Reconfigure
  BY <1>4, <1>0 DEF Reconfigure, Run, Resuming, TypeOK
<1>5. CASE PhaseRaises
  BY <1>5, <1>0 DEF PhaseRaises, Run, Resuming, TypeOK
<1>6. CASE EnterGroup
  <2>1. Run' = Run /\ Resuming' = Resuming /\ parsed' = parsed /\ cells' = cells /\ pc = "group"
    BY <1>6 DEF EnterGroup, Run, Resuming
  <2>2. ASSUME NEW p \in Plans, records'[p] = "complete", records[p] # "complete"
        PROVE  \A c \in CellsOf(p) : cells[c].status = "complete" /\ Resuming /\ cells[c] = parsed[c]
    <3>1. triage[p] = "reusable" /\ \A c \in CellsOf(p) : parsed[c].status = "complete"
      BY <1>6, <2>2 DEF EnterGroup, ReusedRecord, PlansOf, Pending
    <3>2. Resuming
      BY <2>1, <3>1 DEF Found, Active
    <3> QED
      BY <2>1, <3>1, <3>2 DEF Kept, Active, Terminal, CellsOf
  <2> QED
    BY <1>0, <2>1, <2>2
<1>7. CASE \E o \in {"healthy", "unhealthy", "raised", "refused"} : Boot(o)
  BY <1>7, <1>0 DEF Boot, MarkUnattempted, Run, Resuming, TypeOK
<1>8. CASE \E api \in ApiAnswers, facts \in FactsHold, rejections \in RejectionsHold :
               Discover(api, facts, rejections)
  BY <1>8, <1>0 DEF Discover, MarkUnattempted, Run, Resuming, TypeOK
<1>9. CASE \E o \in PolicyAnswers : StartPlan(o)
  BY <1>9, <1>0 DEF StartPlan, Run, Resuming, TypeOK
<1>10. CASE PlansDone
  BY <1>10, <1>0 DEF PlansDone, Run, Resuming, TypeOK
<1>11. CASE StopGroup
  BY <1>11, <1>0 DEF StopGroup, NextGroup, Run, Resuming, TypeOK
<1>12. CASE \E s \in ScenarioEnds : MeasureCell(s)
  <2>1. Run' = Run /\ Resuming' = Resuming /\ parsed' = parsed /\ records' = records
    BY <1>12 DEF MeasureCell, Run, Resuming
  <2> QED
    BY <1>0, <2>1
<1>13. CASE \E zero, captured \in BOOLEAN : EndWorkload(zero, captured)
  <2>1. PICK zero, captured \in BOOLEAN : EndWorkload(zero, captured)
    BY <1>13
  <2>2. /\ Run' = Run /\ Resuming' = Resuming /\ parsed' = parsed /\ cells' = cells
        /\ pc = "workload" /\ ExitsZero(zero)
        /\ records' = [records EXCEPT ![plan] =
                     IF Qualified(zero) /\ captured THEN "complete" ELSE "failed"]
    BY <2>1 DEF EndWorkload, Run, Resuming
  <2>3. ASSUME NEW p \in Plans, records'[p] = "complete", records[p] # "complete"
        PROVE  p = plan /\ Qualified(zero)
    BY <2>2, <2>3 DEF TypeOK
  <2>4. ASSUME Qualified(zero), NEW c \in CellsOf(plan)
        PROVE  /\ cells[c].status = "complete"
               /\ cells[c].run = Run \/ (Resuming /\ cells[c] = parsed[c])
    <3>1. Missing = {} /\ cells[c].status = "complete"
      BY <2>2, <2>4 DEF Qualified, ExitsZero
    <3>2. CASE c \in Prior
      <4>1. triage[plan] = "partial" /\ IsPending(plan, group)
        BY <2>2, <3>2 DEF Prior, Phase
      <4>2. Resuming
        BY <2>2, <4>1 DEF Found, Active, IsPending
      <4> QED
        BY <2>4, <3>1, <3>2, <4>2 DEF Qualified
    <3>3. CASE c \notin Prior
      <4>1. c \in done
        BY <2>4, <3>1, <3>3 DEF Missing
      <4> QED
        BY <2>2, <2>4, <3>1, <4>1 DEF Working
    <3> QED
      BY <3>2, <3>3
  <2> QED
    BY <1>0, <2>2, <2>3, <2>4
<1>14. CASE WorkloadRaises
  BY <1>14, <1>0 DEF WorkloadRaises, Run, Resuming, TypeOK
<1>15. CASE Finish
  BY <1>15 DEF Finish, NoPhase, RecordsAreCurrent
<1>16. CASE UNCHANGED vars
  BY <1>16, <1>0 DEF vars, Run, Resuming, TypeOK
<1> QED
  BY <1>1, <1>2, <1>3, <1>4, <1>5, <1>6, <1>7, <1>8, <1>9, <1>10, <1>11, <1>12, <1>13, <1>14, <1>15, <1>16 DEF Next, RunStep


\* Labels come with records.
LEMMA LabelledStep ==
  ASSUME TypeOK, Phase, Found, Kept, Working, Labelled, [Next]_vars
  PROVE  Labelled'
<1> USE Indices DEF diskVars, memoryVars
<1>0. ASSUME \A p \in Plans : records[p] # "none" => records'[p] # "none",
             \A c \in Cells : labels'[c] # "none" =>
               \/ labels'[c] = labels[c]
               \/ /\ records'[CellPlan[c]] # "none"
                  /\ labels'[c] \in {"reused", "resumed"} => Terminal(cells'[c])
      PROVE  Labelled'
  <2>1. SUFFICES ASSUME NEW c \in Cells, labels'[c] # "none"
                 PROVE  /\ records'[CellPlan[c]] # "none"
                        /\ labels'[c] \in {"reused", "resumed"} => Terminal(cells'[c])
    BY DEF Labelled, Terminal
  <2>2. CASE labels'[c] = labels[c]
    <3>1. records[CellPlan[c]] # "none" /\ CellPlan[c] \in Plans
      BY <2>1, <2>2 DEF Labelled
    <3>2. cells'[c] = cells[c]
      BY <3>1, RecordedCellsStay
    <3> QED
      BY <1>0, <2>2, <3>1, <3>2 DEF Labelled
  <2> QED
    BY <1>0, <2>1, <2>2
<1>1. CASE \E resume \in BOOLEAN : Start(resume)
  <2>1. \A c \in Cells : labels'[c] = "none"
    BY <1>1 DEF Start, Phase
  <2> QED
    BY <2>1 DEF Labelled
<1>2. CASE Refuse
  BY <1>2, <1>0 DEF Refuse
<1>3. CASE Killed
  BY <1>3 DEF Killed, NoPhase, Labelled
<1>4. CASE Reconfigure
  BY <1>4, <1>0 DEF Reconfigure
<1>5. CASE PhaseRaises
  BY <1>5, <1>0 DEF PhaseRaises
<1>6. CASE EnterGroup
  <2>1. /\ cells' = cells /\ pc = "group"
        /\ records' = [p \in Plans |-> IF p \in PlansOf(group) \ Pending(group)
                         THEN ReusedRecord(p) ELSE records[p]]
        /\ labels' = [c \in Cells |-> IF CellPlan[c] \in PlansOf(group) \ Pending(group)
                         THEN Era(c) ELSE labels[c]]
    BY <1>6 DEF EnterGroup
  <2>2. \A p \in Plans : records[p] # "none" => records'[p] # "none"
    BY <2>1 DEF ReusedRecord
  <2>3. ASSUME NEW c \in Cells, CellPlan[c] \in PlansOf(group) \ Pending(group)
        PROVE  records'[CellPlan[c]] # "none" /\ Terminal(cells[c])
    <3>1. records'[CellPlan[c]] # "none"
      BY <2>1, <2>3 DEF ReusedRecord
    <3>2. triage[CellPlan[c]] = "reusable"
      BY <2>3 DEF PlansOf, Pending
    <3>3. Resuming
      BY <2>1, <3>2 DEF Found, Active
    <3> QED
      BY <2>1, <3>1, <3>2, <3>3 DEF Found, Kept, Active
  <2> QED
    BY <1>0, <2>1, <2>2, <2>3
<1>7. CASE \E o \in {"healthy", "unhealthy", "raised", "refused"} : Boot(o)
  BY <1>7, <1>0 DEF Boot, MarkUnattempted
<1>8. CASE \E api \in ApiAnswers, facts \in FactsHold, rejections \in RejectionsHold :
               Discover(api, facts, rejections)
  BY <1>8, <1>0 DEF Discover, MarkUnattempted
<1>9. CASE \E o \in PolicyAnswers : StartPlan(o)
  <2>1. \A p \in Plans : records[p] # "none" => records'[p] # "none"
    BY <1>9 DEF StartPlan, TypeOK
  <2>2. labels' = labels
    BY <1>9 DEF StartPlan
  <2> QED
    BY <1>0, <2>1, <2>2
<1>10. CASE PlansDone
  BY <1>10, <1>0 DEF PlansDone
<1>11. CASE StopGroup
  BY <1>11, <1>0 DEF StopGroup, NextGroup
<1>12. CASE \E s \in ScenarioEnds : MeasureCell(s)
  BY <1>12, <1>0 DEF MeasureCell
<1>13. CASE \E zero, captured \in BOOLEAN : EndWorkload(zero, captured)
  <2>1. PICK zero, captured \in BOOLEAN : EndWorkload(zero, captured)
    BY <1>13
  <2>2. /\ cells' = cells /\ pc = "workload" /\ labels' = LabelsAfter
        /\ \A p \in Plans : p = plan \/ records[p] # "none" => records'[p] # "none"
    BY <2>1 DEF EndWorkload, TypeOK
  <2>3. ASSUME NEW c \in Cells, labels'[c] # labels[c]
        PROVE  /\ CellPlan[c] = plan /\ Resuming
               /\ labels'[c] \in {"reused", "resumed"} => c \in Prior
    BY <2>2, <2>3 DEF LabelsAfter
  <2>4. ASSUME NEW c \in Prior, Resuming
        PROVE  Terminal(cells[c])
    BY <2>2, <2>4 DEF Prior, CellsOf, Kept, Active
  <2> QED
    BY <1>0, <2>2, <2>3, <2>4
<1>14. CASE WorkloadRaises
  BY <1>14, <1>0 DEF WorkloadRaises
<1>15. CASE Finish
  BY <1>15 DEF Finish, NoPhase, Labelled
<1>16. CASE UNCHANGED vars
  BY <1>16, <1>0 DEF vars
<1> QED
  BY <1>1, <1>2, <1>3, <1>4, <1>5, <1>6, <1>7, <1>8, <1>9, <1>10, <1>11, <1>12, <1>13, <1>14, <1>15, <1>16 DEF Next, RunStep


\* Every entry a resumption adds to a receipt's chain is a cell of its own.
LEMMA AgainStep ==
  ASSUME TypeOK, Phase, Measured, Found, AgainIsResumed, [Next]_vars
  PROVE  AgainIsResumed'
<1> USE Indices DEF diskVars, memoryVars
<1>0. ASSUME cells' = cells, again' = again
      PROVE  AgainIsResumed'
  <2>1. SUFFICES ASSUME NEW c \in again, Known(c)
                 PROVE  history'[cells[c].run].resume
    BY <1>0 DEF AgainIsResumed, Known
  <2>2. c \in Cells /\ history[cells[c].run].resume
    BY <2>1 DEF TypeOK, AgainIsResumed
  <2>3. cells[c].run \in 1 .. Run
    BY <2>1, <2>2, HistoryStep DEF Measured
  <2> QED
    BY <2>2, <2>3, HistoryStep
<1>1. CASE \E resume \in BOOLEAN : Start(resume)
  BY <1>1, <1>0 DEF Start
<1>2. CASE Refuse
  BY <1>2, <1>0 DEF Refuse
<1>3. CASE Killed
  BY <1>3, <1>0 DEF Killed, NoPhase
<1>4. CASE Reconfigure
  BY <1>4, <1>0 DEF Reconfigure
<1>5. CASE PhaseRaises
  BY <1>5, <1>0 DEF PhaseRaises
<1>6. CASE EnterGroup
  BY <1>6, <1>0 DEF EnterGroup, NextGroup
<1>7. CASE \E o \in {"healthy", "unhealthy", "raised", "refused"} : Boot(o)
  BY <1>7, <1>0 DEF Boot, MarkUnattempted
<1>8. CASE \E api \in ApiAnswers, facts \in FactsHold, rejections \in RejectionsHold :
               Discover(api, facts, rejections)
  BY <1>8, <1>0 DEF Discover, MarkUnattempted
<1>9. CASE \E o \in PolicyAnswers : StartPlan(o)
  BY <1>9, <1>0 DEF StartPlan
<1>10. CASE PlansDone
  BY <1>10, <1>0 DEF PlansDone
<1>11. CASE StopGroup
  BY <1>11, <1>0 DEF StopGroup, NextGroup
<1>12. CASE \E s \in ScenarioEnds : MeasureCell(s)
  <2>1. PICK s \in ScenarioEnds : MeasureCell(s)
    BY <1>12
  <2> DEFINE c0 == First(Missing)
  <2>2. /\ c0 \in Cells /\ CellPlan[c0] = plan /\ c0 \notin Prior \cup done
        /\ cells'[c0] = [status |-> s, run |-> Run]
        /\ \A d \in Cells : d # c0 =>
             cells'[d] = IF CellPlan[d] = plan /\ d \notin Prior \cup done
                           THEN NoCell ELSE cells[d]
        /\ again' = IF triage[plan] = "partial" THEN again \cup {c0}
                                                ELSE again \ CellsOf(plan)
    BY <2>1, MeasureFacts
  <2> HIDE DEF c0
  <2>3. history' = history /\ pc = "workload" /\ IsPending(plan, group)
    BY <2>1 DEF MeasureCell, Phase
  <2>4. ASSUME NEW d \in again', cells'[d].status # "none"
        PROVE  history[cells'[d].run].resume
    <3>1. d \in Cells
      BY <2>2, <2>4 DEF TypeOK
    <3>2. CASE d = c0
      <4>1. triage[plan] = "partial"
        BY <2>2, <2>4, <3>2 DEF CellsOf
      <4>2. Resuming
        BY <2>3, <4>1 DEF Found, Active, IsPending
      <4> QED
        BY <2>2, <3>2, <4>2 DEF Resuming
    <3>3. CASE d # c0
      <4>1. d \in again /\ cells'[d] = cells[d]
        BY <2>2, <2>4, <3>1, <3>3 DEF NoCell
      <4> QED
        BY <2>4, <4>1 DEF AgainIsResumed, Known
    <3> QED
      BY <3>2, <3>3
  <2> QED
    BY <2>3, <2>4 DEF AgainIsResumed, Known
<1>13. CASE \E zero, captured \in BOOLEAN : EndWorkload(zero, captured)
  BY <1>13, <1>0 DEF EndWorkload
<1>14. CASE WorkloadRaises
  BY <1>14, <1>0 DEF WorkloadRaises
<1>15. CASE Finish
  BY <1>15, <1>0 DEF Finish, NoPhase
<1>16. CASE UNCHANGED vars
  BY <1>16, <1>0 DEF vars
<1> QED
  BY <1>1, <1>2, <1>3, <1>4, <1>5, <1>6, <1>7, <1>8, <1>9, <1>10, <1>11, <1>12, <1>13, <1>14, <1>15, <1>16 DEF Next, RunStep


\* Late eras stay true.
LEMMA ErasStep ==
  ASSUME TypeOK, Phase, Measured, Found, Kept, Working, Labelled, AgainIsResumed,
         LateErasAreTrue, [Next]_vars
  PROVE  LateErasAreTrue'
<1> USE Indices DEF diskVars, memoryVars
<1> DEFINE Ok(c, l) ==
      /\ l = "resumed" => history[cells[c].run].resume /\ cells[c].run < Run
      /\ l = "new" /\ Terminal(cells[c]) => cells[c].run = Run
<1>0. ASSUME history' = history,
             \A c \in Cells : labels'[c] # labels[c] => cells'[c] = cells[c] /\ Ok(c, labels'[c])
      PROVE  LateErasAreTrue'
  <2>1. SUFFICES ASSUME NEW c \in Cells
                 PROVE  /\ labels'[c] = "resumed" =>
                             history[cells'[c].run].resume /\ cells'[c].run < Run
                        /\ labels'[c] = "new" /\ Terminal(cells'[c]) => cells'[c].run = Run
    BY <1>0 DEF LateErasAreTrue, Run, Terminal
  <2>2. CASE labels'[c] = labels[c]
    <3>1. CASE labels[c] = "none"
      BY <2>2, <3>1
    <3>2. CASE labels[c] # "none"
      <4>1. cells'[c] = cells[c]
        BY <3>2, RecordedCellsStay DEF Labelled
      <4> QED
        BY <2>2, <4>1 DEF LateErasAreTrue
    <3> QED
      BY <3>1, <3>2
  <2>3. CASE labels'[c] # labels[c]
    BY <1>0, <2>3
  <2> QED
    BY <2>2, <2>3
<1>A. ASSUME NEW c \in Cells, Terminal(cells[c]), Resuming, Active, cells[c] = parsed[c]
      PROVE  Ok(c, Era(c))
  <2>1. cells[c].run < Run
    BY <1>A DEF Found, Terminal
  <2>2. c \in again => history[cells[c].run].resume
    BY <1>A DEF AgainIsResumed, Known, Terminal
  <2> QED
    BY <2>1, <2>2 DEF Era
<1>1. CASE \E resume \in BOOLEAN : Start(resume)
  <2>1. \A c \in Cells : labels'[c] = "none"
    BY <1>1 DEF Start, Phase
  <2> QED
    BY <2>1 DEF LateErasAreTrue
<1>2. CASE Refuse
  BY <1>2, <1>0 DEF Refuse
<1>3. CASE Killed
  BY <1>3 DEF Killed, NoPhase, LateErasAreTrue
<1>4. CASE Reconfigure
  BY <1>4, <1>0 DEF Reconfigure
<1>5. CASE PhaseRaises
  BY <1>5, <1>0 DEF PhaseRaises
<1>6. CASE EnterGroup
  <2>1. /\ cells' = cells /\ pc = "group" /\ history' = history
        /\ labels' = [c \in Cells |-> IF CellPlan[c] \in PlansOf(group) \ Pending(group)
                         THEN Era(c) ELSE labels[c]]
    BY <1>6 DEF EnterGroup
  <2>2. ASSUME NEW c \in Cells, CellPlan[c] \in PlansOf(group) \ Pending(group)
        PROVE  Terminal(cells[c]) /\ Resuming /\ cells[c] = parsed[c]
    <3>1. triage[CellPlan[c]] = "reusable"
      BY <2>2 DEF PlansOf, Pending
    <3>2. Resuming
      BY <2>1, <3>1 DEF Found, Active
    <3> QED
      BY <2>1, <3>1, <3>2 DEF Found, Kept, Active
  <2>3. \A c \in Cells : labels'[c] # labels[c] => Ok(c, labels'[c])
    BY <1>A, <2>1, <2>2 DEF Active
  <2> QED
    BY <1>0, <2>1, <2>3
<1>7. CASE \E o \in {"healthy", "unhealthy", "raised", "refused"} : Boot(o)
  BY <1>7, <1>0 DEF Boot, MarkUnattempted
<1>8. CASE \E api \in ApiAnswers, facts \in FactsHold, rejections \in RejectionsHold :
               Discover(api, facts, rejections)
  BY <1>8, <1>0 DEF Discover, MarkUnattempted
<1>9. CASE \E o \in PolicyAnswers : StartPlan(o)
  BY <1>9, <1>0 DEF StartPlan
<1>10. CASE PlansDone
  BY <1>10, <1>0 DEF PlansDone
<1>11. CASE StopGroup
  BY <1>11, <1>0 DEF StopGroup, NextGroup
<1>12. CASE \E s \in ScenarioEnds : MeasureCell(s)
  BY <1>12, <1>0 DEF MeasureCell
<1>13. CASE \E zero, captured \in BOOLEAN : EndWorkload(zero, captured)
  <2>1. PICK zero, captured \in BOOLEAN : EndWorkload(zero, captured)
    BY <1>13
  <2>2. cells' = cells /\ pc = "workload" /\ history' = history /\ labels' = LabelsAfter
    BY <2>1 DEF EndWorkload
  <2>3. ASSUME NEW c \in Cells, labels'[c] # labels[c]
        PROVE  Ok(c, labels'[c])
    <3>1. /\ CellPlan[c] = plan /\ Resuming
          /\ labels'[c] = IF c \in Prior THEN Era(c) ELSE "new"
      BY <2>2, <2>3 DEF LabelsAfter
    <3>2. CASE c \in Prior
      <4>1. Terminal(cells[c]) /\ cells[c] = parsed[c]
        BY <2>2, <3>1, <3>2 DEF Prior, Kept, Active
      <4> QED
        BY <1>A, <2>2, <3>1, <3>2, <4>1 DEF Active
    <3>3. CASE c \notin Prior
      <4>1. c \in CellsOf(plan)
        BY <3>1 DEF CellsOf
      <4>2. Terminal(cells[c]) => cells[c].run = Run
        BY <2>2, <3>1, <3>3, <4>1 DEF Working, Missing
      <4> QED
        BY <3>1, <3>3, <4>2
    <3> QED
      BY <3>2, <3>3
  <2> QED
    BY <1>0, <2>2, <2>3
<1>14. CASE WorkloadRaises
  BY <1>14, <1>0 DEF WorkloadRaises
<1>15. CASE Finish
  BY <1>15 DEF Finish, NoPhase, LateErasAreTrue
<1>16. CASE UNCHANGED vars
  BY <1>16, <1>0 DEF vars
<1> QED
  BY <1>1, <1>2, <1>3, <1>4, <1>5, <1>6, <1>7, <1>8, <1>9, <1>10, <1>11, <1>12, <1>13, <1>14, <1>15, <1>16 DEF Next, RunStep


\* Launch receipts and measurements move together.
LEMMA LineageStep ==
  ASSUME TypeOK, Phase, Measured, Lineage, [Next]_vars
  PROVE  Lineage'
<1> USE Indices DEF diskVars, memoryVars
<1>0. ASSUME history' = history, launch' = launch, cells' = cells,
             Active' => Active /\ config' = config
      PROVE  Lineage'
  <2>1. FreshRuns' = FreshRuns
    BY <1>0 DEF FreshRuns, Run
  <2> QED
    BY <1>0, <2>1 DEF Lineage, Known
<1>R. \A c \in Cells : Known(c) => cells[c].run \in 1 .. Run
  BY HistoryStep DEF Measured
<1>1. CASE \E resume \in BOOLEAN : Start(resume)
  <2>1. PICK resume \in BOOLEAN : Start(resume)
    BY <1>1
  <2>2. UNCHANGED <<cells, launch, config>> /\ pc = "idle"
    BY <2>1 DEF Start
  <2>3. /\ Run \in Nat /\ Run' = Run + 1
        /\ history'[Run'].resume = resume
        /\ \A r \in 1 .. Run : history'[r] = history[r]
    <3>1. /\ Run \in Nat /\ Run' = Run + 1
          /\ history'[Run'] = [config |-> config, resume |-> resume]
          /\ \A r \in 1 .. Run : history'[r] = history[r]
      BY <2>1, StartHistory
    <3> QED
      BY <3>1
  <2>4. FreshRuns' = {r \in 1 .. Run' : ~history'[r].resume}
    BY DEF FreshRuns, Run
  <2>5. FreshRuns \subseteq FreshRuns'
    BY <2>3, <2>4 DEF FreshRuns
  <2>6. SUFFICES ASSUME FreshRuns' \subseteq {1}, NEW c \in Cells, Known(c)
                 PROVE  /\ launch[GroupOf(c)] = history'[cells[c].run].config
                        /\ history'[cells[c].run].config = config
    BY <2>2 DEF Lineage, Known, Active
  <2>7. launch[GroupOf(c)] = history[cells[c].run].config
    BY <2>5, <2>6 DEF Lineage
  <2>8. history'[cells[c].run] = history[cells[c].run]
    BY <1>R, <2>3, <2>6
  <2>9. CASE resume
    <3>1. Judged(CellPlan[c]) # "invalid"
      BY <2>1, <2>9 DEF Start
    <3>2. PlanState(CellPlan[c]) # "absent"
      <4>1. c \in CellsOf(CellPlan[c])
        BY DEF CellsOf
      <4> QED
        BY <2>6, <4>1 DEF PlanState, Known
    <3>3. launch[GroupOf(c)] = config
      BY <3>1, <3>2 DEF Judged, BootMatches, GroupOf
    <3> QED
      BY <2>7, <2>8, <3>3
  <2>10. CASE ~resume
    <3>1. Run' \in FreshRuns'
      BY <2>3, <2>4, <2>10
    <3>2. Run = 0
      BY <2>3, <2>6, <3>1
    <3>3. cells[c].run \in 1 .. Run
      BY <1>R, <2>6
    <3>4. cells[c].run \in 1 .. 0
      BY <3>2, <3>3
    <3> QED
      BY <3>4
  <2> QED
    BY <2>9, <2>10
<1>2. CASE Refuse
  BY <1>2, <1>0 DEF Refuse, Active
<1>3. CASE Killed
  BY <1>3, <1>0 DEF Killed, NoPhase, Active
<1>4. CASE Reconfigure
  BY <1>4, <1>0 DEF Reconfigure, Active
<1>5. CASE PhaseRaises
  BY <1>5, <1>0 DEF PhaseRaises, Active
<1>6. CASE EnterGroup
  BY <1>6, <1>0 DEF EnterGroup, NextGroup, Active
<1>7. CASE \E o \in {"healthy", "unhealthy", "raised", "refused"} : Boot(o)
  <2>1. PICK o \in {"healthy", "unhealthy", "raised", "refused"} : Boot(o)
    BY <1>7
  <2>2. /\ UNCHANGED <<cells, config, history>> /\ Active
        /\ \A g \in 1 .. Groups : launch'[g] = launch[g] \/ launch'[g] = config
    BY <2>1 DEF Boot, TypeOK, Active
  <2>3. FreshRuns' = FreshRuns
    BY <2>2 DEF FreshRuns, Run
  <2> QED
    BY <2>2, <2>3 DEF Lineage, Known
<1>8. CASE \E api \in ApiAnswers, facts \in FactsHold, rejections \in RejectionsHold :
               Discover(api, facts, rejections)
  BY <1>8, <1>0 DEF Discover, MarkUnattempted, Active
<1>9. CASE \E o \in PolicyAnswers : StartPlan(o)
  BY <1>9, <1>0 DEF StartPlan, Active
<1>10. CASE PlansDone
  BY <1>10, <1>0 DEF PlansDone, Active
<1>11. CASE StopGroup
  BY <1>11, <1>0 DEF StopGroup, NextGroup, Active
<1>12. CASE \E s \in ScenarioEnds : MeasureCell(s)
  <2>1. PICK s \in ScenarioEnds : MeasureCell(s)
    BY <1>12
  <2> DEFINE c0 == First(Missing)
  <2>2. /\ c0 \in Cells /\ CellPlan[c0] = plan /\ c0 \notin Prior \cup done
        /\ cells'[c0] = [status |-> s, run |-> Run]
        /\ \A d \in Cells : d # c0 =>
             cells'[d] = IF CellPlan[d] = plan /\ d \notin Prior \cup done
                           THEN NoCell ELSE cells[d]
        /\ done' = done \cup {c0} /\ Prior' = Prior
    BY <2>1, MeasureFacts
  <2> HIDE DEF c0
  <2>3. /\ UNCHANGED <<launch, config, history>> /\ pc = "workload"
        /\ history[Run].config = config
    BY <2>1 DEF MeasureCell, Phase, Active
  <2>4. launch[GroupOf(c0)] = config
    BY <2>2, <2>3 DEF Phase, IsPending, GroupOf
  <2>5. FreshRuns' = FreshRuns
    BY <2>3 DEF FreshRuns, Run
  <2>6. SUFFICES ASSUME FreshRuns \subseteq {1}, NEW c \in Cells, cells'[c].status # "none"
                 PROVE  /\ launch[GroupOf(c)] = history[cells'[c].run].config
                        /\ history[cells'[c].run].config = config
    BY <2>3, <2>5 DEF Lineage, Known
  <2>7. CASE c = c0
    BY <2>2, <2>3, <2>4, <2>7
  <2>8. CASE c # c0
    <3>1. cells'[c] = cells[c]
      BY <2>2, <2>6, <2>8 DEF NoCell
    <3> QED
      BY <2>3, <2>6, <3>1 DEF Lineage, Known, Active
  <2> QED
    BY <2>7, <2>8
<1>13. CASE \E zero, captured \in BOOLEAN : EndWorkload(zero, captured)
  BY <1>13, <1>0 DEF EndWorkload, Active
<1>14. CASE WorkloadRaises
  BY <1>14, <1>0 DEF WorkloadRaises, Active
<1>15. CASE Finish
  BY <1>15, <1>0 DEF Finish, NoPhase, Active
<1>16. CASE UNCHANGED vars
  BY <1>16, <1>0 DEF vars, Active
<1> QED
  BY <1>1, <1>2, <1>3, <1>4, <1>5, <1>6, <1>7, <1>8, <1>9, <1>10, <1>11, <1>12, <1>13, <1>14, <1>15, <1>16 DEF Next, RunStep


\* The initial states satisfy the invariant.
LEMMA InitInvariant ==
  ASSUME Init
  PROVE  IInv
<1> USE Indices DEF Init
<1>0. Run = 0 /\ \A c \in Cells : cells[c].status = "none" /\ cells[c].run = 0
  BY DEF Run, NoCell
<1>1. TypeOK
  <2>1. cells \in [Cells -> CellRecords] /\ parsed \in [Cells -> CellRecords]
    BY BoundsAssumption DEF CellRecords, NoCell, Statuses
  <2>2. history \in Seq([config : 1 .. MaxConfigs, resume : BOOLEAN])
    OBVIOUS
  <2> QED
    BY <1>0, <2>1, <2>2, BoundsAssumption, GroupsAssumption DEF TypeOK, Points, States
<1>2. Phase /\ Found /\ Kept /\ Working
  BY DEF Phase, Found, Kept, Working, Active
<1>3. Measured /\ Labelled /\ AgainIsResumed /\ Lineage
  BY <1>0 DEF Measured, Labelled, AgainIsResumed, Lineage, Known, Active
<1>4. RecordsAreCurrent /\ LateErasAreTrue
  BY DEF RecordsAreCurrent, LateErasAreTrue
<1> QED
  BY <1>1, <1>2, <1>3, <1>4 DEF IInv

\* The inductive invariant holds throughout.
THEOREM Invariant == Spec => []IInv
<1>1. Init => IInv
  BY InitInvariant
<1>2. IInv /\ [Next]_vars => IInv'
  <2> SUFFICES ASSUME IInv, [Next]_vars
               PROVE  IInv'
    OBVIOUS
  <2>1. TypeOK' /\ Phase' /\ Measured'
    BY TypeStep, PhaseStep, MeasuredStep DEF IInv
  <2>2. Found' /\ Kept' /\ Working'
    BY FoundStep, KeptStep, WorkingStep DEF IInv
  <2>3. Labelled' /\ AgainIsResumed' /\ Lineage'
    BY LabelledStep, AgainStep, LineageStep DEF IInv
  <2>4. RecordsAreCurrent' /\ LateErasAreTrue'
    BY RecordsStep, ErasStep DEF IInv
  <2> QED
    BY <2>1, <2>2, <2>3, <2>4 DEF IInv
<1> QED
  BY <1>1, <1>2, PTL DEF Spec

\* Disk and memory of the phase keep their types, whatever kills or resumes it.
THEOREM TypeCorrect == Spec => []TypeOK
<1>1. IInv => TypeOK
  BY DEF IInv
<1> QED
  BY <1>1, Invariant, PTL

\* A plan recorded as complete has its cells on disk, complete, measured by this
\* run or found by --resume.
THEOREM RecordsCurrent == Spec => []RecordsAreCurrent
<1>1. IInv => RecordsAreCurrent
  BY DEF IInv
<1> QED
  BY <1>1, Invariant, PTL

\* Cells called resumed or new are so; and as long as the phase was started from
\* nothing only once, everything taken over was measured under today's boot.
THEOREM LabelsTrue == Spec => []LabelsAreTrue
<1>1. IInv => LabelsAreTrue
  <2> SUFFICES ASSUME IInv
               PROVE  LabelsAreTrue
    OBVIOUS
  <2>1. ASSUME FreshRuns \subseteq {1}, NEW c \in Cells, labels[c] \in {"reused", "resumed"}
        PROVE  history[cells[c].run].config = config
    <3>1. Known(c)
      BY <2>1 DEF IInv, Labelled, Terminal, Known
    <3>2. Active
      BY <2>1 DEF IInv, Phase, Active
    <3> QED
      BY <2>1, <3>1, <3>2 DEF IInv, Lineage
  <2>2. ReusedUnderItsBootIfResumed
    BY <2>1 DEF ReusedUnderItsBootIfResumed, ReusedUnderItsBoot
  <2> QED
    BY <2>2 DEF IInv, LabelsAreTrue
<1> QED
  BY <1>1, Invariant, PTL

\* A resumed phase loses, changes and repeats no measurement on disk.
THEOREM MeasurementsKept == Spec => ResumeKeepsMeasurements
<1>1. ASSUME IInv, [Next]_vars, pc # "idle", Resuming, NEW c \in Cells, Terminal(cells[c])
      PROVE  cells'[c] = cells[c]
  <2> USE DEF diskVars, memoryVars
  <2>1. CASE \E s \in ScenarioEnds : MeasureCell(s)
    <3>1. PICK s \in ScenarioEnds : MeasureCell(s)
      BY <2>1
    <3>2. CellPlan[c] = plan /\ c \notin Prior \cup done => cells'[c] = cells[c]
      <4>1. ASSUME CellPlan[c] = plan, c \notin Prior \cup done
            PROVE  FALSE
        <5>1. c \in CellsOf(plan) /\ c \in Missing /\ pc = "workload"
          BY <3>1, <4>1 DEF CellsOf, Missing, MeasureCell
        <5> QED
          BY <1>1, <5>1 DEF IInv, Working
      <4> QED
        BY <4>1
    <3> DEFINE c0 == First(Missing)
    <3>3. /\ CellPlan[c0] = plan /\ c0 \notin Prior \cup done
          /\ \A d \in Cells : d # c0 =>
               cells'[d] = IF CellPlan[d] = plan /\ d \notin Prior \cup done
                             THEN NoCell ELSE cells[d]
      BY <1>1, <3>1, MeasureFacts DEF IInv
    <3>4. c = c0 => cells'[c] = cells[c]
      BY <3>2, <3>3
    <3> HIDE DEF c0
    <3> QED
      BY <3>2, <3>3, <3>4
  <2>2. CASE cells' = cells
    BY <2>2
  <2> QED
    BY <1>1, <2>1, <2>2 DEF Next, RunStep, Start, Refuse, Killed, Reconfigure, PhaseRaises,
      EnterGroup, Boot, Discover, StartPlan, PlansDone, StopGroup, EndWorkload,
      WorkloadRaises, Finish, vars
<1>2. IInv /\ [Next]_vars =>
        [pc # "idle" /\ Resuming =>
           \A c \in Cells : Terminal(cells[c]) => cells'[c] = cells[c]]_vars
  BY <1>1
<1> QED
  BY <1>2, Invariant, PTL DEF Spec, ResumeKeepsMeasurements

\* A summary of status complete stands for complete receipts, and the phase booted
\* exactly the groups that lacked a measurement, the LMCache ones among them.
THEOREM CompletionEarned == Spec => CompleteIsEarned
<1>1. ASSUME IInv, Finish, summary' = "complete"
      PROVE  /\ \A c \in Cells : cells[c].status = "complete"
             /\ \A c \in Cells : Resuming \/ cells[c].run = Run
             /\ \A g \in 1 .. Groups :
                  g \in booted <=> \E c \in Cells : GroupOf(c) = g /\ cells[c].run = Run
             /\ LmcacheGroups \subseteq booted
  <2>1. Checks /\ Active
    BY <1>1 DEF Finish, Active
  <2>2. \A c \in Cells :
          /\ cells[c].status = "complete"
          /\ cells[c].run = Run \/ (Resuming /\ cells[c] = parsed[c])
    BY <1>1, <2>1, Indices DEF Checks, IInv, RecordsAreCurrent, CellsOf
  <2>3. ASSUME NEW g \in booted
        PROVE  \E c \in Cells : GroupOf(c) = g /\ cells[c].run = Run
    <3>1. PICK p \in Plans : IsPending(p, g)
      BY <1>1 DEF IInv, Phase
    <3>2. PICK c1 \in Cells : CellPlan[c1] = p
      BY PlansAssumption
    <3>3. CASE ~Resuming
      BY <2>2, <3>1, <3>2, <3>3 DEF GroupOf, IsPending
    <3>4. CASE Resuming
      <4>1. triage[p] \in {"absent", "partial"}
        BY <1>1, <2>1, <3>1, <3>4 DEF IInv, TypeOK, States, Found, IsPending
      <4>2. CASE triage[p] = "absent"
        <5>1. parsed[c1].status = "none"
          BY <1>1, <2>1, <3>2, <3>4, <4>2 DEF IInv, Found
        <5>2. cells[c1].run = Run
          BY <2>2, <5>1
        <5> QED
          BY <3>1, <3>2, <5>2 DEF GroupOf, IsPending
      <4>3. CASE triage[p] = "partial"
        <5>1. PICK c \in CellsOf(p) : ~Terminal(parsed[c])
          BY <1>1, <2>1, <3>4, <4>3 DEF IInv, Found
        <5>2. c \in Cells /\ CellPlan[c] = p
          BY DEF CellsOf
        <5>3. cells[c].run = Run
          BY <2>2, <5>1, <5>2 DEF Terminal
        <5> QED
          BY <3>1, <5>2, <5>3 DEF GroupOf, IsPending
      <4> QED
        BY <4>1, <4>2, <4>3
    <3> QED
      BY <3>3, <3>4
  <2>4. ASSUME NEW c \in Cells, cells[c].run = Run
        PROVE  GroupOf(c) \in booted
    BY <1>1, <2>1, <2>4 DEF IInv, Measured
  <2>5. LmcacheGroups \subseteq booted
    BY <2>1, GroupsAssumption DEF Checks
  <2> QED
    BY <2>2, <2>3, <2>4, <2>5
<1>2. IInv /\ [Next]_vars =>
        [Finish /\ summary' = "complete" =>
           /\ \A c \in Cells : cells[c].status = "complete"
           /\ \A c \in Cells : Resuming \/ cells[c].run = Run
           /\ \A g \in 1 .. Groups :
                g \in booted <=> \E c \in Cells : GroupOf(c) = g /\ cells[c].run = Run
           /\ LmcacheGroups \subseteq booted]_vars
  BY <1>1
<1> QED
  BY <1>2, Invariant, PTL DEF Spec, CompleteIsEarned
=============================================================================
