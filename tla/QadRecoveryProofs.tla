------------------------- MODULE QadRecoveryProofs -------------------------
(***************************************************************************)
(* What QadRecovery promises, for every plan, every point where the tail   *)
(* begins and every number of interrupts.                                  *)
(***************************************************************************)
EXTENDS QadRecovery, TLAPS

Running == pc # "idle"
Seeded  == TryPoints \cup AfterPoints

\* The rows a stage keeps are the beginning of the plan, and once they are
\* copied, so are the receipts behind them.
KeptInv ==
  Running =>
    /\ Len(kept) = KeptBy(stage) /\ InPlanOrder(kept, 1)
    /\ stage = 1 => kept = <<FirstRow>>
    /\ stage = 2 /\ pc = "copy" => Backed(1, kept)
    /\ pc # "copy" => Backed(stage, kept)

\* What the coordinator has recorded follows them.
CompletedInv ==
  Running =>
    /\ Len(kept) + Len(completed) <= Last
    /\ InPlanOrder(completed, Len(kept) + 1)
    /\ pc # "copy" => Backed(stage, completed)
    /\ pc \in StagingPoints \cup {"main", "before"} => completed = <<>>
    /\ pc \in {"phase", "record"} => Len(kept) + Len(completed) < Last
    /\ pc = "record" => receipts[stage][NextPhase] \in Codes
    /\ pc \in {"execute", "leave"} => Len(kept) + Len(completed) = Last
    /\ pc = "save" => completed # <<>>

\* Its progress on disk is the kept rows still, or some of what it recorded.
ProgressInv ==
  pc \in Seeded =>
    /\ \/ progress[stage] = kept
       \/ /\ Len(progress[stage]) <= Len(completed)
          /\ InPlanOrder(progress[stage], Len(kept) + 1)
          /\ Backed(stage, progress[stage])
    /\ pc \in {"stop", "launch", "phase", "execute", "leave"} =>
         progress[stage] = completed \/ completed = <<>>

\* Its ledger, once there is one, is all of the rest of the plan.
LedgerInv ==
  Running =>
    /\ executed[stage].kind # "none" =>
         /\ pc \in {"leave"} \cup AfterPoints
         /\ Len(kept) + Len(completed) = Last
         /\ progress[stage] = completed
         /\ executed[stage].rows = IF executed[stage].kind = "rest"
                                     THEN completed ELSE kept \o completed
    /\ executed[stage].kind = "merged" => pc \in {"plan", "progress"}
    /\ pc = "leave" => executed[stage].kind = "rest"
    /\ pc \in {"restore", "merge"} /\ ~raised => executed[stage].kind = "rest"
    /\ pc \in {"plan", "progress"} /\ ~raised => executed[stage].kind = "merged"
    /\ pc = "progress" => plan[stage] = "pinned"

\* The stage that runs has not ended, nor has one after it begun.
OutcomeInv ==
  /\ Running => outcome[stage] = "none"
  /\ ~Running => kept = <<>> /\ completed = <<>>
  /\ stage = 1 => outcome[2] = "none"
  /\ stage = 1 => executed[2] = NoLedger /\ interrupted[2] = NoLedger
  /\ stage = 2 => outcome[1] # "none" /\ executed[1].kind = "none"

\* A root with both an execution ledger and an interruption has the rest of the
\* plan in the interruption.
InterruptedInv ==
  /\ \A s \in Stages :
       executed[s].kind # "none" /\ interrupted[s].kind # "none" =>
         Len(interrupted[s].rows) = Last - KeptBy(s)
  /\ Running /\ interrupted[stage].kind # "none" =>
       pc \in AfterPoints \ {"except"}

\* The root of stage 1 is none a tail can start from.
Unusable == \/ interrupted[1].kind = "none" \/ plan[1] # "pinned"
            \/ Len(progress[1]) # TailFrom \/ ~InPlanOrder(progress[1], 1)

\* A .tmp is there only behind an interrupt or a kill in the write of its file,
\* after which the coordinator writes that file no more; and in stage 1 only in
\* a root no tail starts from.
StaleInv ==
  /\ pc \in StagingPoints \cup TryPoints => stale = {}
  /\ pc \in {"seedProgress", "main"} => plan[stage] = "pinned"
  /\ Running /\ "plan" \in stale =>
       /\ pc \in {"merge", "plan"} /\ plan[stage] = "pinned"
       /\ raised /\ interrupts > 0 /\ executed[stage].kind = "none"
  /\ Running /\ "progress" \in stale =>
       /\ pc \in AfterPoints /\ (pc # "except" => raised)
       /\ interrupts > 0 /\ executed[stage].kind = "none"
  /\ Running /\ "executed" \in stale =>
       /\ pc \in AfterPoints
       /\ progress[stage] = completed /\ Len(kept) + Len(completed) = Last
       /\ pc \in {"plan", "progress"} \/ executed[stage].kind = "none"
  /\ ~Running /\ stage = 1 /\ stale # {} => Unusable

IInv == /\ TypeOK /\ KeptInv /\ CompletedInv /\ ProgressInv /\ LedgerInv
        /\ OutcomeInv /\ InterruptedInv /\ StaleInv
        /\ LedgerEarned /\ EvidenceSurvives

-----------------------------------------------------------------------------
(* Rows.                                                                   *)

\* The kept rows and those that follow them are rows of the plan.
LEMMA OrderConcat ==
  ASSUME NEW a \in Seq(Rows), NEW b \in Seq(Rows),
         InPlanOrder(a, 1), InPlanOrder(b, Len(a) + 1)
  PROVE  /\ a \o b \in Seq(Rows) /\ Len(a \o b) = Len(a) + Len(b)
         /\ InPlanOrder(a \o b, 1)
<1>1. a \o b \in Seq(Rows) /\ Len(a \o b) = Len(a) + Len(b)
  OBVIOUS
<1>2. Len(a) \in Nat /\ Len(b) \in Nat
  OBVIOUS
<1>3. ASSUME NEW n \in 1 .. Len(a \o b) PROVE (a \o b)[n].phase = n
  <2>1. CASE n <= Len(a)
    <3>1. (a \o b)[n] = a[n] /\ n \in 1 .. Len(a)
      BY <1>1, <1>2, <2>1
    <3> QED
      BY <3>1, <1>2 DEF InPlanOrder
  <2>2. CASE n > Len(a)
    <3>1. (a \o b)[n] = b[n - Len(a)] /\ n - Len(a) \in 1 .. Len(b)
      BY <1>1, <1>2, <2>2
    <3> QED
      BY <3>1, <1>2 DEF InPlanOrder
  <2> QED
    BY <2>1, <2>2, <1>1, <1>2
<1>4. 1 + Len(a \o b) - 1 <= Last
  BY <1>1, <1>2, PlanAssumption DEF InPlanOrder
<1> QED
  BY <1>1, <1>3, <1>4 DEF InPlanOrder

BackedBy(r, rows) == \A n \in 1 .. Len(rows) : r[rows[n].phase] = rows[n].code

\* So are their receipts.
LEMMA BackedConcat ==
  ASSUME NEW r, NEW a \in Seq(Rows), NEW b \in Seq(Rows),
         BackedBy(r, a), BackedBy(r, b)
  PROVE  BackedBy(r, a \o b)
<1>1. Len(a \o b) = Len(a) + Len(b) /\ Len(a) \in Nat /\ Len(b) \in Nat
  OBVIOUS
<1> SUFFICES ASSUME NEW n \in 1 .. Len(a \o b)
             PROVE  r[(a \o b)[n].phase] = (a \o b)[n].code
  BY DEF BackedBy
<1>2. CASE n <= Len(a)
  <2>1. (a \o b)[n] = a[n] /\ n \in 1 .. Len(a)
    BY <1>1, <1>2
  <2> QED
    BY <2>1 DEF BackedBy
<1>3. CASE n > Len(a)
  <2>1. (a \o b)[n] = b[n - Len(a)] /\ n - Len(a) \in 1 .. Len(b)
    BY <1>1, <1>3
  <2> QED
    BY <2>1 DEF BackedBy
<1> QED
  BY <1>1, <1>2, <1>3

\* One more phase, in its place.
LEMMA OrderAppend ==
  ASSUME NEW a \in Seq(Rows), NEW first \in Nat \ {0}, NEW c \in Codes,
         InPlanOrder(a, first), first + Len(a) <= Last,
         NEW row, row = [phase |-> first + Len(a), code |-> c]
  PROVE  /\ Append(a, row) \in Seq(Rows) /\ Len(Append(a, row)) = Len(a) + 1
         /\ InPlanOrder(Append(a, row), first)
<1>1. Len(a) \in Nat
  OBVIOUS
<1>2. row \in Rows
  BY <1>1, PlanAssumption DEF Rows, Phases
<1>3. Append(a, row) \in Seq(Rows) /\ Len(Append(a, row)) = Len(a) + 1
  BY <1>2
<1>4. ASSUME NEW n \in 1 .. Len(a) + 1
      PROVE  Append(a, row)[n].phase = first + n - 1
  <2>1. CASE n <= Len(a)
    <3>1. Append(a, row)[n] = a[n] /\ n \in 1 .. Len(a)
      BY <1>1, <2>1
    <3> QED
      BY <3>1 DEF InPlanOrder
  <2>2. CASE n = Len(a) + 1
    <3>1. Append(a, row)[n] = row
      BY <1>1, <2>2
    <3> QED
      BY <3>1, <2>2, <1>1
  <2> QED
    BY <2>1, <2>2, <1>1
<1>5. first + (Len(a) + 1) - 1 <= Last
  BY <1>1, PlanAssumption
<1> QED
  BY <1>3, <1>4, <1>5 DEF InPlanOrder

LEMMA BackedAppend ==
  ASSUME NEW r, NEW a \in Seq(Rows), BackedBy(r, a),
         NEW row \in Rows, r[row.phase] = row.code
  PROVE  BackedBy(r, Append(a, row))
<1>1. Len(Append(a, row)) = Len(a) + 1 /\ Len(a) \in Nat
  OBVIOUS
<1> SUFFICES ASSUME NEW n \in 1 .. Len(a) + 1
             PROVE  r[Append(a, row)[n].phase] = Append(a, row)[n].code
  BY <1>1 DEF BackedBy
<1>2. CASE n <= Len(a)
  <2>1. Append(a, row)[n] = a[n] /\ n \in 1 .. Len(a)
    BY <1>1, <1>2
  <2> QED
    BY <2>1 DEF BackedBy
<1>3. CASE n = Len(a) + 1
  <2>1. Append(a, row)[n] = row
    BY <1>1, <1>3
  <2> QED
    BY <2>1
<1> QED
  BY <1>1, <1>2, <1>3

\* A receipt written for a later phase leaves rows backed.
LEMMA BackedStays ==
  ASSUME NEW r \in [Phases -> Codes \cup {"none"}], NEW c, NEW p \in Phases,
         NEW a \in Seq(Rows), NEW first \in Nat \ {0}, InPlanOrder(a, first),
         BackedBy(r, a), first + Len(a) - 1 < p
  PROVE  BackedBy([r EXCEPT ![p] = c], a)
<1> SUFFICES ASSUME NEW n \in 1 .. Len(a)
             PROVE  [r EXCEPT ![p] = c][a[n].phase] = a[n].code
  BY DEF BackedBy
<1>1. Len(a) \in Nat /\ a[n].phase = first + n - 1 /\ a[n] \in Rows
  BY DEF InPlanOrder
<1>2. p \in Nat
  BY PlanAssumption DEF Phases
<1>3. a[n].phase # p /\ a[n].phase \in Phases
  BY <1>1, <1>2 DEF Rows
<1> QED
  BY <1>3 DEF BackedBy

\* Nothing has been recorded on top of the kept rows, or only fresh rows are
\* there: which of the two, FreshRows can tell.
LEMMA FreshRowsAre ==
  ASSUME IInv, pc \in Seeded
  PROVE  /\ progress[stage] = kept => FreshRows = <<>>
         /\ progress[stage] # kept => FreshRows = progress[stage]
<1>1. /\ kept \in Seq(Rows) /\ progress[stage] \in Seq(Rows) /\ stage \in {1, 2}
      /\ pc # "idle"
  BY DEF IInv, TypeOK, Stages, Seeded, TryPoints, AfterPoints
<1>2. CASE stage = 2
  BY <1>2 DEF FreshRows
<1>3. CASE stage = 1
  <2>1. kept = <<FirstRow>> /\ Len(kept) = 1
    BY <1>1, <1>3 DEF IInv, KeptInv, Running
  <2>2. Head(kept).phase = 1 /\ kept # <<>> /\ Tail(kept) = <<>>
    BY <2>1 DEF FirstRow
  <2>3. progress[stage] = kept => FreshRows = <<>>
    BY <2>2, <1>3 DEF FreshRows
  <2>4. ASSUME progress[stage] # kept, progress[stage] # <<>>
        PROVE  Head(progress[stage]).phase # 1
    <3>1. InPlanOrder(progress[stage], 2)
      BY <2>4, <2>1 DEF IInv, ProgressInv
    <3>2. Len(progress[stage]) \in Nat \ {0}
          /\ Head(progress[stage]) = progress[stage][1]
      BY <2>4, <1>1
    <3> QED
      BY <3>1, <3>2 DEF InPlanOrder
  <2> QED
    BY <2>3, <2>4, <1>3 DEF FreshRows
<1> QED
  BY <1>1, <1>2, <1>3
\* When all of the rest is recorded, it is not mistaken for the kept rows.
LEMMA RecordedIsNotKept ==
  ASSUME IInv, Running, Len(kept) + Len(completed) = Last
  PROVE  completed # kept
<1>1. /\ Len(kept) = KeptBy(stage) /\ InPlanOrder(kept, 1)
      /\ InPlanOrder(completed, Len(kept) + 1)
  BY DEF IInv, KeptInv, CompletedInv
<1>2. KeptBy(stage) \in Nat \ {0} /\ KeptBy(stage) < Last
  BY PlanAssumption DEF KeptBy
<1>3. Len(completed) \in Nat \ {0} /\ Len(kept) \in Nat \ {0}
  BY <1>1, <1>2, PlanAssumption DEF IInv, TypeOK
<1>4. completed[1].phase = Len(kept) + 1 /\ kept[1].phase = 1
  BY <1>1, <1>3 DEF InPlanOrder
<1> QED
  BY <1>3, <1>4

-----------------------------------------------------------------------------
(* The steps: one lemma per action, one step per conjunct.                 *)

\* The progress of a coordinator that runs in stage 1, and before it the
\* missing interruption, let no tail start.
LEMMA RunningIsUnusable == ASSUME IInv, Running, stage = 1 PROVE Unusable
<1> USE DEF Running, Seeded, StagingPoints, TryPoints, AfterPoints, Stages
<1>1. CASE pc \notin AfterPoints
  BY <1>1 DEF IInv, InterruptedInv, Unusable
<1>2. CASE pc \in AfterPoints
  <2>1. CASE progress[1] = kept
    BY <2>1, PlanAssumption DEF IInv, KeptInv, KeptBy, Unusable
  <2>2. CASE progress[1] # kept
    <3>1. InPlanOrder(progress[1], 2) /\ progress[1] \in Seq(Rows)
      <4>1. Len(kept) = 1 /\ 1 + 1 = 2
        BY <1>2 DEF IInv, KeptInv, KeptBy
      <4>2. InPlanOrder(progress[stage], Len(kept) + 1)
            /\ progress[stage] \in Seq(Rows)
        BY <2>2, <1>2 DEF IInv, ProgressInv, TypeOK
      <4> QED
        BY <4>1, <4>2
    <3>2. ASSUME Len(progress[1]) = TailFrom PROVE progress[1][1].phase = 2
      BY <3>1, <3>2, PlanAssumption DEF InPlanOrder
    <3>3. ASSUME Len(progress[1]) = TailFrom, InPlanOrder(progress[1], 1)
          PROVE  progress[1][1].phase = 1
      BY <3>3, PlanAssumption DEF InPlanOrder
    <3> QED
      BY <3>2, <3>3 DEF Unusable
  <2> QED
    BY <2>1, <2>2
<1> QED
  BY <1>1, <1>2

LEMMA StartTailStep == ASSUME IInv, StartTail PROVE IInv'
<1> USE DEF Running, Seeded, StagingPoints, TryPoints, AfterPoints, At, Goto,
        End, memoryVars, diskVars, Stages
<1>a. /\ stage = 1 /\ stage' = 2 /\ pc = "idle" /\ pc' = "copy"
      /\ kept' = progress[1] /\ completed' = <<>>
      /\ UNCHANGED <<outcome, plan, progress, executed, interrupted, receipts>>
  BY DEF StartTail, IInv, OutcomeInv
<1>b. progress[1] \in Seq(Rows) /\ Len(progress[1]) = TailFrom
  BY DEF IInv, TypeOK, StartTail, SourceIsValid
<1>c. /\ <<>> \in Seq(Rows) /\ Len(<<>>) = 0
      /\ TailFrom \in Nat /\ Last \in Nat /\ 1 < TailFrom /\ TailFrom < Last
  BY PlanAssumption
<1>d. InPlanOrder(<<>>, TailFrom + 1)
  BY <1>c DEF InPlanOrder
<1>e. executed[1].kind = "none"
  <2> SUFFICES ASSUME executed[1].kind # "none" PROVE FALSE
    OBVIOUS
  <2>1. Len(interrupted[1].rows) = Last - 1
    BY DEF IInv, InterruptedInv, StartTail, SourceIsValid, KeptBy
  <2>2. interrupted[1].rows = Tail(progress[1])
    BY DEF StartTail, SourceIsValid
  <2>3. progress[1] # <<>> /\ Len(Tail(progress[1])) = TailFrom - 1
    BY <1>b, <1>c
  <2> QED
    BY <2>1, <2>2, <2>3, <1>c
<1>1. TypeOK'
  BY <1>b, <1>c, <1>a DEF IInv, StartTail, TypeOK
<1>2. KeptInv'
  <2>1. InPlanOrder(progress[1], 1) /\ Backed(1, progress[1])
    BY DEF StartTail, SourceIsValid
  <2>2. Backed(1, kept)'
    BY <2>1, <1>a DEF Backed
  <2> QED
    BY <1>a, <1>b, <2>1, <2>2 DEF KeptInv, KeptBy
<1>3. CompletedInv'
  BY <1>a, <1>b, <1>c, <1>d DEF CompletedInv
<1>4. ProgressInv'
  BY DEF IInv, StartTail, TypeOK, ProgressInv, CompletedInv, Backed, NextPhase
<1>5. LedgerInv'
  BY <1>a DEF IInv, OutcomeInv, LedgerInv, NoLedger
<1>6. OutcomeInv'
  BY <1>a, <1>e DEF IInv, OutcomeInv, StartTail, SourceIsValid
<1>7. InterruptedInv'
  BY <1>a DEF IInv, OutcomeInv, InterruptedInv, NoLedger
<1>8. LedgerEarned'
  BY DEF IInv, StartTail, TypeOK, LedgerEarned, Backed, LedgerInv, OutcomeInv
<1>9. EvidenceSurvives'
  BY DEF IInv, StartTail, TypeOK, EvidenceSurvives, Restored, HalfRestored,
     InPlanOrder, Backed, OutcomeInv
<1>10. StaleInv'
  <2>1. stale = {}
    BY <1>a DEF IInv, StaleInv, Unusable, StartTail, SourceIsValid
  <2>2. stale' = stale
    BY DEF StartTail
  <2> QED
    BY <2>1, <2>2, <1>a DEF StaleInv
<1> QED
  BY <1>1, <1>2, <1>3, <1>4, <1>5, <1>6, <1>7, <1>8, <1>9, <1>10 DEF IInv

LEMMA CopyEvidenceStep == ASSUME IInv, CopyEvidence PROVE IInv'
<1> USE DEF Running, Seeded, StagingPoints, TryPoints, AfterPoints, At, Goto,
        End, memoryVars, diskVars, Stages
<1>a. /\ stage \in {1, 2} /\ pc = "copy" /\ pc' = "seedPlan"
      /\ UNCHANGED <<stage, kept, completed, raised, progress, interrupted,
                    outcome, plan>>
      /\ completed = <<>> /\ 1 \in Phases
  BY PlanAssumption DEF CopyEvidence, IInv, TypeOK, CompletedInv, Phases
<1>b. executed'[stage] = IF stage = 1 THEN NoLedger ELSE executed[1]
  BY <1>a DEF CopyEvidence, IInv, TypeOK
<1>c. executed'[stage].kind = "none"
  BY <1>a, <1>b DEF IInv, OutcomeInv, NoLedger
<1>d. /\ <<>> \in Seq(Rows) /\ Len(<<>>) = 0 /\ Last \in Nat
  BY PlanAssumption
<1>1. TypeOK'
  <2>1. NoLedger \in Ledgers /\ Len(NoLedger.rows) = 0
    BY <1>d DEF NoLedger, Ledgers
  <2>2. executed' \in [Stages -> Ledgers]
        /\ \A s \in Stages : Len(executed'[s].rows) <= Last
    BY <2>1, <1>d DEF CopyEvidence, IInv, TypeOK
  <2>3. [NoReceipts EXCEPT ![1] = "ok"] \in [Phases -> Codes \cup {"none"}]
    BY DEF NoReceipts, Codes
  <2>4. receipts' \in [Stages -> [Phases -> Codes \cup {"none"}]]
    BY <2>3 DEF CopyEvidence, IInv, TypeOK
  <2> QED
    BY <1>a, <2>2, <2>4 DEF CopyEvidence, IInv, TypeOK
<1>2. KeptInv'
  <2>1. CASE stage = 1
    <3>1. receipts'[1] = [NoReceipts EXCEPT ![1] = "ok"] /\ kept = <<FirstRow>>
      BY <2>1, <1>a DEF CopyEvidence, IInv, TypeOK, KeptInv
    <3>2. receipts'[1][1] = "ok"
      BY <3>1, <1>a DEF NoReceipts
    <3>3. Backed(stage, kept)'
      BY <2>1, <1>a, <3>1, <3>2 DEF Backed, FirstRow
    <3> QED
      BY <1>a, <3>3 DEF IInv, KeptInv
  <2>2. CASE stage = 2
    <3>1. receipts'[2] = receipts[1] /\ Backed(1, kept)
      BY <2>2, <1>a DEF CopyEvidence, IInv, TypeOK, KeptInv
    <3>2. Backed(stage, kept)'
      BY <2>2, <1>a, <3>1 DEF Backed
    <3> QED
      BY <1>a, <3>2 DEF IInv, KeptInv
  <2> QED
    BY <2>1, <2>2, <1>a
<1>3. CompletedInv'
  BY DEF IInv, CopyEvidence, TypeOK, CompletedInv, Backed, NextPhase, KeptInv
<1>4. ProgressInv'
  BY DEF IInv, CopyEvidence, TypeOK, ProgressInv, CompletedInv, Backed, NextPhase
<1>5. LedgerInv'
  BY <1>a, <1>c DEF LedgerInv
<1>6. OutcomeInv'
  BY DEF IInv, CopyEvidence, TypeOK, OutcomeInv, LedgerInv, InterruptedInv
<1>7. InterruptedInv'
  BY DEF IInv, CopyEvidence, TypeOK, InterruptedInv, LedgerInv, KeptInv, KeptBy, OutcomeInv
<1>8. LedgerEarned'
  <2> SUFFICES ASSUME NEW s \in Stages, executed'[s].kind = "merged"
               PROVE  /\ Len(executed'[s].rows) = Last
                      /\ InPlanOrder(executed'[s].rows, 1)
                      /\ BackedBy(receipts'[s], executed'[s].rows)
    BY DEF LedgerEarned, Backed, BackedBy
  <2>1. s # stage
    BY <1>c
  <2>2. executed'[s] = executed[s] /\ receipts'[s] = receipts[s]
    BY <2>1, <1>a DEF CopyEvidence, IInv, TypeOK
  <2> QED
    BY <2>2 DEF IInv, LedgerEarned, Backed, BackedBy
<1>9. EvidenceSurvives'
  BY DEF IInv, CopyEvidence, TypeOK, EvidenceSurvives, Restored, HalfRestored,
     InPlanOrder, Backed, OutcomeInv
<1>10. StaleInv'
  BY DEF IInv, CopyEvidence, TypeOK, StaleInv, Renamed, Saved
<1> QED
  BY <1>1, <1>2, <1>3, <1>4, <1>5, <1>6, <1>7, <1>8, <1>9, <1>10 DEF IInv

LEMMA SeedPlanStep == ASSUME IInv, SeedPlan PROVE IInv'
<1> USE DEF Running, Seeded, StagingPoints, TryPoints, AfterPoints, At, Goto,
        End, memoryVars, diskVars, Stages
<1>1. TypeOK'
  BY DEF IInv, SeedPlan, TypeOK
<1>2. KeptInv'
  BY DEF IInv, SeedPlan, TypeOK, KeptInv, Backed
<1>3. CompletedInv'
  BY DEF IInv, SeedPlan, TypeOK, CompletedInv, Backed, NextPhase, KeptInv
<1>4. ProgressInv'
  BY DEF IInv, SeedPlan, TypeOK, ProgressInv, CompletedInv, Backed, NextPhase
<1>5. LedgerInv'
  BY DEF IInv, SeedPlan, TypeOK, LedgerInv, CompletedInv, NextPhase
<1>6. OutcomeInv'
  BY DEF IInv, SeedPlan, TypeOK, OutcomeInv, LedgerInv, InterruptedInv
<1>7. InterruptedInv'
  BY DEF IInv, SeedPlan, TypeOK, InterruptedInv, LedgerInv, KeptInv, KeptBy, OutcomeInv
<1>8. LedgerEarned'
  BY DEF IInv, SeedPlan, TypeOK, LedgerEarned, Backed, LedgerInv, OutcomeInv
<1>9. EvidenceSurvives'
  BY DEF IInv, SeedPlan, TypeOK, EvidenceSurvives, Restored, HalfRestored,
     InPlanOrder, Backed, OutcomeInv
<1>10. StaleInv'
  BY DEF IInv, SeedPlan, TypeOK, StaleInv, Renamed, Saved
<1> QED
  BY <1>1, <1>2, <1>3, <1>4, <1>5, <1>6, <1>7, <1>8, <1>9, <1>10 DEF IInv

LEMMA SeedProgressStep == ASSUME IInv, SeedProgress PROVE IInv'
<1> USE DEF Running, Seeded, StagingPoints, TryPoints, AfterPoints, At, Goto,
        End, memoryVars, diskVars, Stages
<1>1. TypeOK'
  BY PlanAssumption DEF IInv, SeedProgress, TypeOK
<1>2. KeptInv'
  BY DEF IInv, SeedProgress, TypeOK, KeptInv, Backed
<1>3. CompletedInv'
  BY DEF IInv, SeedProgress, TypeOK, CompletedInv, Backed, NextPhase, KeptInv
<1>4. ProgressInv'
  BY DEF IInv, SeedProgress, TypeOK, ProgressInv, CompletedInv, Backed, NextPhase
<1>5. LedgerInv'
  BY DEF IInv, SeedProgress, TypeOK, LedgerInv, CompletedInv, NextPhase
<1>6. OutcomeInv'
  BY DEF IInv, SeedProgress, TypeOK, OutcomeInv, LedgerInv, InterruptedInv
<1>7. InterruptedInv'
  BY DEF IInv, SeedProgress, TypeOK, InterruptedInv, LedgerInv, KeptInv, KeptBy, OutcomeInv
<1>8. LedgerEarned'
  BY DEF IInv, SeedProgress, TypeOK, LedgerEarned, Backed, LedgerInv, OutcomeInv
<1>9. EvidenceSurvives'
  BY DEF IInv, SeedProgress, TypeOK, EvidenceSurvives, Restored, HalfRestored,
     InPlanOrder, Backed, OutcomeInv
<1>10. StaleInv'
  BY DEF IInv, SeedProgress, TypeOK, StaleInv, Renamed, Saved
<1> QED
  BY <1>1, <1>2, <1>3, <1>4, <1>5, <1>6, <1>7, <1>8, <1>9, <1>10 DEF IInv

LEMMA WritePlanStep == ASSUME IInv, WritePlan PROVE IInv'
<1> USE DEF Running, Seeded, StagingPoints, TryPoints, AfterPoints, At, Goto,
        End, memoryVars, diskVars, Stages
<1>1. TypeOK'
  BY DEF IInv, WritePlan, TypeOK, Renamed, Saved
<1>2. KeptInv'
  BY DEF IInv, WritePlan, TypeOK, KeptInv, Backed
<1>3. CompletedInv'
  BY DEF IInv, WritePlan, TypeOK, CompletedInv, Backed, NextPhase, KeptInv
<1>4. ProgressInv'
  BY DEF IInv, WritePlan, TypeOK, ProgressInv, CompletedInv, Backed, NextPhase
<1>5. LedgerInv'
  BY DEF IInv, WritePlan, TypeOK, LedgerInv, CompletedInv, NextPhase
<1>6. OutcomeInv'
  BY DEF IInv, WritePlan, TypeOK, OutcomeInv, LedgerInv, InterruptedInv
<1>7. InterruptedInv'
  BY DEF IInv, WritePlan, TypeOK, InterruptedInv, LedgerInv, KeptInv, KeptBy, OutcomeInv
<1>8. LedgerEarned'
  BY DEF IInv, WritePlan, TypeOK, LedgerEarned, Backed, LedgerInv, OutcomeInv
<1>9. EvidenceSurvives'
  BY DEF IInv, WritePlan, TypeOK, EvidenceSurvives, Restored, HalfRestored,
     InPlanOrder, Backed, OutcomeInv
<1>10. StaleInv'
  BY DEF IInv, WritePlan, TypeOK, StaleInv, Renamed, Saved
<1> QED
  BY <1>1, <1>2, <1>3, <1>4, <1>5, <1>6, <1>7, <1>8, <1>9, <1>10 DEF IInv

LEMMA PrepareStep == ASSUME IInv, Prepare PROVE IInv'
<1> USE DEF Running, Seeded, StagingPoints, TryPoints, AfterPoints, At, Goto,
        End, memoryVars, diskVars, Stages
<1>1. TypeOK'
  BY DEF IInv, Prepare, TypeOK
<1>2. KeptInv'
  BY DEF IInv, Prepare, TypeOK, KeptInv, Backed
<1>3. CompletedInv'
  BY DEF IInv, Prepare, TypeOK, CompletedInv, Backed, NextPhase, KeptInv
<1>4. ProgressInv'
  BY DEF IInv, Prepare, TypeOK, ProgressInv, CompletedInv, Backed, NextPhase
<1>5. LedgerInv'
  BY DEF IInv, Prepare, TypeOK, LedgerInv, CompletedInv, NextPhase
<1>6. OutcomeInv'
  BY DEF IInv, Prepare, TypeOK, OutcomeInv, LedgerInv, InterruptedInv
<1>7. InterruptedInv'
  BY DEF IInv, Prepare, TypeOK, InterruptedInv, LedgerInv, KeptInv, KeptBy, OutcomeInv
<1>8. LedgerEarned'
  BY DEF IInv, Prepare, TypeOK, LedgerEarned, Backed, LedgerInv, OutcomeInv
<1>9. EvidenceSurvives'
  BY DEF IInv, Prepare, TypeOK, EvidenceSurvives, Restored, HalfRestored,
     InPlanOrder, Backed, OutcomeInv
<1>10. StaleInv'
  BY DEF IInv, Prepare, TypeOK, StaleInv, Renamed, Saved
<1> QED
  BY <1>1, <1>2, <1>3, <1>4, <1>5, <1>6, <1>7, <1>8, <1>9, <1>10 DEF IInv

LEMMA LaunchStep == ASSUME IInv, Launch PROVE IInv'
<1> USE DEF Running, Seeded, StagingPoints, TryPoints, AfterPoints, At, Goto,
        End, memoryVars, diskVars, Stages
<1>1. TypeOK'
  BY DEF IInv, Launch, TypeOK
<1>2. KeptInv'
  BY DEF IInv, Launch, TypeOK, KeptInv, Backed
<1>3. CompletedInv'
  <2>1. /\ Len(kept) \in Nat /\ Len(completed) \in Nat /\ Last \in Nat
        /\ Len(kept) + Len(completed) <= Last
    BY PlanAssumption DEF IInv, TypeOK
  <2>2. NextPhase <= Last <=> Len(kept) + Len(completed) < Last
    BY <2>1 DEF NextPhase
  <2>3. /\ UNCHANGED <<stage, kept, completed, receipts>>
        /\ pc = "launch" /\ pc' = IF NextPhase <= Last THEN "phase" ELSE "execute"
    BY DEF Launch
  <2>4. InPlanOrder(completed, Len(kept) + 1) /\ Backed(stage, completed)
    BY <2>3 DEF IInv, CompletedInv
  <2>5. Backed(stage, completed)'
    BY <2>3, <2>4 DEF Backed
  <2>6. pc' = "phase" => Len(kept) + Len(completed) < Last
    BY <2>2, <2>3
  <2>7. pc' = "execute" => Len(kept) + Len(completed) = Last
    BY <2>1, <2>2, <2>3
  <2>8. pc' \in {"phase", "execute"}
    BY <2>3
  <2> QED
    BY <2>1, <2>3, <2>4, <2>5, <2>6, <2>7, <2>8 DEF CompletedInv
<1>4. ProgressInv'
  BY DEF IInv, Launch, TypeOK, ProgressInv, CompletedInv, Backed, NextPhase
<1>5. LedgerInv'
  BY DEF IInv, Launch, TypeOK, LedgerInv, CompletedInv, NextPhase
<1>6. OutcomeInv'
  BY DEF IInv, Launch, TypeOK, OutcomeInv, LedgerInv, InterruptedInv
<1>7. InterruptedInv'
  BY DEF IInv, Launch, TypeOK, InterruptedInv, LedgerInv, KeptInv, KeptBy, OutcomeInv
<1>8. LedgerEarned'
  BY DEF IInv, Launch, TypeOK, LedgerEarned, Backed, LedgerInv, OutcomeInv
<1>9. EvidenceSurvives'
  BY DEF IInv, Launch, TypeOK, EvidenceSurvives, Restored, HalfRestored,
     InPlanOrder, Backed, OutcomeInv
<1>10. StaleInv'
  BY DEF IInv, Launch, TypeOK, StaleInv, Renamed, Saved
<1> QED
  BY <1>1, <1>2, <1>3, <1>4, <1>5, <1>6, <1>7, <1>8, <1>9, <1>10 DEF IInv

LEMMA PhaseEndsStep == ASSUME IInv, PhaseEnds PROVE IInv'
<1> USE DEF Running, Seeded, StagingPoints, TryPoints, AfterPoints, At, Goto,
        End, memoryVars, diskVars, Stages
<1>a. /\ pc = "phase" /\ pc' = "record" /\ stage \in {1, 2}
      /\ UNCHANGED <<stage, kept, completed, raised, progress, executed,
                    interrupted, outcome, plan>>
  BY DEF PhaseEnds, IInv, TypeOK
<1>b. PICK code \in Codes : receipts' = [receipts EXCEPT ![stage][NextPhase] = code]
  BY DEF PhaseEnds
<1>c. /\ Len(kept) \in Nat \ {0} /\ Len(completed) \in Nat /\ Last \in Nat
      /\ kept \in Seq(Rows) /\ completed \in Seq(Rows)
      /\ Len(kept) + Len(completed) < Last
  <2>1. kept \in Seq(Rows) /\ completed \in Seq(Rows)
    BY DEF IInv, TypeOK
  <2>2. Len(kept) = KeptBy(stage) /\ Len(kept) + Len(completed) < Last
    BY <1>a DEF IInv, KeptInv, CompletedInv
  <2>3. KeptBy(stage) \in Nat \ {0}
    BY <1>a, PlanAssumption DEF KeptBy
  <2> QED
    BY <2>1, <2>2, <2>3, PlanAssumption
<1>d. NextPhase \in Phases /\ NextPhase = Len(kept) + Len(completed) + 1
  BY <1>c DEF NextPhase, Phases
<1>e. /\ receipts[stage] \in [Phases -> Codes \cup {"none"}]
      /\ receipts'[stage] = [receipts[stage] EXCEPT ![NextPhase] = code]
      /\ \A s \in Stages : s # stage => receipts'[s] = receipts[s]
  BY <1>a, <1>b DEF IInv, TypeOK
<1>s. ASSUME NEW rows \in Seq(Rows), NEW first \in Nat \ {0},
             InPlanOrder(rows, first), BackedBy(receipts[stage], rows),
             first + Len(rows) - 1 < NextPhase
      PROVE  BackedBy(receipts'[stage], rows)
  <2>1. BackedBy([receipts[stage] EXCEPT ![NextPhase] = code], rows)
    BY <1>s, <1>d, <1>e, BackedStays
  <2> QED
    BY <2>1, <1>e
<1>f. BackedBy(receipts'[stage], kept)
  <2>1. InPlanOrder(kept, 1) /\ BackedBy(receipts[stage], kept)
    BY <1>a DEF IInv, KeptInv, Backed, BackedBy
  <2>2. 1 \in Nat \ {0} /\ 1 + Len(kept) - 1 < NextPhase
    BY <1>c, <1>d
  <2> QED
    BY <2>1, <2>2, <1>c, <1>s
<1>g. BackedBy(receipts'[stage], completed)
  <2>1. InPlanOrder(completed, Len(kept) + 1) /\ BackedBy(receipts[stage], completed)
    BY <1>a DEF IInv, CompletedInv, Backed, BackedBy
  <2>2. Len(kept) + 1 \in Nat \ {0}
        /\ (Len(kept) + 1) + Len(completed) - 1 < NextPhase
    BY <1>c, <1>d
  <2> QED
    BY <2>1, <2>2, <1>c, <1>s
<1>1. TypeOK'
  <2>1. receipts' \in [Stages -> [Phases -> Codes \cup {"none"}]]
    BY <1>b DEF IInv, TypeOK
  <2> QED
    BY <2>1, <1>a DEF PhaseEnds, IInv, TypeOK
<1>2. KeptInv'
  BY <1>a, <1>f DEF IInv, KeptInv, Backed, BackedBy
<1>3. CompletedInv'
  <2>1. receipts'[stage][NextPhase] \in Codes /\ NextPhase' = NextPhase
    BY <1>a, <1>d, <1>e DEF NextPhase
  <2> QED
    BY <1>a, <1>c, <1>g, <2>1 DEF IInv, CompletedInv, Backed, BackedBy
<1>4. ProgressInv'
  <2>1. CASE progress[stage] = kept
    BY <1>a, <2>1 DEF IInv, ProgressInv
  <2>2. CASE progress[stage] # kept
    <3>1. /\ progress[stage] \in Seq(Rows) /\ Len(progress[stage]) \in Nat
          /\ Len(progress[stage]) <= Len(completed)
          /\ InPlanOrder(progress[stage], Len(kept) + 1)
          /\ BackedBy(receipts[stage], progress[stage])
      BY <2>2, <1>a DEF IInv, TypeOK, ProgressInv, Backed, BackedBy
    <3>2. BackedBy(receipts'[stage], progress[stage])
      <4>1. /\ Len(progress[stage]) \in Nat
            /\ Len(progress[stage]) <= Len(completed)
        BY <3>1
      <4>2. ASSUME NEW k \in Nat, NEW m \in Nat, NEW n \in Nat, m <= n
            PROVE  k + 1 \in Nat \ {0} /\ (k + 1) + m - 1 < k + n + 1
        BY <4>2
      <4>3. Len(kept) + 1 \in Nat \ {0}
            /\ (Len(kept) + 1) + Len(progress[stage]) - 1 < NextPhase
        BY <4>1, <4>2, <1>c, <1>d
      <4> QED
        BY <3>1, <4>3, <1>s
    <3> QED
      BY <1>a, <3>1, <3>2 DEF IInv, ProgressInv, Backed, BackedBy
  <2> QED
    BY <2>1, <2>2
<1>5. LedgerInv'
  BY DEF IInv, PhaseEnds, TypeOK, LedgerInv, CompletedInv, NextPhase
<1>6. OutcomeInv'
  BY DEF IInv, PhaseEnds, TypeOK, OutcomeInv, LedgerInv, InterruptedInv
<1>7. InterruptedInv'
  BY DEF IInv, PhaseEnds, TypeOK, InterruptedInv, LedgerInv, KeptInv, KeptBy, OutcomeInv
<1>8. LedgerEarned'
  BY DEF IInv, PhaseEnds, TypeOK, LedgerEarned, Backed, LedgerInv, OutcomeInv
<1>9. EvidenceSurvives'
  <2>1. outcome[stage] = "none"
    BY <1>a DEF IInv, OutcomeInv
  <2> QED
    BY <2>1, <1>a, <1>e DEF IInv, EvidenceSurvives, Restored, HalfRestored,
       Backed, InPlanOrder
<1>10. StaleInv'
  BY DEF IInv, PhaseEnds, TypeOK, StaleInv, Renamed, Saved
<1> QED
  BY <1>1, <1>2, <1>3, <1>4, <1>5, <1>6, <1>7, <1>8, <1>9, <1>10 DEF IInv

LEMMA RecordPhaseStep == ASSUME IInv, RecordPhase PROVE IInv'
<1> USE DEF Running, Seeded, StagingPoints, TryPoints, AfterPoints, At, Goto,
        End, memoryVars, diskVars, Stages
<1>a. /\ pc = "record" /\ pc' = "save" /\ stage \in {1, 2}
      /\ UNCHANGED <<stage, kept, raised, progress, executed, receipts,
                    interrupted, outcome, plan>>
  BY DEF RecordPhase, IInv, TypeOK
<1>c. /\ Len(kept) \in Nat \ {0} /\ Len(completed) \in Nat /\ Last \in Nat
      /\ kept \in Seq(Rows) /\ completed \in Seq(Rows)
      /\ Len(kept) + Len(completed) < Last
  <2>1. kept \in Seq(Rows) /\ completed \in Seq(Rows)
    BY DEF IInv, TypeOK
  <2>2. Len(kept) = KeptBy(stage) /\ Len(kept) + Len(completed) < Last
    BY <1>a DEF IInv, KeptInv, CompletedInv
  <2>3. KeptBy(stage) \in Nat \ {0}
    BY <1>a, PlanAssumption DEF KeptBy
  <2> QED
    BY <2>1, <2>2, <2>3, PlanAssumption
<1> DEFINE row == [phase |-> NextPhase, code |-> receipts[stage][NextPhase]]
<1>d. /\ NextPhase \in Phases /\ NextPhase = (Len(kept) + 1) + Len(completed)
      /\ receipts[stage][NextPhase] \in Codes /\ row \in Rows
      /\ receipts[stage][row.phase] = row.code
  BY <1>a, <1>c DEF NextPhase, Phases, IInv, CompletedInv, Rows
<1>e. completed' = Append(completed, row)
  BY DEF RecordPhase
<1>f. /\ completed' \in Seq(Rows) /\ Len(completed') = Len(completed) + 1
      /\ InPlanOrder(completed', Len(kept) + 1)
  <2>1. InPlanOrder(completed, Len(kept) + 1)
    BY <1>a DEF IInv, CompletedInv
  <2> HIDE DEF row
  <2>2. row = [phase |-> (Len(kept) + 1) + Len(completed),
               code |-> receipts[stage][NextPhase]]
    BY <1>d DEF row
  <2>3. Len(kept) + 1 \in Nat \ {0} /\ (Len(kept) + 1) + Len(completed) <= Last
    BY <1>c
  <2> QED
    BY <2>1, <2>2, <2>3, <1>c, <1>d, <1>e, OrderAppend
<1>g. BackedBy(receipts[stage], completed')
  <2>1. BackedBy(receipts[stage], completed)
    BY <1>a DEF IInv, CompletedInv, Backed, BackedBy
  <2> HIDE DEF row
  <2> QED
    BY <2>1, <1>c, <1>d, <1>e, BackedAppend
<1>1. TypeOK'
  BY <1>a, <1>c, <1>f DEF RecordPhase, IInv, TypeOK
<1>2. KeptInv'
  BY DEF IInv, RecordPhase, TypeOK, KeptInv, Backed
<1>3. CompletedInv'
  <2>1. completed' # <<>>
    BY <1>f, <1>c
  <2> QED
    BY <1>a, <1>c, <1>f, <1>g, <2>1 DEF CompletedInv, Backed, BackedBy
<1>4. ProgressInv'
  BY <1>a, <1>c, <1>f DEF IInv, ProgressInv, TypeOK, Backed
<1>5. LedgerInv'
  BY DEF IInv, RecordPhase, TypeOK, LedgerInv, CompletedInv, NextPhase
<1>6. OutcomeInv'
  BY DEF IInv, RecordPhase, TypeOK, OutcomeInv, LedgerInv, InterruptedInv
<1>7. InterruptedInv'
  BY DEF IInv, RecordPhase, TypeOK, InterruptedInv, LedgerInv, KeptInv, KeptBy, OutcomeInv
<1>8. LedgerEarned'
  BY DEF IInv, RecordPhase, TypeOK, LedgerEarned, Backed, LedgerInv, OutcomeInv
<1>9. EvidenceSurvives'
  BY DEF IInv, RecordPhase, TypeOK, EvidenceSurvives, Restored, HalfRestored,
     InPlanOrder, Backed, OutcomeInv
<1>10. StaleInv'
  BY DEF IInv, RecordPhase, TypeOK, StaleInv, Renamed, Saved
<1> QED
  BY <1>1, <1>2, <1>3, <1>4, <1>5, <1>6, <1>7, <1>8, <1>9, <1>10 DEF IInv

LEMMA SaveProgressStep == ASSUME IInv, SaveProgress PROVE IInv'
<1> USE DEF Running, Seeded, StagingPoints, TryPoints, AfterPoints, At, Goto,
        End, memoryVars, diskVars, Stages
<1>1. TypeOK'
  <2>1. Len(completed) <= Last
    BY PlanAssumption DEF IInv, TypeOK
  <2> QED
    BY <2>1 DEF IInv, SaveProgress, TypeOK, Renamed, Saved
<1>2. KeptInv'
  BY DEF IInv, SaveProgress, TypeOK, KeptInv, Backed
<1>3. CompletedInv'
  BY DEF IInv, SaveProgress, TypeOK, CompletedInv, Backed, NextPhase, KeptInv
<1>4. ProgressInv'
  BY DEF IInv, SaveProgress, TypeOK, ProgressInv, CompletedInv, Backed, NextPhase
<1>5. LedgerInv'
  BY DEF IInv, SaveProgress, TypeOK, LedgerInv, CompletedInv, NextPhase
<1>6. OutcomeInv'
  BY DEF IInv, SaveProgress, TypeOK, OutcomeInv, LedgerInv, InterruptedInv
<1>7. InterruptedInv'
  BY DEF IInv, SaveProgress, TypeOK, InterruptedInv, LedgerInv, KeptInv, KeptBy, OutcomeInv
<1>8. LedgerEarned'
  BY DEF IInv, SaveProgress, TypeOK, LedgerEarned, Backed, LedgerInv, OutcomeInv
<1>9. EvidenceSurvives'
  BY DEF IInv, SaveProgress, TypeOK, EvidenceSurvives, Restored, HalfRestored,
     InPlanOrder, Backed, OutcomeInv
<1>10. StaleInv'
  BY DEF IInv, SaveProgress, TypeOK, StaleInv, Renamed, Saved
<1> QED
  BY <1>1, <1>2, <1>3, <1>4, <1>5, <1>6, <1>7, <1>8, <1>9, <1>10 DEF IInv

LEMMA StopContainerStep == ASSUME IInv, StopContainer PROVE IInv'
<1> USE DEF Running, Seeded, StagingPoints, TryPoints, AfterPoints, At, Goto,
        End, memoryVars, diskVars, Stages
<1>1. TypeOK'
  BY DEF IInv, StopContainer, TypeOK
<1>2. KeptInv'
  BY DEF IInv, StopContainer, TypeOK, KeptInv, Backed
<1>3. CompletedInv'
  BY DEF IInv, StopContainer, TypeOK, CompletedInv, Backed, NextPhase, KeptInv
<1>4. ProgressInv'
  BY DEF IInv, StopContainer, TypeOK, ProgressInv, CompletedInv, Backed, NextPhase
<1>5. LedgerInv'
  BY DEF IInv, StopContainer, TypeOK, LedgerInv, CompletedInv, NextPhase
<1>6. OutcomeInv'
  BY DEF IInv, StopContainer, TypeOK, OutcomeInv, LedgerInv, InterruptedInv
<1>7. InterruptedInv'
  BY DEF IInv, StopContainer, TypeOK, InterruptedInv, LedgerInv, KeptInv, KeptBy, OutcomeInv
<1>8. LedgerEarned'
  BY DEF IInv, StopContainer, TypeOK, LedgerEarned, Backed, LedgerInv, OutcomeInv
<1>9. EvidenceSurvives'
  BY DEF IInv, StopContainer, TypeOK, EvidenceSurvives, Restored, HalfRestored,
     InPlanOrder, Backed, OutcomeInv
<1>10. StaleInv'
  BY DEF IInv, StopContainer, TypeOK, StaleInv, Renamed, Saved
<1> QED
  BY <1>1, <1>2, <1>3, <1>4, <1>5, <1>6, <1>7, <1>8, <1>9, <1>10 DEF IInv

LEMMA WriteExecutedStep == ASSUME IInv, WriteExecuted PROVE IInv'
<1> USE DEF Running, Seeded, StagingPoints, TryPoints, AfterPoints, At, Goto,
        End, memoryVars, diskVars, Stages
<1>a. /\ pc = "execute" /\ pc' = "leave" /\ stage \in {1, 2}
      /\ UNCHANGED <<stage, kept, completed, raised, progress, receipts,
                    interrupted, outcome, plan>>
      /\ executed'[stage] = [kind |-> "rest", rows |-> completed]
      /\ \A s \in Stages : s # stage => executed'[s] = executed[s]
  BY DEF WriteExecuted, IInv, TypeOK
<1>b. /\ Len(kept) \in Nat \ {0} /\ Len(completed) \in Nat /\ Last \in Nat
      /\ kept \in Seq(Rows) /\ completed \in Seq(Rows)
      /\ Len(kept) + Len(completed) = Last
      /\ Len(kept) < Last
  <2>1. kept \in Seq(Rows) /\ completed \in Seq(Rows)
    BY DEF IInv, TypeOK
  <2>2. Len(kept) = KeptBy(stage) /\ Len(kept) + Len(completed) = Last
    BY <1>a DEF IInv, KeptInv, CompletedInv
  <2>3. KeptBy(stage) \in Nat \ {0} /\ KeptBy(stage) < Last
    BY <1>a, PlanAssumption DEF KeptBy
  <2> QED
    BY <2>1, <2>2, <2>3, PlanAssumption
<1>c. completed # <<>> /\ progress[stage] = completed
  BY <1>a, <1>b DEF IInv, ProgressInv
<1>1. TypeOK'
  <2>1. [kind |-> "rest", rows |-> completed] \in Ledgers
    BY <1>b DEF Ledgers
  <2>2. executed' \in [Stages -> Ledgers]
    BY <2>1 DEF WriteExecuted, IInv, TypeOK
  <2>3. \A s \in Stages : Len(executed'[s].rows) <= Last
    BY <1>a, <1>b DEF IInv, TypeOK
  <2> QED
    BY <1>a, <2>2, <2>3 DEF WriteExecuted, IInv, TypeOK, Renamed, Saved
<1>2. KeptInv'
  BY DEF IInv, WriteExecuted, TypeOK, KeptInv, Backed
<1>3. CompletedInv'
  BY DEF IInv, WriteExecuted, TypeOK, CompletedInv, Backed, NextPhase, KeptInv
<1>4. ProgressInv'
  BY DEF IInv, WriteExecuted, TypeOK, ProgressInv, CompletedInv, Backed, NextPhase
<1>5. LedgerInv'
  BY <1>a, <1>b, <1>c DEF LedgerInv
<1>6. OutcomeInv'
  BY DEF IInv, WriteExecuted, TypeOK, OutcomeInv, LedgerInv, InterruptedInv
<1>7. InterruptedInv'
  BY DEF IInv, WriteExecuted, TypeOK, InterruptedInv, LedgerInv, KeptInv, KeptBy, OutcomeInv
<1>8. LedgerEarned'
  BY DEF IInv, WriteExecuted, TypeOK, LedgerEarned, Backed, LedgerInv, OutcomeInv
<1>9. EvidenceSurvives'
  BY DEF IInv, WriteExecuted, TypeOK, EvidenceSurvives, Restored, HalfRestored,
     InPlanOrder, Backed, OutcomeInv
<1>10. StaleInv'
  BY DEF IInv, WriteExecuted, TypeOK, StaleInv, Renamed, Saved
<1> QED
  BY <1>1, <1>2, <1>3, <1>4, <1>5, <1>6, <1>7, <1>8, <1>9, <1>10 DEF IInv

LEMMA LeaveTryStep == ASSUME IInv, LeaveTry PROVE IInv'
<1> USE DEF Running, Seeded, StagingPoints, TryPoints, AfterPoints, At, Goto,
        End, memoryVars, diskVars, Stages
<1>1. TypeOK'
  BY DEF IInv, LeaveTry, TypeOK
<1>2. KeptInv'
  BY DEF IInv, LeaveTry, TypeOK, KeptInv, Backed
<1>3. CompletedInv'
  BY DEF IInv, LeaveTry, TypeOK, CompletedInv, Backed, NextPhase, KeptInv
<1>4. ProgressInv'
  BY DEF IInv, LeaveTry, TypeOK, ProgressInv, CompletedInv, Backed, NextPhase
<1>5. LedgerInv'
  BY DEF IInv, LeaveTry, TypeOK, LedgerInv, CompletedInv, NextPhase
<1>6. OutcomeInv'
  BY DEF IInv, LeaveTry, TypeOK, OutcomeInv, LedgerInv, InterruptedInv
<1>7. InterruptedInv'
  BY DEF IInv, LeaveTry, TypeOK, InterruptedInv, LedgerInv, KeptInv, KeptBy, OutcomeInv
<1>8. LedgerEarned'
  BY DEF IInv, LeaveTry, TypeOK, LedgerEarned, Backed, LedgerInv, OutcomeInv
<1>9. EvidenceSurvives'
  BY DEF IInv, LeaveTry, TypeOK, EvidenceSurvives, Restored, HalfRestored,
     InPlanOrder, Backed, OutcomeInv
<1>10. StaleInv'
  BY DEF IInv, LeaveTry, TypeOK, StaleInv, Renamed, Saved
<1> QED
  BY <1>1, <1>2, <1>3, <1>4, <1>5, <1>6, <1>7, <1>8, <1>9, <1>10 DEF IInv

LEMMA WriteInterruptedStep == ASSUME IInv, WriteInterrupted PROVE IInv'
<1> USE DEF Running, Seeded, StagingPoints, TryPoints, AfterPoints, At, Goto,
        End, memoryVars, diskVars, Stages
<1>a. /\ pc = "except" /\ pc' = "restore" /\ stage \in {1, 2} /\ raised' = TRUE
      /\ UNCHANGED <<stage, kept, completed, progress, receipts, executed,
                    outcome, plan>>
      /\ interrupted'[stage] = [kind |-> "rest", rows |-> completed]
      /\ \A s \in Stages : s # stage => interrupted'[s] = interrupted[s]
  BY DEF WriteInterrupted, IInv, TypeOK
<1>b. /\ Len(kept) \in Nat /\ Len(completed) \in Nat /\ Last \in Nat
      /\ completed \in Seq(Rows) /\ Len(kept) + Len(completed) <= Last
      /\ Len(kept) = KeptBy(stage)
  BY <1>a, PlanAssumption DEF IInv, TypeOK, CompletedInv, KeptInv
<1>1. TypeOK'
  <2>1. [kind |-> "rest", rows |-> completed] \in Ledgers
    BY <1>b DEF Ledgers
  <2>2. interrupted' \in [Stages -> Ledgers]
    BY <2>1 DEF WriteInterrupted, IInv, TypeOK
  <2>3. \A s \in Stages : Len(interrupted'[s].rows) <= Last
    BY <1>a, <1>b DEF IInv, TypeOK
  <2> QED
    BY <1>a, <2>2, <2>3 DEF WriteInterrupted, IInv, TypeOK
<1>2. KeptInv'
  BY DEF IInv, WriteInterrupted, TypeOK, KeptInv, Backed
<1>3. CompletedInv'
  BY DEF IInv, WriteInterrupted, TypeOK, CompletedInv, Backed, NextPhase, KeptInv
<1>4. ProgressInv'
  BY DEF IInv, WriteInterrupted, TypeOK, ProgressInv, CompletedInv, Backed, NextPhase
<1>5. LedgerInv'
  BY DEF IInv, WriteInterrupted, TypeOK, LedgerInv, CompletedInv, NextPhase
<1>6. OutcomeInv'
  BY DEF IInv, WriteInterrupted, TypeOK, OutcomeInv, LedgerInv, InterruptedInv
<1>7. InterruptedInv'
  <2>1. executed[stage].kind # "none" => Len(completed) = Last - KeptBy(stage)
    BY <1>a, <1>b DEF IInv, LedgerInv
  <2>2. \A s \in Stages :
          executed'[s].kind # "none" /\ interrupted'[s].kind # "none" =>
            Len(interrupted'[s].rows) = Last - KeptBy(s)
    BY <1>a, <2>1 DEF IInv, InterruptedInv
  <2> QED
    BY <1>a, <2>2 DEF InterruptedInv, KeptBy
<1>8. LedgerEarned'
  BY DEF IInv, WriteInterrupted, TypeOK, LedgerEarned, Backed, LedgerInv, OutcomeInv
<1>9. EvidenceSurvives'
  BY DEF IInv, WriteInterrupted, TypeOK, EvidenceSurvives, Restored, HalfRestored,
     InPlanOrder, Backed, OutcomeInv
<1>10. StaleInv'
  BY DEF IInv, WriteInterrupted, TypeOK, StaleInv, Renamed, Saved
<1> QED
  BY <1>1, <1>2, <1>3, <1>4, <1>5, <1>6, <1>7, <1>8, <1>9, <1>10 DEF IInv

LEMMA RestoreProductionStep == ASSUME IInv, RestoreProduction PROVE IInv'
<1> USE DEF Running, Seeded, StagingPoints, TryPoints, AfterPoints, At, Goto,
        End, memoryVars, diskVars, Stages
<1>1. TypeOK'
  BY DEF IInv, RestoreProduction, TypeOK
<1>2. KeptInv'
  BY DEF IInv, RestoreProduction, TypeOK, KeptInv, Backed
<1>3. CompletedInv'
  BY DEF IInv, RestoreProduction, TypeOK, CompletedInv, Backed, NextPhase, KeptInv
<1>4. ProgressInv'
  BY DEF IInv, RestoreProduction, TypeOK, ProgressInv, CompletedInv, Backed, NextPhase
<1>5. LedgerInv'
  BY DEF IInv, RestoreProduction, TypeOK, LedgerInv, CompletedInv, NextPhase
<1>6. OutcomeInv'
  BY DEF IInv, RestoreProduction, TypeOK, OutcomeInv, LedgerInv, InterruptedInv
<1>7. InterruptedInv'
  BY DEF IInv, RestoreProduction, TypeOK, InterruptedInv, LedgerInv, KeptInv, KeptBy, OutcomeInv
<1>8. LedgerEarned'
  BY DEF IInv, RestoreProduction, TypeOK, LedgerEarned, Backed, LedgerInv, OutcomeInv
<1>9. EvidenceSurvives'
  BY DEF IInv, RestoreProduction, TypeOK, EvidenceSurvives, Restored, HalfRestored,
     InPlanOrder, Backed, OutcomeInv
<1>10. StaleInv'
  BY DEF IInv, RestoreProduction, TypeOK, StaleInv, Renamed, Saved
<1> QED
  BY <1>1, <1>2, <1>3, <1>4, <1>5, <1>6, <1>7, <1>8, <1>9, <1>10 DEF IInv

LEMMA MergeStep == ASSUME IInv, Merge PROVE IInv'
<1> USE DEF Running, Seeded, StagingPoints, TryPoints, AfterPoints, At, Goto,
        End, memoryVars, diskVars, Stages
<1>a. /\ pc = "merge" /\ pc' = "plan" /\ stage \in {1, 2}
      /\ UNCHANGED <<stage, kept, completed, raised, progress, receipts,
                    interrupted, outcome, plan>>
      /\ \A s \in Stages : s # stage => executed'[s] = executed[s]
  BY DEF Merge, IInv, TypeOK
<1>b. /\ executed[stage].kind = "rest" /\ executed[stage].rows = completed
      /\ progress[stage] = completed /\ Len(kept) + Len(completed) = Last
  BY <1>a DEF Merge, IInv, LedgerInv, TypeOK, Ledgers
<1>c. executed'[stage] = [kind |-> "merged", rows |-> kept \o completed]
  BY <1>a, <1>b DEF Merge, IInv, TypeOK
<1>d. /\ kept \in Seq(Rows) /\ completed \in Seq(Rows)
      /\ InPlanOrder(kept, 1) /\ InPlanOrder(completed, Len(kept) + 1)
      /\ BackedBy(receipts[stage], kept) /\ BackedBy(receipts[stage], completed)
  BY <1>a DEF IInv, TypeOK, KeptInv, CompletedInv, Backed, BackedBy
<1>e. /\ kept \o completed \in Seq(Rows) /\ Len(kept \o completed) = Last
      /\ InPlanOrder(kept \o completed, 1)
  BY <1>b, <1>d, OrderConcat
<1>f. BackedBy(receipts[stage], kept \o completed)
  BY <1>d, BackedConcat
<1>1. TypeOK'
  <2>1. [kind |-> "merged", rows |-> kept \o completed] \in Ledgers
    BY <1>e DEF Ledgers
  <2>2. executed' \in [Stages -> Ledgers]
    BY <2>1, <1>b DEF Merge, IInv, TypeOK
  <2>3. \A s \in Stages : Len(executed'[s].rows) <= Last
    BY <1>a, <1>c, <1>e, PlanAssumption DEF IInv, TypeOK
  <2> QED
    BY <1>a, <2>2, <2>3 DEF Merge, IInv, TypeOK
<1>2. KeptInv'
  BY DEF IInv, Merge, TypeOK, KeptInv, Backed
<1>3. CompletedInv'
  BY DEF IInv, Merge, TypeOK, CompletedInv, Backed, NextPhase, KeptInv
<1>4. ProgressInv'
  BY DEF IInv, Merge, TypeOK, ProgressInv, CompletedInv, Backed, NextPhase
<1>5. LedgerInv'
  BY <1>a, <1>b, <1>c DEF LedgerInv
<1>6. OutcomeInv'
  BY DEF IInv, Merge, TypeOK, OutcomeInv, LedgerInv, InterruptedInv
<1>7. InterruptedInv'
  BY DEF IInv, Merge, TypeOK, InterruptedInv, LedgerInv, KeptInv, KeptBy, OutcomeInv
<1>8. LedgerEarned'
  <2> SUFFICES ASSUME NEW s \in Stages, executed'[s].kind = "merged"
               PROVE  /\ Len(executed'[s].rows) = Last
                      /\ InPlanOrder(executed'[s].rows, 1)
                      /\ BackedBy(receipts'[s], executed'[s].rows)
    BY DEF LedgerEarned, Backed, BackedBy
  <2>1. CASE s = stage
    BY <2>1, <1>a, <1>c, <1>e, <1>f
  <2>2. CASE s # stage
    <3>1. executed'[s] = executed[s] /\ receipts'[s] = receipts[s]
      BY <2>2, <1>a
    <3> QED
      BY <3>1 DEF IInv, LedgerEarned, Backed, BackedBy
  <2> QED
    BY <2>1, <2>2
<1>9. EvidenceSurvives'
  BY <1>a, <1>c DEF IInv, TypeOK, EvidenceSurvives, Restored, HalfRestored,
     InPlanOrder, Backed, OutcomeInv
<1>10. StaleInv'
  BY DEF IInv, Merge, TypeOK, StaleInv, Renamed, Saved
<1> QED
  BY <1>1, <1>2, <1>3, <1>4, <1>5, <1>6, <1>7, <1>8, <1>9, <1>10 DEF IInv

LEMMA NothingToMergeStep == ASSUME IInv, NothingToMerge PROVE IInv'
<1> USE DEF Running, Seeded, StagingPoints, TryPoints, AfterPoints, At, Goto,
        End, memoryVars, diskVars, Stages
<1>1. TypeOK'
  BY DEF IInv, NothingToMerge, TypeOK
<1>2. KeptInv'
  BY DEF IInv, NothingToMerge, TypeOK, KeptInv, Backed
<1>3. CompletedInv'
  BY DEF IInv, NothingToMerge, TypeOK, CompletedInv, Backed, NextPhase, KeptInv
<1>4. ProgressInv'
  BY DEF IInv, NothingToMerge, TypeOK, ProgressInv, CompletedInv, Backed, NextPhase
<1>5. LedgerInv'
  BY DEF IInv, NothingToMerge, TypeOK, LedgerInv, CompletedInv, NextPhase
<1>6. OutcomeInv'
  BY DEF IInv, NothingToMerge, TypeOK, OutcomeInv, LedgerInv, InterruptedInv
<1>7. InterruptedInv'
  BY DEF IInv, NothingToMerge, TypeOK, InterruptedInv, LedgerInv, KeptInv, KeptBy, OutcomeInv
<1>8. LedgerEarned'
  BY DEF IInv, NothingToMerge, TypeOK, LedgerEarned, Backed, LedgerInv, OutcomeInv
<1>9. EvidenceSurvives'
  BY DEF IInv, NothingToMerge, TypeOK, EvidenceSurvives, Restored, HalfRestored,
     InPlanOrder, Backed, OutcomeInv
<1>10. StaleInv'
  BY DEF IInv, NothingToMerge, TypeOK, StaleInv, Renamed, Saved
<1> QED
  BY <1>1, <1>2, <1>3, <1>4, <1>5, <1>6, <1>7, <1>8, <1>9, <1>10 DEF IInv

LEMMA RestorePlanStep == ASSUME IInv, RestorePlan PROVE IInv'
<1> USE DEF Running, Seeded, StagingPoints, TryPoints, AfterPoints, At, Goto,
        End, memoryVars, diskVars, Stages
<1>1. TypeOK'
  BY DEF IInv, RestorePlan, TypeOK
<1>2. KeptInv'
  BY DEF IInv, RestorePlan, TypeOK, KeptInv, Backed
<1>3. CompletedInv'
  BY DEF IInv, RestorePlan, TypeOK, CompletedInv, Backed, NextPhase, KeptInv
<1>4. ProgressInv'
  BY DEF IInv, RestorePlan, TypeOK, ProgressInv, CompletedInv, Backed, NextPhase
<1>5. LedgerInv'
  BY DEF IInv, RestorePlan, TypeOK, LedgerInv, CompletedInv, NextPhase
<1>6. OutcomeInv'
  BY DEF IInv, RestorePlan, TypeOK, OutcomeInv, LedgerInv, InterruptedInv
<1>7. InterruptedInv'
  BY DEF IInv, RestorePlan, TypeOK, InterruptedInv, LedgerInv, KeptInv, KeptBy, OutcomeInv
<1>8. LedgerEarned'
  BY DEF IInv, RestorePlan, TypeOK, LedgerEarned, Backed, LedgerInv, OutcomeInv
<1>9. EvidenceSurvives'
  BY DEF IInv, RestorePlan, TypeOK, EvidenceSurvives, Restored, HalfRestored,
     InPlanOrder, Backed, OutcomeInv
<1>10. StaleInv'
  BY DEF IInv, RestorePlan, TypeOK, StaleInv, Renamed, Saved
<1> QED
  BY <1>1, <1>2, <1>3, <1>4, <1>5, <1>6, <1>7, <1>8, <1>9, <1>10 DEF IInv

LEMMA RestoreProgressStep == ASSUME IInv, RestoreProgress PROVE IInv'
<1> USE DEF Running, Seeded, StagingPoints, TryPoints, AfterPoints, At, Goto,
        End, memoryVars, diskVars, Stages
<1>a. /\ pc = "progress" /\ pc' = "idle" /\ stage \in {1, 2}
      /\ UNCHANGED <<stage, receipts, executed, interrupted, plan>>
      /\ kept' = <<>> /\ completed' = <<>>
      /\ progress'[stage] = kept \o FreshRows
      /\ \A s \in Stages : s # stage =>
           progress'[s] = progress[s] /\ outcome'[s] = outcome[s]
  BY DEF RestoreProgress, IInv, TypeOK
<1>b. /\ kept \in Seq(Rows) /\ FreshRows \in Seq(Rows)
      /\ InPlanOrder(kept, 1) /\ InPlanOrder(FreshRows, Len(kept) + 1)
      /\ BackedBy(receipts[stage], kept) /\ BackedBy(receipts[stage], FreshRows)
  <2>1. CASE progress[stage] = kept
    <3>1. FreshRows = <<>>
      BY <2>1, <1>a, FreshRowsAre
    <3>2. FreshRows \in Seq(Rows) /\ BackedBy(receipts[stage], FreshRows)
      BY <3>1 DEF BackedBy
    <3> QED
      BY <3>2, <1>a DEF IInv, TypeOK, KeptInv, Backed, BackedBy, MayRestore,
         RestoreProgress
  <2>2. CASE progress[stage] # kept
    <3>1. FreshRows = progress[stage]
      BY <2>2, <1>a, FreshRowsAre
    <3> QED
      BY <3>1, <2>2, <1>a DEF IInv, TypeOK, KeptInv, ProgressInv, Backed, BackedBy
  <2> QED
    BY <2>1, <2>2
<1>c. /\ kept \o FreshRows \in Seq(Rows)
      /\ Len(kept \o FreshRows) = Len(kept) + Len(FreshRows)
      /\ InPlanOrder(kept \o FreshRows, 1)
  BY <1>b, OrderConcat
<1>d. BackedBy(receipts[stage], kept \o FreshRows)
  BY <1>b, BackedConcat
<1>e. Len(kept \o FreshRows) <= Last /\ Len(kept) = KeptBy(stage)
  BY <1>a, <1>c, PlanAssumption DEF InPlanOrder, IInv, KeptInv
<1>f. executed[stage].kind = "merged" => executed[stage].rows = kept \o FreshRows
  <2> SUFFICES ASSUME executed[stage].kind = "merged"
               PROVE  FreshRows = completed
    BY <1>a DEF IInv, LedgerInv
  <2>1. progress[stage] = completed /\ Len(kept) + Len(completed) = Last
    BY <1>a DEF IInv, LedgerInv
  <2>2. completed # kept
    BY <2>1, <1>a, RecordedIsNotKept
  <2> QED
    BY <2>1, <2>2, <1>a, FreshRowsAre
<1>1. TypeOK'
  <2>1. kept' \in Seq(Rows) /\ completed' \in Seq(Rows)
        /\ Len(kept') + Len(completed') <= Last
    BY <1>a, PlanAssumption
  <2>2. progress' \in [Stages -> Seq(Rows)]
    BY <1>c DEF RestoreProgress, IInv, TypeOK
  <2>3. \A s \in Stages : Len(progress'[s]) <= Last
    BY <1>a, <1>e DEF IInv, TypeOK
  <2>4. outcome' \in [Stages -> {"none", "complete", "failed", "refused", "broken"}]
    BY DEF RestoreProgress, IInv, TypeOK
  <2> QED
    BY <2>1, <2>2, <2>3, <2>4 DEF RestoreProgress, IInv, TypeOK
<1>2. KeptInv'
  BY DEF IInv, RestoreProgress, TypeOK, KeptInv, Backed
<1>3. CompletedInv'
  BY DEF IInv, RestoreProgress, TypeOK, CompletedInv, Backed, NextPhase, KeptInv
<1>4. ProgressInv'
  BY DEF IInv, RestoreProgress, TypeOK, ProgressInv, CompletedInv, Backed, NextPhase
<1>5. LedgerInv'
  BY DEF IInv, RestoreProgress, TypeOK, LedgerInv, CompletedInv, NextPhase
<1>6. OutcomeInv'
  BY DEF IInv, RestoreProgress, TypeOK, OutcomeInv, LedgerInv, InterruptedInv
<1>7. InterruptedInv'
  BY DEF IInv, RestoreProgress, TypeOK, InterruptedInv, LedgerInv, KeptInv, KeptBy, OutcomeInv
<1>8. LedgerEarned'
  BY DEF IInv, RestoreProgress, TypeOK, LedgerEarned, Backed, LedgerInv, OutcomeInv
<1>9. EvidenceSurvives'
  <2>1. ASSUME NEW s \in Stages, s # stage
        PROVE  /\ outcome'[s] = outcome[s]
               /\ Restored(s) => Restored(s)'
               /\ HalfRestored(s) => HalfRestored(s)'
    BY <2>1, <1>a DEF Restored, HalfRestored, Backed, InPlanOrder
  <2>2. Restored(stage)'
    <3>1. Len(FreshRows) \in Nat /\ Len(kept) \in Nat
      BY <1>b
    <3>2. Len(progress'[stage]) >= KeptBy(stage)
      BY <3>1, <1>a, <1>c, <1>e, PlanAssumption DEF KeptBy
    <3>3. plan'[stage] = "pinned" /\ InPlanOrder(progress'[stage], 1)
      BY <1>a, <1>c DEF IInv, LedgerInv, InPlanOrder
    <3>4. Backed(stage, progress[stage])'
      BY <1>a, <1>d DEF Backed, BackedBy
    <3>5. executed'[stage].kind = "merged" => progress'[stage] = executed'[stage].rows
      BY <1>a, <1>f
    <3> QED
      BY <3>2, <3>3, <3>4, <3>5, <1>a DEF Restored, InPlanOrder
  <2>3. outcome'[stage] # "refused"
    BY DEF RestoreProgress, IInv, TypeOK
  <2> QED
    BY <2>1, <2>2, <2>3, <1>a DEF IInv, EvidenceSurvives
<1>10. StaleInv'
  <2>1. "plan" \notin stale /\ "progress" \notin stale /\ stale' = stale
    BY <1>a DEF RestoreProgress, IInv, StaleInv
  <2>2. ASSUME stage = 1, "executed" \in stale PROVE Len(progress'[1]) = Last
    <3>1. progress[1] = completed /\ Len(kept) + Len(completed) = Last
      BY <2>2, <1>a DEF IInv, StaleInv
    <3>2. FreshRows = completed
      BY <3>1, <2>2, <1>a, RecordedIsNotKept, FreshRowsAre
    <3> QED
      BY <3>1, <3>2, <2>2, <1>a, <1>c
  <2>3. stage = 1 /\ stale # {} => "executed" \in stale
    BY <2>1 DEF IInv, TypeOK, Saved
  <2>4. stage = 1 /\ stale # {} => Unusable'
    BY <2>2, <2>3, PlanAssumption DEF Unusable
  <2> QED
    BY <2>1, <2>4, <1>a DEF StaleInv
<1> QED
  BY <1>1, <1>2, <1>3, <1>4, <1>5, <1>6, <1>7, <1>8, <1>9, <1>10 DEF IInv

LEMMA RestoreRefusedStep == ASSUME IInv, RestoreRefused PROVE IInv'
<1> USE DEF Running, Seeded, StagingPoints, TryPoints, AfterPoints, At, Goto,
        End, memoryVars, diskVars, Stages
<1>a. /\ pc \in {"plan", "progress"} /\ pc \in stale /\ pc' = "idle"
      /\ stage \in {1, 2}
      /\ UNCHANGED <<stage, interrupts, plan, progress, executed, interrupted,
                    receipts, tailProgress, stale>>
      /\ kept' = <<>> /\ completed' = <<>> /\ raised' = FALSE
      /\ outcome' = [outcome EXCEPT ![stage] = "refused"]
  BY DEF RestoreRefused, IInv, TypeOK
<1>b. plan[stage] = "pinned" /\ executed[stage].kind = "none"
  BY <1>a DEF IInv, StaleInv, LedgerInv
<1>c. Backed(stage, progress[stage])
  BY <1>a DEF IInv, KeptInv, ProgressInv
<1>d. \/ InPlanOrder(progress[stage], 1) /\ Len(progress[stage]) = KeptBy(stage)
      \/ InPlanOrder(progress[stage], KeptBy(stage) + 1)
  BY <1>a DEF IInv, KeptInv, ProgressInv
<1>1. TypeOK'
  <2>1. kept' \in Seq(Rows) /\ completed' \in Seq(Rows)
        /\ Len(kept') + Len(completed') <= Last
    BY <1>a, PlanAssumption
  <2>2. outcome' \in [Stages -> {"none", "complete", "failed", "refused", "broken"}]
    BY <1>a DEF IInv, TypeOK
  <2> QED
    BY <1>a, <2>1, <2>2 DEF IInv, TypeOK
<1>2. KeptInv' /\ CompletedInv' /\ ProgressInv' /\ LedgerInv'
  BY <1>a DEF KeptInv, CompletedInv, ProgressInv, LedgerInv
<1>3. OutcomeInv'
  BY <1>a DEF IInv, TypeOK, OutcomeInv
<1>4. InterruptedInv'
  BY <1>a DEF IInv, InterruptedInv, KeptBy
<1>5. StaleInv'
  <2>1. stage = 1 => Unusable
    BY <1>a, RunningIsUnusable
  <2> QED
    BY <2>1, <1>a DEF StaleInv, Unusable, InPlanOrder
<1>6. LedgerEarned'
  BY <1>a DEF IInv, LedgerEarned, Backed, InPlanOrder
<1>7. EvidenceSurvives'
  <2>1. ASSUME NEW s \in Stages, s # stage
        PROVE  outcome'[s] = outcome[s]
    BY <2>1, <1>a DEF IInv, TypeOK
  <2>2. outcome'[stage] = "refused"
    BY <1>a DEF IInv, TypeOK
  <2>3. ASSUME NEW s \in Stages, s # stage
        PROVE  /\ outcome'[s] = outcome[s]
               /\ Restored(s) => Restored(s)'
               /\ HalfRestored(s) => HalfRestored(s)'
    BY <2>1, <2>3, <1>a DEF Restored, HalfRestored, Backed, InPlanOrder
  <2>4. HalfRestored(stage)'
    BY <1>a, <1>b, <1>c, <1>d DEF HalfRestored, Backed, InPlanOrder
  <2> QED
    BY <2>2, <2>3, <2>4, <1>a DEF IInv, EvidenceSurvives
<1> QED
  BY <1>1, <1>2, <1>3, <1>4, <1>5, <1>6, <1>7 DEF IInv

LEMMA InterruptStep == ASSUME IInv, Interrupt PROVE IInv'
<1> USE DEF Running, Seeded, StagingPoints, TryPoints, AfterPoints, At, Goto,
        End, memoryVars, diskVars, Stages
<1>a. /\ stage' = stage
      /\ UNCHANGED <<plan, progress, executed, interrupted, receipts, tailProgress>>
  BY DEF Interrupt
<1>b. /\ stale \subseteq stale' /\ stale' \subseteq stale \cup Writes
      /\ Writes \subseteq Saved
  BY DEF Interrupt, LeavesTemporary, Writes, Saved
<1>1. TypeOK'
  <2>1. ASSUME kept' = <<>>, completed' = <<>>
        PROVE  /\ kept' \in Seq(Rows) /\ completed' \in Seq(Rows)
               /\ Len(kept') + Len(completed') <= Last
    BY <2>1, PlanAssumption
  <2>2. /\ kept' \in Seq(Rows) /\ completed' \in Seq(Rows)
        /\ Len(kept') + Len(completed') <= Last
    BY <2>1 DEF IInv, TypeOK, Interrupt
  <2>3. outcome' \in [Stages -> {"none", "complete", "failed", "refused", "broken"}]
    BY DEF IInv, TypeOK, Interrupt
  <2>4. interrupts' \in 0 .. MaxInterrupts
    BY InterruptsAssumption DEF IInv, TypeOK, Interrupt
  <2>5. pc' \in StagingPoints \cup TryPoints \cup AfterPoints \cup {"idle"}
    BY DEF IInv, TypeOK, Interrupt
  <2>6. raised' \in BOOLEAN
    BY DEF IInv, TypeOK, Interrupt
  <2> QED
    BY <1>a, <1>b, <2>2, <2>3, <2>4, <2>5, <2>6 DEF IInv, TypeOK
<1>2. KeptInv'
  BY DEF IInv, Interrupt, TypeOK, KeptInv, Backed
<1>3. CompletedInv'
  BY DEF IInv, Interrupt, TypeOK, CompletedInv, Backed, NextPhase, KeptInv
<1>4. ProgressInv'
  BY DEF IInv, Interrupt, TypeOK, ProgressInv, CompletedInv, Backed, NextPhase
<1>5. LedgerInv'
  BY DEF IInv, Interrupt, TypeOK, LedgerInv, CompletedInv, NextPhase
<1>6. OutcomeInv'
  BY DEF IInv, Interrupt, TypeOK, OutcomeInv, LedgerInv, InterruptedInv
<1>7. InterruptedInv'
  BY DEF IInv, Interrupt, TypeOK, InterruptedInv, LedgerInv, KeptInv, KeptBy, OutcomeInv
<1>8. LedgerEarned'
  BY DEF IInv, Interrupt, TypeOK, LedgerEarned, Backed, LedgerInv, OutcomeInv
<1>9. EvidenceSurvives'
  <2>1. \A s \in Stages : outcome'[s] \in {"complete", "failed", "refused"} =>
          outcome'[s] = outcome[s]
    BY DEF IInv, TypeOK, Interrupt
  <2> QED
    BY <2>1, <1>a DEF IInv, EvidenceSurvives, Restored, HalfRestored, Backed,
       InPlanOrder
<1>10. StaleInv'
  <2>1. CASE pc \in StagingPoints \cup {"plan", "progress"}
    <3>1. pc' = "idle" /\ pc # "idle"
      BY <2>1 DEF Interrupt
    <3>2. stage = 1 => Unusable
      BY <3>1, RunningIsUnusable
    <3> QED
      BY <3>1, <3>2, <1>a DEF StaleInv, Unusable, InPlanOrder
  <2>2. CASE pc = "main"
    <3>1. pc' = "merge" /\ raised' = TRUE /\ interrupts' > 0 /\ stale' \subseteq {"plan"}
      BY <2>2, <1>b, InterruptsAssumption
      DEF Interrupt, IInv, TypeOK, StaleInv, Writes
    <3>2. plan[stage] = "pinned" /\ executed[stage].kind = "none"
      BY <2>2 DEF IInv, StaleInv, LedgerInv
    <3> QED
      BY <3>1, <3>2, <1>a DEF StaleInv
  <2>3. CASE pc = "before"
    <3>1. pc' \in {"merge", "except"} /\ stale' = {}
      BY <2>3, <1>b DEF Interrupt, IInv, StaleInv, Writes
    <3> QED
      BY <3>1, <1>a DEF StaleInv
  <2>4. CASE pc \in TryPoints \ {"main", "before"}
    <3>1. /\ pc' = "except" /\ interrupts' > 0 /\ kept' = kept
          /\ completed' = completed
      BY <2>4, InterruptsAssumption DEF Interrupt, IInv, TypeOK
    <3>2. stale' \subseteq (IF pc = "save" THEN {"progress"}
                          ELSE IF pc = "execute" THEN {"executed"} ELSE {})
      BY <2>4, <1>b DEF IInv, StaleInv, Writes
    <3>3. pc # "leave" => executed[stage].kind = "none"
      BY <2>4 DEF IInv, LedgerInv
    <3>4. pc = "execute" =>
            progress[stage] = completed /\ Len(kept) + Len(completed) = Last
      <4> SUFFICES ASSUME pc = "execute"
                   PROVE  progress[stage] = completed
                          /\ Len(kept) + Len(completed) = Last
        OBVIOUS
      <4>1. Len(kept) + Len(completed) = Last /\ Len(kept) = KeptBy(stage)
        BY DEF IInv, CompletedInv, KeptInv
      <4>2. KeptBy(stage) \in Nat /\ KeptBy(stage) < Last
        BY PlanAssumption DEF KeptBy
      <4>3. completed # <<>>
        BY <4>1, <4>2, PlanAssumption
      <4> QED
        BY <4>1, <4>3 DEF IInv, ProgressInv
    <3> QED
      BY <3>1, <3>2, <3>3, <3>4, <1>a DEF StaleInv
  <2>5. CASE pc \in {"except", "restore", "merge"}
    <3>1. /\ raised' = TRUE /\ kept' = kept /\ completed' = completed
          /\ interrupts' > 0
          /\ pc' = CASE pc = "except" -> "restore" [] pc = "restore" -> "merge"
                     [] OTHER -> "plan"
      BY <2>5, InterruptsAssumption DEF Interrupt, IInv, TypeOK
    <3>2. stale' \subseteq stale \cup
             (IF pc = "merge" /\ executed[stage].kind # "none" THEN {"executed"} ELSE {})
      BY <2>5, <1>b DEF Writes
    <3>3. CASE pc = "merge" /\ executed[stage].kind # "none"
      <4>1. progress[stage] = completed /\ Len(kept) + Len(completed) = Last
        BY <3>3 DEF IInv, LedgerInv
      <4>2. stale' \subseteq {"executed"}
        BY <3>2, <3>3 DEF IInv, StaleInv, TypeOK, Saved
      <4> QED
        BY <3>1, <3>3, <4>1, <4>2, <1>a DEF StaleInv
    <3>4. CASE ~(pc = "merge" /\ executed[stage].kind # "none")
      <4>1. stale' \subseteq stale
        BY <3>2, <3>4
      <4> QED
        BY <3>1, <4>1, <2>5, <1>a DEF IInv, StaleInv
    <3> QED
      BY <3>3, <3>4
  <2> QED
    BY <2>1, <2>2, <2>3, <2>4, <2>5 DEF Interrupt
<1> QED
  BY <1>1, <1>2, <1>3, <1>4, <1>5, <1>6, <1>7, <1>8, <1>9, <1>10 DEF IInv

LEMMA KilledStep == ASSUME IInv, Killed PROVE IInv'
<1> USE DEF Running, Seeded, StagingPoints, TryPoints, AfterPoints, At, Goto,
        End, memoryVars, diskVars, Stages
<1>a. /\ stage' = stage
      /\ UNCHANGED <<plan, progress, executed, interrupted, receipts, tailProgress>>
  BY DEF Killed
<1>b. stale' \subseteq stale \cup Writes /\ Writes \subseteq Saved
  BY DEF Killed, LeavesTemporary, Writes, Saved
<1>1. TypeOK'
  <2>1. ASSUME kept' = <<>>, completed' = <<>>
        PROVE  /\ kept' \in Seq(Rows) /\ completed' \in Seq(Rows)
               /\ Len(kept') + Len(completed') <= Last
    BY <2>1, PlanAssumption
  <2>2. /\ kept' \in Seq(Rows) /\ completed' \in Seq(Rows)
        /\ Len(kept') + Len(completed') <= Last
    BY <2>1 DEF IInv, TypeOK, Killed
  <2>3. outcome' \in [Stages -> {"none", "complete", "failed", "refused", "broken"}]
    BY DEF IInv, TypeOK, Killed
  <2>4. pc' \in StagingPoints \cup TryPoints \cup AfterPoints \cup {"idle"}
        /\ raised' \in BOOLEAN /\ interrupts' \in 0 .. MaxInterrupts
    BY InterruptsAssumption DEF IInv, TypeOK, Killed
  <2> QED
    BY <1>a, <1>b, <2>2, <2>3, <2>4 DEF IInv, TypeOK
<1>2. KeptInv'
  BY DEF IInv, Killed, TypeOK, KeptInv, Backed
<1>3. CompletedInv'
  BY DEF IInv, Killed, TypeOK, CompletedInv, Backed, NextPhase, KeptInv
<1>4. ProgressInv'
  BY DEF IInv, Killed, TypeOK, ProgressInv, CompletedInv, Backed, NextPhase
<1>5. LedgerInv'
  BY DEF IInv, Killed, TypeOK, LedgerInv, CompletedInv, NextPhase
<1>6. OutcomeInv'
  BY DEF IInv, Killed, TypeOK, OutcomeInv, LedgerInv, InterruptedInv
<1>7. InterruptedInv'
  BY DEF IInv, Killed, TypeOK, InterruptedInv, LedgerInv, KeptInv, KeptBy, OutcomeInv
<1>8. LedgerEarned'
  BY DEF IInv, Killed, TypeOK, LedgerEarned, Backed, LedgerInv, OutcomeInv
<1>9. EvidenceSurvives'
  BY DEF IInv, Killed, TypeOK, EvidenceSurvives, Restored, HalfRestored,
     InPlanOrder, Backed, OutcomeInv
<1>10. StaleInv'
  <2>1. pc' = "idle" /\ pc # "idle"
    BY DEF Killed
  <2>2. stage = 1 => Unusable
    BY <2>1, RunningIsUnusable
  <2> QED
    BY <2>1, <2>2, <1>a DEF StaleInv, Unusable, InPlanOrder
<1> QED
  BY <1>1, <1>2, <1>3, <1>4, <1>5, <1>6, <1>7, <1>8, <1>9, <1>10 DEF IInv
-----------------------------------------------------------------------------
(* The theorems.                                                           *)

\* It holds at the start.
LEMMA InitStep == Init => IInv
<1> SUFFICES ASSUME Init PROVE IInv
  OBVIOUS
<1> USE DEF Init, Running, Seeded, StagingPoints, TryPoints, AfterPoints, Stages
<1>1. /\ Last \in Nat /\ TailFrom \in Nat /\ 1 < TailFrom /\ TailFrom < Last
      /\ 1 \in Phases
  BY PlanAssumption DEF Phases
<1>2. /\ FirstRow \in Rows /\ <<FirstRow>> \in Seq(Rows) /\ Len(<<FirstRow>>) = 1
      /\ <<>> \in Seq(Rows) /\ Len(<<>>) = 0 /\ FirstRow.phase = 1
  BY <1>1 DEF FirstRow, Rows, Codes
<1>3. /\ NoLedger \in Ledgers /\ NoLedger.rows = <<>> /\ NoLedger.kind = "none"
  BY <1>2 DEF NoLedger, Ledgers
<1>4. NoReceipts \in [Phases -> Codes \cup {"none"}]
  BY DEF NoReceipts
<1>5. TypeOK
  <2>1. /\ progress \in [Stages -> Seq(Rows)]
        /\ executed \in [Stages -> Ledgers] /\ interrupted \in [Stages -> Ledgers]
        /\ receipts \in [Stages -> [Phases -> Codes \cup {"none"}]]
    BY <1>2, <1>3, <1>4
  <2>2. \A s \in Stages :
          /\ Len(progress[s]) <= Last /\ Len(executed[s].rows) <= Last
          /\ Len(interrupted[s].rows) <= Last
    BY <1>1, <1>2, <1>3
  <2>3. /\ kept \in Seq(Rows) /\ completed \in Seq(Rows)
        /\ Len(kept) + Len(completed) <= Last
    BY <1>1, <1>2
  <2>4. interrupts \in 0 .. MaxInterrupts
    BY InterruptsAssumption
  <2> QED
    BY <2>1, <2>2, <2>3, <2>4 DEF TypeOK
<1>6. KeptInv
  BY <1>1, <1>2 DEF KeptInv, KeptBy, InPlanOrder
<1>7. CompletedInv
  BY <1>1, <1>2 DEF CompletedInv, InPlanOrder
<1>8. ProgressInv /\ LedgerInv /\ OutcomeInv /\ InterruptedInv /\ StaleInv
  BY <1>3 DEF ProgressInv, LedgerInv, OutcomeInv, InterruptedInv, StaleInv
<1>9. LedgerEarned /\ EvidenceSurvives
  BY <1>3 DEF LedgerEarned, EvidenceSurvives
<1> QED
  BY <1>5, <1>6, <1>7, <1>8, <1>9 DEF IInv

\* A step that changes nothing keeps it.
LEMMA StutterStep == ASSUME IInv, UNCHANGED vars PROVE IInv'
BY DEF IInv, TypeOK, KeptInv, CompletedInv, ProgressInv, LedgerInv, OutcomeInv,
   InterruptedInv, StaleInv, Unusable, LedgerEarned, EvidenceSurvives,
   Restored, HalfRestored, InPlanOrder, Backed,
   NextPhase, Running, Seeded, vars, memoryVars, diskVars

\* No step of either recovery leaves the invariant.
LEMMA Inductive == Spec => []IInv
<1>1. Init => IInv
  BY InitStep
<1>2. IInv /\ [Next]_vars => IInv'
  <2> SUFFICES ASSUME IInv, [Next]_vars PROVE IInv'
    OBVIOUS
  <2>1. CASE StartTail
    BY <2>1, StartTailStep
  <2>2. CASE CopyEvidence
    BY <2>2, CopyEvidenceStep
  <2>3. CASE SeedPlan
    BY <2>3, SeedPlanStep
  <2>4. CASE SeedProgress
    BY <2>4, SeedProgressStep
  <2>5. CASE WritePlan
    BY <2>5, WritePlanStep
  <2>6. CASE Prepare
    BY <2>6, PrepareStep
  <2>7. CASE Launch
    BY <2>7, LaunchStep
  <2>8. CASE PhaseEnds
    BY <2>8, PhaseEndsStep
  <2>9. CASE RecordPhase
    BY <2>9, RecordPhaseStep
  <2>10. CASE SaveProgress
    BY <2>10, SaveProgressStep
  <2>11. CASE StopContainer
    BY <2>11, StopContainerStep
  <2>12. CASE WriteExecuted
    BY <2>12, WriteExecutedStep
  <2>13. CASE LeaveTry
    BY <2>13, LeaveTryStep
  <2>14. CASE WriteInterrupted
    BY <2>14, WriteInterruptedStep
  <2>15. CASE RestoreProduction
    BY <2>15, RestoreProductionStep
  <2>16. CASE Merge
    BY <2>16, MergeStep
  <2>17. CASE NothingToMerge
    BY <2>17, NothingToMergeStep
  <2>18. CASE RestorePlan
    BY <2>18, RestorePlanStep
  <2>19. CASE RestoreProgress
    BY <2>19, RestoreProgressStep
  <2>20. CASE Interrupt
    BY <2>20, InterruptStep
  <2>21. CASE Killed
    BY <2>21, KilledStep
  <2>22. CASE RestoreRefused
    BY <2>22, RestoreRefusedStep
  <2>23. CASE Over \/ UNCHANGED vars
    BY <2>23, StutterStep DEF Over
  <2> QED
    BY <2>1, <2>2, <2>3, <2>4, <2>5, <2>6, <2>7, <2>8, <2>9, <2>10,
       <2>11, <2>12, <2>13, <2>14, <2>15, <2>16, <2>17, <2>18, <2>19, <2>20,
       <2>21, <2>22, <2>23 DEF Next, Step
<1> QED
  BY <1>1, <1>2, PTL DEF Spec

\* Every file and every variable stays in its type, whatever the plan.
THEOREM TypeCorrect == Spec => []TypeOK
<1>1. IInv => TypeOK
  BY DEF IInv
<1> QED
  BY <1>1, Inductive, PTL

\* A merged execution ledger is the whole plan in order, each phase backed by
\* its invocation receipt, wherever the recoveries were interrupted or killed.
THEOREM LedgerIsEarned == Spec => []LedgerEarned
<1>1. IInv => LedgerEarned
  BY DEF IInv
<1> QED
  BY <1>1, Inductive, PTL

\* A recovery that got through its finally clause has the whole plan and every
\* recorded row on disk.
THEOREM EvidenceKept == Spec => []EvidenceSurvives
<1>1. IInv => EvidenceSurvives
  BY DEF IInv
<1> QED
  BY <1>1, Inductive, PTL

\* The coordinator of a recovery starts without an execution ledger.
THEOREM LedgerIsOwn == Spec => []OwnLedger
<1>1. IInv => OwnLedger
  BY DEF IInv, LedgerInv, OwnLedger, Running, AfterPoints, At
<1> QED
  BY <1>1, Inductive, PTL

\* Of the requires of merge and restoration only the one for a .tmp can fail,
\* that only in the restoration, and only behind an interrupt in a save of the
\* coordinator: the invariant says what progress and ledger can be there, and
\* both accept it.
THEOREM RefusedByStaleOnly == Spec => []StaleOnly
<1>1. IInv => StaleOnly
  <2> SUFFICES ASSUME IInv PROVE StaleOnly
    OBVIOUS
  <2> USE DEF Running, Seeded, AfterPoints, At
  <2>1. ASSUME pc = "merge" PROVE MayMerge
    <3>1. CASE executed[stage].kind = "none"
      BY <2>1, <3>1 DEF IInv, LedgerInv, MayMerge
    <3>2. CASE executed[stage].kind # "none"
      <4>1. /\ executed[stage].kind \in {"rest", "merged"}
            /\ executed[stage].kind # "merged"
        BY <2>1, <3>2 DEF IInv, TypeOK, LedgerInv, Ledgers
      <4>2. executed[stage].rows = completed
            /\ Len(kept) + Len(completed) = Last
        BY <2>1, <4>1 DEF IInv, LedgerInv
      <4>3. Len(kept) \in Nat /\ Len(completed) \in Nat
        BY DEF IInv, TypeOK
      <4>4. Len(completed) = Last - Len(kept)
        BY <4>2, <4>3
      <4>5. InPlanOrder(completed, Len(kept) + 1) /\ Backed(stage, completed)
        BY <2>1 DEF IInv, CompletedInv
      <4> QED
        BY <2>1, <3>2, <4>2, <4>4, <4>5 DEF MayMerge, ExecutionIsValid, IInv,
           StaleInv
    <3> QED
      BY <3>1, <3>2
  <2>2. ASSUME pc = "progress" PROVE MayRestore
    <3>1. /\ progress[stage] = kept => FreshRows = <<>>
          /\ progress[stage] # kept => FreshRows = progress[stage]
      BY <2>2, FreshRowsAre
    <3>2. InPlanOrder(FreshRows, Len(kept) + 1)
      <4>1. CASE progress[stage] = kept
        <5>1. Len(kept) \in Nat /\ Last \in Nat /\ Len(kept) <= Last
          BY <2>2, PlanAssumption DEF IInv, KeptInv, InPlanOrder, TypeOK
        <5> QED
          BY <5>1, <4>1, <3>1 DEF InPlanOrder
      <4>2. CASE progress[stage] # kept
        BY <4>2, <2>2, <3>1 DEF IInv, ProgressInv
      <4> QED
        BY <4>1, <4>2
    <3>3. ASSUME stage = 2, ~raised PROVE executed[2].rows = kept \o FreshRows
      <4>1. /\ executed[2].rows = kept \o completed
            /\ progress[2] = completed /\ Len(kept) + Len(completed) = Last
        BY <2>2, <3>3 DEF IInv, LedgerInv
      <4>2. completed # kept
        BY <2>2, <4>1, RecordedIsNotKept DEF IInv, TypeOK
      <4> QED
        BY <3>1, <3>3, <4>1, <4>2
    <3> QED
      BY <3>2, <3>3 DEF MayRestore
  <2> QED
    BY <2>1, <2>2 DEF StaleOnly, IInv, StaleInv, StagingPoints
<1> QED
  BY <1>1, Inductive, PTL
=============================================================================
