------------------------- MODULE CacheOrphansProofs -------------------------
(***************************************************************************)
(* What CacheOrphans promises, for every number of cases, configuration    *)
(* snapshots, starts and failures.                                         *)
(***************************************************************************)
EXTENDS CacheOrphans, WellFoundedInduction, TLAPS

Cleaning == {"teardownFirst", "clean", "emptying"}
Unsaved  == Measuring \cup {"persist"}
InCase   == Unsaved \cup {"teardown", "remove", "removing", "receipt", "save", "count"}
Booting  == {"dockerRun", "bootReceipt"}

\* Where the phase is alone with its directories.
Quiet == {"clean", "emptying", "case", "mkdir", "launch", "dockerRun", "remove",
          "removing", "receipt"}

\* The directories a container mounted that are still the phase's own.
Live == (served \cap dirs) \ foreign
Gone(d) == d \notin dirs \ foreign

\* The types, by the parts that change together.
DirTypes ==
  /\ dirs \subseteq Dirs /\ foreign \subseteq dirs /\ tried \subseteq Dirs
  /\ removed \subseteq Dirs /\ served \subseteq Dirs
ReceiptTypes ==
  /\ launch \in [Tiered -> 0 .. MaxRuns] /\ bootRec \in [Tiered -> 0 .. MaxRuns]
  /\ conf \in [Tiered \X (1 .. Stages) -> 0 .. MaxRuns]
  /\ confRec \in [Tiered \X (1 .. Stages) -> Probed]
RowTypes ==
  results \in [Cases -> Results] /\ summary \in [Cases -> 0 .. MaxRuns]
PlaceTypes ==
  /\ server \in (Cases \X Runs) \cup {None} /\ pc \in Points /\ run \in 0 .. MaxRuns
  /\ plan \subseteq Dirs /\ target \in Dirs \cup {None}
FlagTypes ==
  /\ safe \in BOOLEAN /\ interrupted \in BOOLEAN
  /\ trouble \in BOOLEAN /\ refused \in BOOLEAN
CountTypes ==
  case \in Cases \cup {0} /\ stage \in 0 .. Stages + 1 /\ faults \in 0 .. MaxFaults

\* The case under way is the first one missing.
Turn ==
  /\ pc # "idle" => run > 0
  /\ pc \in InCase => case \in Missing /\ \A m \in Missing : case <= m
  /\ pc \in Measuring => stage > 0 /\ (stage <= Stages => case \in Tiered)
  /\ pc = "stageReceipt" => stage <= Stages
  /\ pc \in {"remove", "removing", "receipt"} => case \in Tiered

\* A directory is only emptied, and a case only called safe, where no container runs.
Alone ==
  /\ target # None <=> pc \in {"emptying", "removing"}
  /\ pc = "removing" => target = Dir
  /\ pc \in Quiet => server = None
  /\ safe => pc \in {"save", "count"} /\ server = None /\ Gone(Dir)
  /\ pc = "receipt" => Gone(Dir)

Control == Turn /\ Alone

\* The directories known so far are those of earlier runs and of the cases of this
\* run, up to the one under way, whose own is neither mounted nor emptied before
\* its time.
AllDirs == dirs \cup tried \cup removed \cup served
Past(d) ==
  /\ d[2] <= run
  /\ pc # "idle" => \/ d[2] < run \/ summary[d[1]] # 0
                    \/ d[1] = case /\ pc \in InCase \ {"mkdir"}
Traces ==
  /\ \A d \in AllDirs : Past(d)
  /\ pc \in {"mkdir", "launch", "dockerRun"} => Dir \notin served
  /\ pc \in Unsaved \cup {"teardown", "remove"} => Dir \notin tried
  /\ foreign \subseteq tried /\ removed \cap dirs \subseteq foreign
  /\ target # None => target \in dirs \ foreign
  /\ plan \subseteq dirs /\ (plan # {} => pc \in Cleaning)

\* A directory that is still there has its launch receipt; the recovery plans all of
\* them, and after it only the one of the case under way is left.
Stale ==
  /\ \A d \in Live : launch[d[1]] = d[2]
  /\ pc \in Cleaning => Live \subseteq plan
  /\ pc \in InCase => Live \subseteq {Dir}
  /\ pc = "case" => Live = {}
  /\ pc \in Booting /\ case \in Tiered => launch[case] = run

\* Without trouble a directory whose deletion was begun is there only while it is
\* emptied, and receipts disagree only while their second half is due.
Deleted ==
  /\ foreign # {} => trouble
  /\ \A d \in tried \cap dirs : d = target \/ trouble
Paired ==
  /\ \A c \in Tiered : launch[c] # 0 /\ ~LaunchAgrees(c) =>
       trouble \/ (pc \in Booting /\ c = case)
  /\ \A k \in DOMAIN conf : conf[k] # 0 /\ ~ConfAgrees(k) =>
       trouble \/ (pc = "stageReceipt" /\ k = <<case, stage>>)
Calm == Deleted /\ Paired

\* The rows of this run are safe, come before every missing case, and every result
\* of this run but the one under way has its row.
Rows ==
  /\ \A c \in Cases : results[c].run <= run /\ summary[c] <= run
  /\ pc # "idle" => \A c \in Cases :
       /\ summary[c] = run => results[c].safe /\ \A m \in Missing : c < m
       /\ results[c].run = run => summary[c] = run \/ (pc \in InCase /\ c = case)
  /\ pc \in InCase \ Unsaved => results[case].run = run
  /\ pc = "count" => results[case].safe = safe

\* The inductive invariant.
IInv ==
  /\ TypeOK /\ Control /\ Traces /\ Stale /\ Calm /\ Rows
  /\ RefusalHasCause /\ RowsAreFinal


-----------------------------------------------------------------------------


\* The cases are numbers.
LEMMA Numbers ==
  /\ Lifecycles \in Nat /\ Stages \in Nat /\ MaxRuns \in Nat /\ MaxFaults \in Nat
  /\ Cases \subseteq Nat \ {0} /\ Tiered \subseteq Cases
BY CasesAssumption, BoundsAssumption DEF Cases, Tiered

\* As long as a case is missing there is a first one.
LEMMA FirstMissing ==
  ASSUME Missing # {}
  PROVE  First(Missing) \in Missing /\ \A m \in Missing : First(Missing) <= m
<1>1. Missing \subseteq Nat
  BY Numbers DEF Missing
<1>2. PICK x \in Missing : \A y \in Missing : ~ (<<y, x>> \in OpToRel(<, Nat))
  BY <1>1, NatLessThanWellFounded, WFMin
<1>3. \A y \in Missing : ~ (y < x)
  BY <1>1, <1>2, Zenon DEF OpToRel
<1>4. \A y \in Missing : x <= y
  BY <1>1, <1>3
<1> QED
  BY <1>4 DEF First

\* The types of all parts.
LEMMA Types ==
  TypeOK <=> /\ DirTypes /\ ReceiptTypes /\ RowTypes /\ PlaceTypes
             /\ CountTypes /\ FlagTypes
BY Zenon DEF TypeOK, DirTypes, ReceiptTypes, RowTypes, PlaceTypes, CountTypes, FlagTypes


\* Every step keeps the types.
LEMMA TypeStep ==
  ASSUME TypeOK, Control, [Next]_vars
  PROVE  TypeOK'
<1> USE Numbers DEF receipts, rows, phaseVars, history
<1> SUFFICES /\ DirTypes' /\ ReceiptTypes' /\ RowTypes' /\ PlaceTypes'
             /\ CountTypes' /\ FlagTypes'
  BY Zenon DEF TypeOK, DirTypes, ReceiptTypes, RowTypes, PlaceTypes, CountTypes, FlagTypes
<1>A. /\ DirTypes /\ ReceiptTypes /\ RowTypes /\ PlaceTypes
      /\ CountTypes /\ FlagTypes
  BY Types
<1>B. /\ pc \in InCase => case \in Cases
      /\ pc # "idle" => run \in Runs
  <2>1. pc \in InCase => case \in Missing
    BY DEF Control, Turn
  <2>2. pc # "idle" => run > 0
    BY DEF Control, Turn
  <2> QED
    BY <1>A, <2>1, <2>2 DEF Missing, Runs, PlaceTypes
<1>1. CASE Start
  <2>1. DirTypes'
    BY <1>1, <1>A, <1>B DEF Start, DirTypes, Dirs, PlaceTypes, CountTypes
  <2>2. ReceiptTypes'
    BY <1>1, <1>A, <1>B DEF Start, ReceiptTypes, Probed, PlaceTypes, CountTypes
  <2>3. RowTypes'
    BY <1>1, <1>A, <1>B DEF Start, RowTypes, Results, PlaceTypes, CountTypes
  <2>4. PlaceTypes'
    <3>1. run \in 0 .. MaxRuns /\ run < MaxRuns /\ run' = run + 1
      BY <1>1, <1>A DEF Start, PlaceTypes
    <3>2. run' \in 0 .. MaxRuns
      BY <3>1
    <3>3. plan' \subseteq dirs /\ UNCHANGED <<server, target>> /\ pc' = "teardownFirst"
      BY <1>1 DEF Start, Candidates
    <3>4. plan' \subseteq Dirs /\ pc' \in Points
      BY <1>A, <3>3 DEF DirTypes, Points
    <3> QED
      BY <1>A, <3>2, <3>3, <3>4 DEF PlaceTypes
  <2>5. CountTypes'
    BY <1>1, <1>A, <1>B DEF Start, CountTypes, PlaceTypes
  <2>6. FlagTypes'
    BY <1>1, <1>A, <1>B, Zenon DEF Start, FlagTypes
  <2> QED
    BY <2>1, <2>2, <2>3, <2>4, <2>5, <2>6
<1>2. CASE Refuse
  <2>1. DirTypes'
    BY <1>2, <1>A, <1>B DEF Refuse, DirTypes, Dirs, PlaceTypes, CountTypes
  <2>2. ReceiptTypes'
    BY <1>2, <1>A, <1>B DEF Refuse, ReceiptTypes, Probed, PlaceTypes, CountTypes
  <2>3. RowTypes'
    BY <1>2, <1>A, <1>B DEF Refuse, RowTypes, Results, PlaceTypes, CountTypes
  <2>4. PlaceTypes'
    BY <1>2, <1>A, <1>B DEF Refuse, PlaceTypes, Points, Dirs, DirTypes, Runs
  <2>5. CountTypes'
    BY <1>2, <1>A, <1>B DEF Refuse, CountTypes, PlaceTypes
  <2>6. FlagTypes'
    BY <1>2, <1>A, <1>B, Zenon DEF Refuse, FlagTypes
  <2> QED
    BY <2>1, <2>2, <2>3, <2>4, <2>5, <2>6
<1>3. CASE TeardownFirst
  <2>1. DirTypes'
    BY <1>3, <1>A, <1>B DEF TeardownFirst, DirTypes, Dirs, PlaceTypes, CountTypes
  <2>2. ReceiptTypes'
    BY <1>3, <1>A, <1>B DEF TeardownFirst, ReceiptTypes, Probed, PlaceTypes, CountTypes
  <2>3. RowTypes'
    BY <1>3, <1>A, <1>B DEF TeardownFirst, RowTypes, Results, PlaceTypes, CountTypes
  <2>4. PlaceTypes'
    BY <1>3, <1>A, <1>B DEF TeardownFirst, PlaceTypes, Points, Dirs, DirTypes, Runs
  <2>5. CountTypes'
    BY <1>3, <1>A, <1>B DEF TeardownFirst, CountTypes, PlaceTypes
  <2>6. FlagTypes'
    BY <1>3, <1>A, <1>B, Zenon DEF TeardownFirst, FlagTypes
  <2> QED
    BY <2>1, <2>2, <2>3, <2>4, <2>5, <2>6
<1>4. CASE TeardownFirstFails
  <2>1. DirTypes'
    BY <1>4, <1>A, <1>B DEF TeardownFirstFails, Leave, Fault, DirTypes, Dirs, PlaceTypes, CountTypes
  <2>2. ReceiptTypes'
    BY <1>4, <1>A, <1>B DEF TeardownFirstFails, Leave, Fault, ReceiptTypes, Probed, PlaceTypes, CountTypes
  <2>3. RowTypes'
    BY <1>4, <1>A, <1>B DEF TeardownFirstFails, Leave, Fault, RowTypes, Results, PlaceTypes, CountTypes
  <2>4. PlaceTypes'
    BY <1>4, <1>A, <1>B DEF TeardownFirstFails, Leave, Fault, PlaceTypes, Points, Dirs, DirTypes, Runs
  <2>5. CountTypes'
    <3>1. case' = 0 /\ stage' = 0 /\ faults < MaxFaults /\ faults' = faults + 1
      BY <1>4 DEF TeardownFirstFails, Fault, Leave
    <3> QED
      BY <1>A, <3>1 DEF CountTypes
  <2>6. FlagTypes'
    BY <1>4, <1>A, <1>B, Zenon DEF TeardownFirstFails, Leave, Fault, FlagTypes
  <2> QED
    BY <2>1, <2>2, <2>3, <2>4, <2>5, <2>6
<1>5. CASE CleanNext
  <2>1. DirTypes'
    BY <1>5, <1>A, <1>B DEF CleanNext, DirTypes, Dirs, PlaceTypes, CountTypes
  <2>2. ReceiptTypes'
    BY <1>5, <1>A, <1>B DEF CleanNext, ReceiptTypes, Probed, PlaceTypes, CountTypes
  <2>3. RowTypes'
    BY <1>5, <1>A, <1>B DEF CleanNext, RowTypes, Results, PlaceTypes, CountTypes
  <2>4. PlaceTypes'
    BY <1>5, <1>A, <1>B DEF CleanNext, PlaceTypes, Points, Dirs, DirTypes, Runs
  <2>5. CountTypes'
    BY <1>5, <1>A, <1>B DEF CleanNext, CountTypes, PlaceTypes
  <2>6. FlagTypes'
    BY <1>5, <1>A, <1>B, Zenon DEF CleanNext, FlagTypes
  <2> QED
    BY <2>1, <2>2, <2>3, <2>4, <2>5, <2>6
<1>6. CASE CleanRefused
  <2>1. DirTypes'
    BY <1>6, <1>A, <1>B DEF CleanRefused, Leave, DirTypes, Dirs, PlaceTypes, CountTypes
  <2>2. ReceiptTypes'
    BY <1>6, <1>A, <1>B DEF CleanRefused, Leave, ReceiptTypes, Probed, PlaceTypes, CountTypes
  <2>3. RowTypes'
    BY <1>6, <1>A, <1>B DEF CleanRefused, Leave, RowTypes, Results, PlaceTypes, CountTypes
  <2>4. PlaceTypes'
    BY <1>6, <1>A, <1>B DEF CleanRefused, Leave, PlaceTypes, Points, Dirs, DirTypes, Runs
  <2>5. CountTypes'
    BY <1>6, <1>A, <1>B DEF CleanRefused, Leave, CountTypes, PlaceTypes
  <2>6. FlagTypes'
    BY <1>6, <1>A, <1>B, Zenon DEF CleanRefused, Leave, FlagTypes
  <2> QED
    BY <2>1, <2>2, <2>3, <2>4, <2>5, <2>6
<1>7. CASE CleanEnds
  <2>1. DirTypes'
    BY <1>7, <1>A, <1>B DEF CleanEnds, DirTypes, Dirs, PlaceTypes, CountTypes
  <2>2. ReceiptTypes'
    BY <1>7, <1>A, <1>B DEF CleanEnds, ReceiptTypes, Probed, PlaceTypes, CountTypes
  <2>3. RowTypes'
    BY <1>7, <1>A, <1>B DEF CleanEnds, RowTypes, Results, PlaceTypes, CountTypes
  <2>4. PlaceTypes'
    BY <1>7, <1>A, <1>B DEF CleanEnds, PlaceTypes, Points, Dirs, DirTypes, Runs
  <2>5. CountTypes'
    BY <1>7, <1>A, <1>B DEF CleanEnds, CountTypes, PlaceTypes
  <2>6. FlagTypes'
    BY <1>7, <1>A, <1>B, Zenon DEF CleanEnds, FlagTypes
  <2> QED
    BY <2>1, <2>2, <2>3, <2>4, <2>5, <2>6
<1>8. CASE CleanFails
  <2>1. DirTypes'
    BY <1>8, <1>A, <1>B DEF CleanFails, Leave, Fault, DirTypes, Dirs, PlaceTypes, CountTypes
  <2>2. ReceiptTypes'
    BY <1>8, <1>A, <1>B DEF CleanFails, Leave, Fault, ReceiptTypes, Probed, PlaceTypes, CountTypes
  <2>3. RowTypes'
    BY <1>8, <1>A, <1>B DEF CleanFails, Leave, Fault, RowTypes, Results, PlaceTypes, CountTypes
  <2>4. PlaceTypes'
    BY <1>8, <1>A, <1>B DEF CleanFails, Leave, Fault, PlaceTypes, Points, Dirs, DirTypes, Runs
  <2>5. CountTypes'
    BY <1>8, <1>A, <1>B DEF CleanFails, Leave, Fault, CountTypes, PlaceTypes
  <2>6. FlagTypes'
    BY <1>8, <1>A, <1>B, Zenon DEF CleanFails, Leave, Fault, FlagTypes
  <2> QED
    BY <2>1, <2>2, <2>3, <2>4, <2>5, <2>6
<1>9. CASE CleanOnly
  <2>1. DirTypes'
    BY <1>9, <1>A, <1>B DEF CleanOnly, Leave, Fault, DirTypes, Dirs, PlaceTypes, CountTypes
  <2>2. ReceiptTypes'
    BY <1>9, <1>A, <1>B DEF CleanOnly, Leave, Fault, ReceiptTypes, Probed, PlaceTypes, CountTypes
  <2>3. RowTypes'
    BY <1>9, <1>A, <1>B DEF CleanOnly, Leave, Fault, RowTypes, Results, PlaceTypes, CountTypes
  <2>4. PlaceTypes'
    BY <1>9, <1>A, <1>B DEF CleanOnly, Leave, Fault, PlaceTypes, Points, Dirs, DirTypes, Runs
  <2>5. CountTypes'
    BY <1>9, <1>A, <1>B DEF CleanOnly, Leave, Fault, CountTypes, PlaceTypes
  <2>6. FlagTypes'
    BY <1>9, <1>A, <1>B, Zenon DEF CleanOnly, Leave, Fault, FlagTypes
  <2> QED
    BY <2>1, <2>2, <2>3, <2>4, <2>5, <2>6
<1>10. CASE CleanDone
  <2>1. DirTypes'
    BY <1>10, <1>A, <1>B DEF CleanDone, DirTypes, Dirs, PlaceTypes, CountTypes
  <2>2. ReceiptTypes'
    BY <1>10, <1>A, <1>B DEF CleanDone, ReceiptTypes, Probed, PlaceTypes, CountTypes
  <2>3. RowTypes'
    BY <1>10, <1>A, <1>B DEF CleanDone, RowTypes, Results, PlaceTypes, CountTypes
  <2>4. PlaceTypes'
    BY <1>10, <1>A, <1>B DEF CleanDone, PlaceTypes, Points, Dirs, DirTypes, Runs
  <2>5. CountTypes'
    BY <1>10, <1>A, <1>B DEF CleanDone, CountTypes, PlaceTypes
  <2>6. FlagTypes'
    BY <1>10, <1>A, <1>B, Zenon DEF CleanDone, FlagTypes
  <2> QED
    BY <2>1, <2>2, <2>3, <2>4, <2>5, <2>6
<1>11. CASE BeginCase
  <2>1. DirTypes'
    BY <1>11, <1>A, <1>B DEF BeginCase, DirTypes, Dirs, PlaceTypes, CountTypes
  <2>2. ReceiptTypes'
    BY <1>11, <1>A, <1>B DEF BeginCase, ReceiptTypes, Probed, PlaceTypes, CountTypes
  <2>3. RowTypes'
    BY <1>11, <1>A, <1>B DEF BeginCase, RowTypes, Results, PlaceTypes, CountTypes
  <2>4. PlaceTypes'
    BY <1>11, <1>A, <1>B DEF BeginCase, PlaceTypes, Points, Dirs, DirTypes, Runs
  <2>5. CountTypes'
    <3>1. case' \in Missing
      BY <1>11, FirstMissing DEF BeginCase
    <3>2. stage' \in {1, Stages + 1} /\ faults' = faults
      BY <1>11 DEF BeginCase
    <3> QED
      BY <1>A, <3>1, <3>2 DEF CountTypes, Missing
  <2>6. FlagTypes'
    BY <1>11, <1>A, <1>B, Zenon DEF BeginCase, FlagTypes
  <2> QED
    BY <2>1, <2>2, <2>3, <2>4, <2>5, <2>6
<1>12. CASE CasesDone
  <2>1. DirTypes'
    BY <1>12, <1>A, <1>B DEF CasesDone, Leave, DirTypes, Dirs, PlaceTypes, CountTypes
  <2>2. ReceiptTypes'
    BY <1>12, <1>A, <1>B DEF CasesDone, Leave, ReceiptTypes, Probed, PlaceTypes, CountTypes
  <2>3. RowTypes'
    BY <1>12, <1>A, <1>B DEF CasesDone, Leave, RowTypes, Results, PlaceTypes, CountTypes
  <2>4. PlaceTypes'
    BY <1>12, <1>A, <1>B DEF CasesDone, Leave, PlaceTypes, Points, Dirs, DirTypes, Runs
  <2>5. CountTypes'
    BY <1>12, <1>A, <1>B DEF CasesDone, Leave, CountTypes, PlaceTypes
  <2>6. FlagTypes'
    BY <1>12, <1>A, <1>B, Zenon DEF CasesDone, Leave, FlagTypes
  <2> QED
    BY <2>1, <2>2, <2>3, <2>4, <2>5, <2>6
<1>13. CASE BootRaises
  <2>1. DirTypes'
    BY <1>13, <1>A, <1>B DEF BootRaises, DirTypes, Dirs, PlaceTypes, CountTypes
  <2>2. ReceiptTypes'
    BY <1>13, <1>A, <1>B DEF BootRaises, ReceiptTypes, Probed, PlaceTypes, CountTypes
  <2>3. RowTypes'
    BY <1>13, <1>A, <1>B DEF BootRaises, RowTypes, Results, PlaceTypes, CountTypes
  <2>4. PlaceTypes'
    BY <1>13, <1>A, <1>B DEF BootRaises, PlaceTypes, Points, Dirs, DirTypes, Runs
  <2>5. CountTypes'
    BY <1>13, <1>A, <1>B DEF BootRaises, CountTypes, PlaceTypes
  <2>6. FlagTypes'
    BY <1>13, <1>A, <1>B, Zenon DEF BootRaises, FlagTypes
  <2> QED
    BY <2>1, <2>2, <2>3, <2>4, <2>5, <2>6
<1>14. CASE MakeDir
  <2>1. DirTypes'
    BY <1>14, <1>A, <1>B DEF MakeDir, DirTypes, Dirs, PlaceTypes, CountTypes, InCase, Unsaved, Measuring, Dir
  <2>2. ReceiptTypes'
    BY <1>14, <1>A, <1>B DEF MakeDir, ReceiptTypes, Probed, PlaceTypes, CountTypes
  <2>3. RowTypes'
    BY <1>14, <1>A, <1>B DEF MakeDir, RowTypes, Results, PlaceTypes, CountTypes
  <2>4. PlaceTypes'
    BY <1>14, <1>A, <1>B DEF MakeDir, PlaceTypes, Points, Dirs, DirTypes, Runs
  <2>5. CountTypes'
    BY <1>14, <1>A, <1>B DEF MakeDir, CountTypes, PlaceTypes
  <2>6. FlagTypes'
    BY <1>14, <1>A, <1>B, Zenon DEF MakeDir, FlagTypes
  <2> QED
    BY <2>1, <2>2, <2>3, <2>4, <2>5, <2>6
<1>15. CASE SaveLaunch
  <2>1. DirTypes'
    BY <1>15, <1>A, <1>B DEF SaveLaunch, DirTypes, Dirs, PlaceTypes, CountTypes
  <2>2. ReceiptTypes'
    BY <1>15, <1>A, <1>B DEF SaveLaunch, ReceiptTypes, Probed, PlaceTypes, CountTypes
  <2>3. RowTypes'
    BY <1>15, <1>A, <1>B DEF SaveLaunch, RowTypes, Results, PlaceTypes, CountTypes
  <2>4. PlaceTypes'
    BY <1>15, <1>A, <1>B DEF SaveLaunch, PlaceTypes, Points, Dirs, DirTypes, Runs
  <2>5. CountTypes'
    BY <1>15, <1>A, <1>B DEF SaveLaunch, CountTypes, PlaceTypes
  <2>6. FlagTypes'
    BY <1>15, <1>A, <1>B, Zenon DEF SaveLaunch, FlagTypes
  <2> QED
    BY <2>1, <2>2, <2>3, <2>4, <2>5, <2>6
<1>16. CASE DockerRun
  <2>1. DirTypes'
    BY <1>16, <1>A, <1>B DEF DockerRun, DirTypes, Dirs, PlaceTypes, CountTypes, InCase, Unsaved, Measuring, Dir
  <2>2. ReceiptTypes'
    BY <1>16, <1>A, <1>B DEF DockerRun, ReceiptTypes, Probed, PlaceTypes, CountTypes
  <2>3. RowTypes'
    BY <1>16, <1>A, <1>B DEF DockerRun, RowTypes, Results, PlaceTypes, CountTypes
  <2>4. PlaceTypes'
    <3>1. case \in Cases /\ run \in Runs
      BY <1>16, <1>B DEF DockerRun, InCase, Unsaved, Measuring
    <3>2. server' \in {server, <<case, run>>}
      BY <1>16 DEF DockerRun, Dir
    <3>3. server' \in (Cases \X Runs) \cup {None}
      BY <1>A, <3>1, <3>2 DEF PlaceTypes
    <3>4. pc' \in Points /\ UNCHANGED <<run, plan, target>>
      BY <1>16 DEF DockerRun, Points
    <3> QED
      BY <1>A, <3>3, <3>4 DEF PlaceTypes
  <2>5. CountTypes'
    BY <1>16, <1>A, <1>B DEF DockerRun, CountTypes, PlaceTypes
  <2>6. FlagTypes'
    BY <1>16, <1>A, <1>B, Zenon DEF DockerRun, FlagTypes
  <2> QED
    BY <2>1, <2>2, <2>3, <2>4, <2>5, <2>6
<1>17. CASE SaveBootReceipt
  <2>1. DirTypes'
    BY <1>17, <1>A, <1>B DEF SaveBootReceipt, DirTypes, Dirs, PlaceTypes, CountTypes
  <2>2. ReceiptTypes'
    BY <1>17, <1>A, <1>B DEF SaveBootReceipt, ReceiptTypes, Probed, PlaceTypes, CountTypes
  <2>3. RowTypes'
    BY <1>17, <1>A, <1>B DEF SaveBootReceipt, RowTypes, Results, PlaceTypes, CountTypes
  <2>4. PlaceTypes'
    BY <1>17, <1>A, <1>B DEF SaveBootReceipt, PlaceTypes, Points, Dirs, DirTypes, Runs
  <2>5. CountTypes'
    BY <1>17, <1>A, <1>B DEF SaveBootReceipt, CountTypes, PlaceTypes
  <2>6. FlagTypes'
    BY <1>17, <1>A, <1>B, Zenon DEF SaveBootReceipt, FlagTypes
  <2> QED
    BY <2>1, <2>2, <2>3, <2>4, <2>5, <2>6
<1>18. CASE ProbeStage
  <2>1. DirTypes'
    BY <1>18, <1>A, <1>B DEF ProbeStage, DirTypes, Dirs, PlaceTypes, CountTypes
  <2>2. ReceiptTypes'
    BY <1>18, <1>A, <1>B DEF ProbeStage, ReceiptTypes, Probed, PlaceTypes, CountTypes
  <2>3. RowTypes'
    BY <1>18, <1>A, <1>B DEF ProbeStage, RowTypes, Results, PlaceTypes, CountTypes
  <2>4. PlaceTypes'
    BY <1>18, <1>A, <1>B DEF ProbeStage, PlaceTypes, Points, Dirs, DirTypes, Runs
  <2>5. CountTypes'
    BY <1>18, <1>A, <1>B DEF ProbeStage, CountTypes, PlaceTypes
  <2>6. FlagTypes'
    BY <1>18, <1>A, <1>B, Zenon DEF ProbeStage, FlagTypes
  <2> QED
    BY <2>1, <2>2, <2>3, <2>4, <2>5, <2>6
<1>19. CASE \E ok \in BOOLEAN : SaveStageReceipt(ok)
  <2>1. DirTypes'
    BY <1>19, <1>A, <1>B DEF SaveStageReceipt, DirTypes, Dirs, PlaceTypes, CountTypes
  <2>2. ReceiptTypes'
    <3>1. PICK ok \in BOOLEAN : SaveStageReceipt(ok)
      BY <1>19
    <3>2. [run |-> run, ok |-> ok] \in Probed
      BY <1>A DEF PlaceTypes, Probed
    <3>3. confRec' \in [Tiered \X (1 .. Stages) -> Probed]
      BY <1>A, <3>1, <3>2 DEF SaveStageReceipt, ReceiptTypes
    <3> QED
      BY <1>A, <3>1, <3>3 DEF SaveStageReceipt, ReceiptTypes
  <2>3. RowTypes'
    BY <1>19, <1>A, <1>B DEF SaveStageReceipt, RowTypes, Results, PlaceTypes, CountTypes
  <2>4. PlaceTypes'
    BY <1>19, <1>A, <1>B DEF SaveStageReceipt, PlaceTypes, Points, Dirs, DirTypes, Runs
  <2>5. CountTypes'
    <3>1. stage <= Stages /\ stage' = stage + 1 /\ UNCHANGED <<case, faults>>
      BY <1>19 DEF SaveStageReceipt, Control, Turn
    <3> QED
      BY <1>A, <3>1 DEF CountTypes
  <2>6. FlagTypes'
    BY <1>19, <1>A, <1>B, Zenon DEF SaveStageReceipt, FlagTypes
  <2> QED
    BY <2>1, <2>2, <2>3, <2>4, <2>5, <2>6
<1>20. CASE MeasurementEnds
  <2>1. DirTypes'
    BY <1>20, <1>A, <1>B DEF MeasurementEnds, DirTypes, Dirs, PlaceTypes, CountTypes
  <2>2. ReceiptTypes'
    BY <1>20, <1>A, <1>B DEF MeasurementEnds, ReceiptTypes, Probed, PlaceTypes, CountTypes
  <2>3. RowTypes'
    BY <1>20, <1>A, <1>B DEF MeasurementEnds, RowTypes, Results, PlaceTypes, CountTypes
  <2>4. PlaceTypes'
    BY <1>20, <1>A, <1>B DEF MeasurementEnds, PlaceTypes, Points, Dirs, DirTypes, Runs
  <2>5. CountTypes'
    BY <1>20, <1>A, <1>B DEF MeasurementEnds, CountTypes, PlaceTypes
  <2>6. FlagTypes'
    BY <1>20, <1>A, <1>B, Zenon DEF MeasurementEnds, FlagTypes
  <2> QED
    BY <2>1, <2>2, <2>3, <2>4, <2>5, <2>6
<1>21. CASE SaveMeasured
  <2>1. DirTypes'
    BY <1>21, <1>A, <1>B DEF SaveMeasured, DirTypes, Dirs, PlaceTypes, CountTypes
  <2>2. ReceiptTypes'
    BY <1>21, <1>A, <1>B DEF SaveMeasured, ReceiptTypes, Probed, PlaceTypes, CountTypes
  <2>3. RowTypes'
    BY <1>21, <1>A, <1>B DEF SaveMeasured, RowTypes, Results, PlaceTypes, CountTypes
  <2>4. PlaceTypes'
    BY <1>21, <1>A, <1>B DEF SaveMeasured, PlaceTypes, Points, Dirs, DirTypes, Runs
  <2>5. CountTypes'
    BY <1>21, <1>A, <1>B DEF SaveMeasured, CountTypes, PlaceTypes
  <2>6. FlagTypes'
    BY <1>21, <1>A, <1>B, Zenon DEF SaveMeasured, FlagTypes
  <2> QED
    BY <2>1, <2>2, <2>3, <2>4, <2>5, <2>6
<1>22. CASE Teardown
  <2>1. DirTypes'
    BY <1>22, <1>A, <1>B DEF Teardown, DirTypes, Dirs, PlaceTypes, CountTypes
  <2>2. ReceiptTypes'
    BY <1>22, <1>A, <1>B DEF Teardown, ReceiptTypes, Probed, PlaceTypes, CountTypes
  <2>3. RowTypes'
    BY <1>22, <1>A, <1>B DEF Teardown, RowTypes, Results, PlaceTypes, CountTypes
  <2>4. PlaceTypes'
    BY <1>22, <1>A, <1>B DEF Teardown, PlaceTypes, Points, Dirs, DirTypes, Runs
  <2>5. CountTypes'
    BY <1>22, <1>A, <1>B DEF Teardown, CountTypes, PlaceTypes
  <2>6. FlagTypes'
    BY <1>22, <1>A, <1>B, Zenon DEF Teardown, FlagTypes
  <2> QED
    BY <2>1, <2>2, <2>3, <2>4, <2>5, <2>6
<1>23. CASE TeardownFails
  <2>1. DirTypes'
    BY <1>23, <1>A, <1>B DEF TeardownFails, Fault, DirTypes, Dirs, PlaceTypes, CountTypes
  <2>2. ReceiptTypes'
    BY <1>23, <1>A, <1>B DEF TeardownFails, Fault, ReceiptTypes, Probed, PlaceTypes, CountTypes
  <2>3. RowTypes'
    BY <1>23, <1>A, <1>B DEF TeardownFails, Fault, RowTypes, Results, PlaceTypes, CountTypes
  <2>4. PlaceTypes'
    BY <1>23, <1>A, <1>B DEF TeardownFails, Fault, PlaceTypes, Points, Dirs, DirTypes, Runs
  <2>5. CountTypes'
    BY <1>23, <1>A, <1>B DEF TeardownFails, Fault, CountTypes, PlaceTypes
  <2>6. FlagTypes'
    BY <1>23, <1>A, <1>B, Zenon DEF TeardownFails, Fault, FlagTypes
  <2> QED
    BY <2>1, <2>2, <2>3, <2>4, <2>5, <2>6
<1>24. CASE Remove
  <2>1. DirTypes'
    BY <1>24, <1>A, <1>B DEF Remove, DirTypes, Dirs, PlaceTypes, CountTypes, InCase, Unsaved, Measuring, Dir
  <2>2. ReceiptTypes'
    BY <1>24, <1>A, <1>B DEF Remove, ReceiptTypes, Probed, PlaceTypes, CountTypes
  <2>3. RowTypes'
    BY <1>24, <1>A, <1>B DEF Remove, RowTypes, Results, PlaceTypes, CountTypes
  <2>4. PlaceTypes'
    BY <1>24, <1>A, <1>B DEF Remove, PlaceTypes, Points, Dirs, DirTypes, Runs
  <2>5. CountTypes'
    BY <1>24, <1>A, <1>B DEF Remove, CountTypes, PlaceTypes
  <2>6. FlagTypes'
    BY <1>24, <1>A, <1>B, Zenon DEF Remove, FlagTypes
  <2> QED
    BY <2>1, <2>2, <2>3, <2>4, <2>5, <2>6
<1>25. CASE RemoveEnds
  <2>1. DirTypes'
    BY <1>25, <1>A, <1>B DEF RemoveEnds, DirTypes, Dirs, PlaceTypes, CountTypes
  <2>2. ReceiptTypes'
    BY <1>25, <1>A, <1>B DEF RemoveEnds, ReceiptTypes, Probed, PlaceTypes, CountTypes
  <2>3. RowTypes'
    BY <1>25, <1>A, <1>B DEF RemoveEnds, RowTypes, Results, PlaceTypes, CountTypes
  <2>4. PlaceTypes'
    BY <1>25, <1>A, <1>B DEF RemoveEnds, PlaceTypes, Points, Dirs, DirTypes, Runs
  <2>5. CountTypes'
    BY <1>25, <1>A, <1>B DEF RemoveEnds, CountTypes, PlaceTypes
  <2>6. FlagTypes'
    BY <1>25, <1>A, <1>B, Zenon DEF RemoveEnds, FlagTypes
  <2> QED
    BY <2>1, <2>2, <2>3, <2>4, <2>5, <2>6
<1>26. CASE RemoveFails
  <2>1. DirTypes'
    BY <1>26, <1>A, <1>B DEF RemoveFails, Fault, DirTypes, Dirs, PlaceTypes, CountTypes
  <2>2. ReceiptTypes'
    BY <1>26, <1>A, <1>B DEF RemoveFails, Fault, ReceiptTypes, Probed, PlaceTypes, CountTypes
  <2>3. RowTypes'
    BY <1>26, <1>A, <1>B DEF RemoveFails, Fault, RowTypes, Results, PlaceTypes, CountTypes
  <2>4. PlaceTypes'
    BY <1>26, <1>A, <1>B DEF RemoveFails, Fault, PlaceTypes, Points, Dirs, DirTypes, Runs
  <2>5. CountTypes'
    BY <1>26, <1>A, <1>B DEF RemoveFails, Fault, CountTypes, PlaceTypes
  <2>6. FlagTypes'
    BY <1>26, <1>A, <1>B, Zenon DEF RemoveFails, Fault, FlagTypes
  <2> QED
    BY <2>1, <2>2, <2>3, <2>4, <2>5, <2>6
<1>27. CASE SaveRemoved
  <2>1. DirTypes'
    <3>1. Dir \in Dirs
      <4>1. case \in Tiered /\ run \in Runs
        BY <1>27, <1>B DEF SaveRemoved, Control, Turn
      <4> QED
        BY <4>1 DEF Dir, Dirs
    <3> QED
      BY <1>27, <1>A, <3>1 DEF SaveRemoved, DirTypes
  <2>2. ReceiptTypes'
    BY <1>27, <1>A, <1>B DEF SaveRemoved, ReceiptTypes, Probed, PlaceTypes, CountTypes
  <2>3. RowTypes'
    BY <1>27, <1>A, <1>B DEF SaveRemoved, RowTypes, Results, PlaceTypes, CountTypes
  <2>4. PlaceTypes'
    BY <1>27, <1>A, <1>B DEF SaveRemoved, PlaceTypes, Points, Dirs, DirTypes, Runs
  <2>5. CountTypes'
    BY <1>27, <1>A, <1>B DEF SaveRemoved, CountTypes, PlaceTypes
  <2>6. FlagTypes'
    BY <1>27, <1>A, <1>B, Zenon DEF SaveRemoved, FlagTypes
  <2> QED
    BY <2>1, <2>2, <2>3, <2>4, <2>5, <2>6
<1>28. CASE SaveRow
  <2>1. DirTypes'
    BY <1>28, <1>A, <1>B DEF SaveRow, Leave, DirTypes, Dirs, PlaceTypes, CountTypes
  <2>2. ReceiptTypes'
    BY <1>28, <1>A, <1>B DEF SaveRow, Leave, ReceiptTypes, Probed, PlaceTypes, CountTypes
  <2>3. RowTypes'
    <3>1. results' = [results EXCEPT ![case].safe = safe] /\ summary' = summary
      BY <1>28 DEF SaveRow
    <3>2. safe \in BOOLEAN
      BY <1>A DEF FlagTypes
    <3> QED
      BY <1>A, <3>1, <3>2 DEF RowTypes, Results
  <2>4. PlaceTypes'
    BY <1>28, <1>A, <1>B DEF SaveRow, Leave, PlaceTypes, Points, Dirs, DirTypes, Runs
  <2>5. CountTypes'
    BY <1>28, <1>A, <1>B DEF SaveRow, Leave, CountTypes, PlaceTypes
  <2>6. FlagTypes'
    BY <1>28, <1>A, <1>B, Zenon DEF SaveRow, Leave, FlagTypes
  <2> QED
    BY <2>1, <2>2, <2>3, <2>4, <2>5, <2>6
<1>29. CASE Count
  <2>1. DirTypes'
    BY <1>29, <1>A, <1>B DEF Count, Leave, DirTypes, Dirs, PlaceTypes, CountTypes
  <2>2. ReceiptTypes'
    BY <1>29, <1>A, <1>B DEF Count, Leave, ReceiptTypes, Probed, PlaceTypes, CountTypes
  <2>3. RowTypes'
    BY <1>29, <1>A, <1>B DEF Count, Leave, RowTypes, Results, PlaceTypes, CountTypes
  <2>4. PlaceTypes'
    BY <1>29, <1>A, <1>B DEF Count, Leave, PlaceTypes, Points, Dirs, DirTypes, Runs
  <2>5. CountTypes'
    BY <1>29, <1>A, <1>B DEF Count, Leave, CountTypes, PlaceTypes
  <2>6. FlagTypes'
    BY <1>29, <1>A, <1>B, Zenon DEF Count, Leave, FlagTypes
  <2> QED
    BY <2>1, <2>2, <2>3, <2>4, <2>5, <2>6
<1>30. CASE Killed
  <2>1. DirTypes'
    BY <1>30, <1>A, <1>B DEF Killed, Leave, Fault, DirTypes, Dirs, PlaceTypes, CountTypes
  <2>2. ReceiptTypes'
    BY <1>30, <1>A, <1>B DEF Killed, Leave, Fault, ReceiptTypes, Probed, PlaceTypes, CountTypes
  <2>3. RowTypes'
    BY <1>30, <1>A, <1>B DEF Killed, Leave, Fault, RowTypes, Results, PlaceTypes, CountTypes
  <2>4. PlaceTypes'
    BY <1>30, <1>A, <1>B DEF Killed, Leave, Fault, PlaceTypes, Points, Dirs, DirTypes, Runs
  <2>5. CountTypes'
    BY <1>30, <1>A, <1>B DEF Killed, Leave, Fault, CountTypes, PlaceTypes
  <2>6. FlagTypes'
    BY <1>30, <1>A, <1>B, Zenon DEF Killed, Leave, Fault, FlagTypes
  <2> QED
    BY <2>1, <2>2, <2>3, <2>4, <2>5, <2>6
<1>31. CASE Interrupt
  <2>1. DirTypes'
    BY <1>31, <1>A, <1>B DEF Interrupt, Fault, DirTypes, Dirs, PlaceTypes, CountTypes
  <2>2. ReceiptTypes'
    BY <1>31, <1>A, <1>B DEF Interrupt, Fault, ReceiptTypes, Probed, PlaceTypes, CountTypes
  <2>3. RowTypes'
    BY <1>31, <1>A, <1>B DEF Interrupt, Fault, RowTypes, Results, PlaceTypes, CountTypes
  <2>4. PlaceTypes'
    BY <1>31, <1>A, <1>B DEF Interrupt, Fault, PlaceTypes, Points, Dirs, DirTypes, Runs
  <2>5. CountTypes'
    BY <1>31, <1>A, <1>B DEF Interrupt, Fault, CountTypes, PlaceTypes
  <2>6. FlagTypes'
    BY <1>31, <1>A, <1>B, Zenon DEF Interrupt, Fault, FlagTypes
  <2> QED
    BY <2>1, <2>2, <2>3, <2>4, <2>5, <2>6
<1>32. CASE Recreate
  <2>1. DirTypes'
    BY <1>32, <1>A, <1>B DEF Recreate, Fault, DirTypes, Dirs, PlaceTypes, CountTypes
  <2>2. ReceiptTypes'
    BY <1>32, <1>A, <1>B DEF Recreate, Fault, ReceiptTypes, Probed, PlaceTypes, CountTypes
  <2>3. RowTypes'
    BY <1>32, <1>A, <1>B DEF Recreate, Fault, RowTypes, Results, PlaceTypes, CountTypes
  <2>4. PlaceTypes'
    BY <1>32, <1>A, <1>B DEF Recreate, Fault, PlaceTypes, Points, Dirs, DirTypes, Runs
  <2>5. CountTypes'
    BY <1>32, <1>A, <1>B DEF Recreate, Fault, CountTypes, PlaceTypes
  <2>6. FlagTypes'
    BY <1>32, <1>A, <1>B, Zenon DEF Recreate, Fault, FlagTypes
  <2> QED
    BY <2>1, <2>2, <2>3, <2>4, <2>5, <2>6
<1>33. CASE UNCHANGED vars
  <2>1. DirTypes'
    BY <1>33, <1>A, <1>B DEF vars, DirTypes, Dirs, PlaceTypes, CountTypes
  <2>2. ReceiptTypes'
    BY <1>33, <1>A, <1>B DEF vars, ReceiptTypes, Probed, PlaceTypes, CountTypes
  <2>3. RowTypes'
    BY <1>33, <1>A, <1>B DEF vars, RowTypes, Results, PlaceTypes, CountTypes
  <2>4. PlaceTypes'
    BY <1>33, <1>A, <1>B DEF vars, PlaceTypes, Points, Dirs, DirTypes, Runs
  <2>5. CountTypes'
    BY <1>33, <1>A, <1>B DEF vars, CountTypes, PlaceTypes
  <2>6. FlagTypes'
    BY <1>33, <1>A, <1>B, Zenon DEF vars, FlagTypes
  <2> QED
    BY <2>1, <2>2, <2>3, <2>4, <2>5, <2>6
<1> QED
  BY <1>1, <1>2, <1>3, <1>4, <1>5, <1>6, <1>7, <1>8, <1>9, <1>10, <1>11, <1>12, <1>13, <1>14, <1>15, <1>16, <1>17, <1>18, <1>19, <1>20, <1>21, <1>22, <1>23, <1>24, <1>25, <1>26, <1>27, <1>28, <1>29, <1>30, <1>31, <1>32, <1>33 DEF Next, RunStep


\* Every step keeps the case under way.
LEMMA TurnStep ==
  ASSUME TypeOK, Control, [Next]_vars
  PROVE  Turn'
<1> USE DEF receipts, rows, phaseVars, history
<1>A. Turn /\ run \in Nat /\ stage \in Nat /\ case \in Cases \cup {0}
      /\ Stages \in Nat
  BY Numbers DEF Control, TypeOK
<1>B. summary' = summary => Missing' = Missing
  BY DEF Missing
<1>1. CASE Start
  <2>1. run' = run + 1 /\ pc' = "teardownFirst"
    BY <1>1 DEF Start
  <2>2. run' > 0
    BY <1>A, <2>1
  <2> QED
    BY <2>1, <2>2 DEF Turn, InCase, Unsaved, Measuring
<1>2. CASE Refuse
  BY <1>2, <1>A, <1>B DEF Refuse, Turn, InCase, Unsaved, Measuring
<1>3. CASE TeardownFirst
  BY <1>3, <1>A, <1>B DEF TeardownFirst, Turn, InCase, Unsaved, Measuring
<1>4. CASE TeardownFirstFails
  BY <1>4, <1>A, <1>B DEF TeardownFirstFails, Leave, Fault, Turn, InCase, Unsaved, Measuring
<1>5. CASE CleanNext
  BY <1>5, <1>A, <1>B DEF CleanNext, Turn, InCase, Unsaved, Measuring
<1>6. CASE CleanRefused
  BY <1>6, <1>A, <1>B DEF CleanRefused, Leave, Turn, InCase, Unsaved, Measuring
<1>7. CASE CleanEnds
  BY <1>7, <1>A, <1>B DEF CleanEnds, Turn, InCase, Unsaved, Measuring
<1>8. CASE CleanFails
  BY <1>8, <1>A, <1>B DEF CleanFails, Leave, Fault, Turn, InCase, Unsaved, Measuring
<1>9. CASE CleanOnly
  BY <1>9, <1>A, <1>B DEF CleanOnly, Leave, Fault, Turn, InCase, Unsaved, Measuring
<1>10. CASE CleanDone
  BY <1>10, <1>A, <1>B DEF CleanDone, Turn, InCase, Unsaved, Measuring
<1>11. CASE BeginCase
  <2>1. case' \in Missing /\ \A m \in Missing : case' <= m
    BY <1>11, FirstMissing DEF BeginCase
  <2>2. pc' = "mkdir" /\ Missing' = Missing /\ run' = run /\ run > 0
    BY <1>11, <1>A, <1>B DEF BeginCase, Turn
  <2>3. case' \in Tiered \/ stage' = Stages + 1
    BY <1>11 DEF BeginCase
  <2>4. stage' > 0 /\ (stage' <= Stages => case' \in Tiered)
    BY <1>11, <1>A, <2>3 DEF BeginCase
  <2> QED
    BY <2>1, <2>2, <2>4 DEF Turn, InCase, Unsaved, Measuring
<1>12. CASE CasesDone
  BY <1>12, <1>A, <1>B DEF CasesDone, Leave, Turn, InCase, Unsaved, Measuring
<1>13. CASE BootRaises
  BY <1>13, <1>A, <1>B DEF BootRaises, Turn, InCase, Unsaved, Measuring
<1>14. CASE MakeDir
  BY <1>14, <1>A, <1>B DEF MakeDir, Turn, InCase, Unsaved, Measuring
<1>15. CASE SaveLaunch
  BY <1>15, <1>A, <1>B DEF SaveLaunch, Turn, InCase, Unsaved, Measuring
<1>16. CASE DockerRun
  BY <1>16, <1>A, <1>B DEF DockerRun, Turn, InCase, Unsaved, Measuring
<1>17. CASE SaveBootReceipt
  BY <1>17, <1>A, <1>B DEF SaveBootReceipt, Turn, InCase, Unsaved, Measuring
<1>18. CASE ProbeStage
  BY <1>18, <1>A, <1>B DEF ProbeStage, Turn, InCase, Unsaved, Measuring
<1>19. CASE \E ok \in BOOLEAN : SaveStageReceipt(ok)
  <2>1. /\ pc = "stageReceipt" /\ pc' = "stages" /\ stage' = stage + 1
        /\ UNCHANGED <<case, run, summary>>
    BY <1>19 DEF SaveStageReceipt
  <2>2. run > 0 /\ case \in Missing /\ (\A m \in Missing : case <= m) /\ case \in Tiered
    BY <1>A, <2>1 DEF Turn, InCase, Unsaved, Measuring
  <2>3. stage' > 0 /\ Missing' = Missing
    BY <1>A, <1>B, <2>1
  <2> QED
    BY <2>1, <2>2, <2>3 DEF Turn, InCase, Unsaved, Measuring
<1>20. CASE MeasurementEnds
  BY <1>20, <1>A, <1>B DEF MeasurementEnds, Turn, InCase, Unsaved, Measuring
<1>21. CASE SaveMeasured
  BY <1>21, <1>A, <1>B DEF SaveMeasured, Turn, InCase, Unsaved, Measuring
<1>22. CASE Teardown
  BY <1>22, <1>A, <1>B DEF Teardown, Turn, InCase, Unsaved, Measuring
<1>23. CASE TeardownFails
  BY <1>23, <1>A, <1>B DEF TeardownFails, Fault, Turn, InCase, Unsaved, Measuring
<1>24. CASE Remove
  BY <1>24, <1>A, <1>B DEF Remove, Turn, InCase, Unsaved, Measuring
<1>25. CASE RemoveEnds
  BY <1>25, <1>A, <1>B DEF RemoveEnds, Turn, InCase, Unsaved, Measuring
<1>26. CASE RemoveFails
  BY <1>26, <1>A, <1>B DEF RemoveFails, Fault, Turn, InCase, Unsaved, Measuring
<1>27. CASE SaveRemoved
  BY <1>27, <1>A, <1>B DEF SaveRemoved, Turn, InCase, Unsaved, Measuring
<1>28. CASE SaveRow
  BY <1>28, <1>A, <1>B DEF SaveRow, Leave, Turn, InCase, Unsaved, Measuring
<1>29. CASE Count
  BY <1>29, <1>A, <1>B DEF Count, Leave, Turn, InCase, Unsaved, Measuring
<1>30. CASE Killed
  BY <1>30, <1>A, <1>B DEF Killed, Leave, Fault, Turn, InCase, Unsaved, Measuring
<1>31. CASE Interrupt
  BY <1>31, <1>A, <1>B DEF Interrupt, Fault, Turn, InCase, Unsaved, Measuring
<1>32. CASE Recreate
  BY <1>32, <1>A, <1>B DEF Recreate, Fault, Turn, InCase, Unsaved, Measuring
<1>33. CASE UNCHANGED vars
  BY <1>33, <1>A, <1>B DEF vars, Turn, InCase, Unsaved, Measuring
<1> QED
  BY <1>1, <1>2, <1>3, <1>4, <1>5, <1>6, <1>7, <1>8, <1>9, <1>10, <1>11, <1>12, <1>13, <1>14, <1>15, <1>16, <1>17, <1>18, <1>19, <1>20, <1>21, <1>22, <1>23, <1>24, <1>25, <1>26, <1>27, <1>28, <1>29, <1>30, <1>31, <1>32, <1>33 DEF Next, RunStep


\* Every step keeps containers and deletions apart.
LEMMA AloneStep ==
  ASSUME TypeOK, Control, Traces, [Next]_vars
  PROVE  Alone'
<1> USE DEF receipts, rows, phaseVars, history
<1>A. /\ Alone /\ target \in Dirs \cup {None} /\ safe \in BOOLEAN
      /\ None \notin Dirs
  <2>1. None \notin Dirs
    BY DEF None, Dirs, Tiered
  <2> QED
    BY <2>1 DEF Control, TypeOK
<1>1. CASE Start
  BY <1>1, <1>A DEF Start, Alone, Quiet, Gone, Dir, Measuring
<1>2. CASE Refuse
  BY <1>2, <1>A DEF Refuse, Alone, Quiet, Gone, Dir, Measuring
<1>3. CASE TeardownFirst
  BY <1>3, <1>A DEF TeardownFirst, Alone, Quiet, Gone, Dir, Measuring
<1>4. CASE TeardownFirstFails
  BY <1>4, <1>A DEF TeardownFirstFails, Leave, Fault, Alone, Quiet, Gone, Dir, Measuring
<1>5. CASE CleanNext
  <2>1. target' \in Dirs
    BY <1>5 DEF CleanNext, TypeOK
  <2> QED
    BY <1>5, <1>A, <2>1 DEF CleanNext, Alone, Quiet
<1>6. CASE CleanRefused
  BY <1>6, <1>A DEF CleanRefused, Leave, Alone, Quiet, Gone, Dir, Measuring
<1>7. CASE CleanEnds
  BY <1>7, <1>A DEF CleanEnds, Alone, Quiet, Gone, Dir, Measuring
<1>8. CASE CleanFails
  BY <1>8, <1>A DEF CleanFails, Leave, Fault, Alone, Quiet, Gone, Dir, Measuring
<1>9. CASE CleanOnly
  BY <1>9, <1>A DEF CleanOnly, Leave, Fault, Alone, Quiet, Gone, Dir, Measuring
<1>10. CASE CleanDone
  BY <1>10, <1>A DEF CleanDone, Alone, Quiet, Gone, Dir, Measuring
<1>11. CASE BeginCase
  BY <1>11, <1>A DEF BeginCase, Alone, Quiet, Gone, Dir, Measuring
<1>12. CASE CasesDone
  BY <1>12, <1>A DEF CasesDone, Leave, Alone, Quiet, Gone, Dir, Measuring
<1>13. CASE BootRaises
  BY <1>13, <1>A DEF BootRaises, Alone, Quiet, Gone, Dir, Measuring
<1>14. CASE MakeDir
  BY <1>14, <1>A DEF MakeDir, Alone, Quiet, Gone, Dir, Measuring
<1>15. CASE SaveLaunch
  BY <1>15, <1>A DEF SaveLaunch, Alone, Quiet, Gone, Dir, Measuring
<1>16. CASE DockerRun
  BY <1>16, <1>A DEF DockerRun, Alone, Quiet, Gone, Dir, Measuring
<1>17. CASE SaveBootReceipt
  BY <1>17, <1>A DEF SaveBootReceipt, Alone, Quiet, Gone, Dir, Measuring
<1>18. CASE ProbeStage
  BY <1>18, <1>A DEF ProbeStage, Alone, Quiet, Gone, Dir, Measuring
<1>19. CASE \E ok \in BOOLEAN : SaveStageReceipt(ok)
  <2>1. pc = "stageReceipt" /\ pc' = "stages" /\ UNCHANGED <<target, server, safe>>
    BY <1>19 DEF SaveStageReceipt
  <2> QED
    BY <1>A, <2>1 DEF Alone, Quiet
<1>20. CASE MeasurementEnds
  BY <1>20, <1>A DEF MeasurementEnds, Alone, Quiet, Gone, Dir, Measuring
<1>21. CASE SaveMeasured
  BY <1>21, <1>A DEF SaveMeasured, Alone, Quiet, Gone, Dir, Measuring
<1>22. CASE Teardown
  <2>1. /\ pc = "teardown" /\ server' = None /\ pc' \in {"remove", "save"}
        /\ UNCHANGED <<target, dirs, foreign, case, run>>
    BY <1>22 DEF Teardown
  <2>2. safe' => pc' = "save" /\ case \notin Tiered
    BY <1>22, <1>A DEF Teardown, Alone
  <2>3. case \notin Tiered => Dir \notin dirs
    BY DEF TypeOK, Dir, Dirs
  <2> QED
    BY <1>A, <2>1, <2>2, <2>3 DEF Alone, Quiet, Gone, Dir
<1>23. CASE TeardownFails
  BY <1>23, <1>A DEF TeardownFails, Fault, Alone, Quiet, Gone, Dir, Measuring
<1>24. CASE Remove
  <2>1. pc = "remove" /\ UNCHANGED <<dirs, foreign, server, case, run, safe>>
    BY <1>24 DEF Remove
  <2>2. /\ Dir \in dirs => target' = Dir /\ pc' = "removing"
        /\ Dir \notin dirs => target' = target /\ pc' = "receipt"
    BY <1>24 DEF Remove
  <2>3. dirs \subseteq Dirs /\ Dir' = Dir
    BY <2>1 DEF TypeOK, Dir
  <2> QED
    BY <1>A, <2>1, <2>2, <2>3 DEF Alone, Quiet, Gone
<1>25. CASE RemoveEnds
  BY <1>25, <1>A DEF RemoveEnds, Alone, Quiet, Gone, Dir, Measuring
<1>26. CASE RemoveFails
  BY <1>26, <1>A DEF RemoveFails, Fault, Alone, Quiet, Gone, Dir, Measuring
<1>27. CASE SaveRemoved
  BY <1>27, <1>A DEF SaveRemoved, Alone, Quiet, Gone, Dir, Measuring
<1>28. CASE SaveRow
  BY <1>28, <1>A DEF SaveRow, Leave, Alone, Quiet, Gone, Dir, Measuring
<1>29. CASE Count
  BY <1>29, <1>A DEF Count, Leave, Alone, Quiet, Gone, Dir, Measuring
<1>30. CASE Killed
  BY <1>30, <1>A DEF Killed, Leave, Fault, Alone, Quiet, Gone, Dir, Measuring
<1>31. CASE Interrupt
  BY <1>31, <1>A DEF Interrupt, Fault, Alone, Quiet, Gone, Dir, Measuring
<1>32. CASE Recreate
  BY <1>32, <1>A DEF Recreate, Fault, Alone, Quiet, Gone, Dir, Measuring
<1>33. CASE UNCHANGED vars
  BY <1>33, <1>A DEF vars, Alone, Quiet, Gone, Dir, Measuring
<1> QED
  BY <1>1, <1>2, <1>3, <1>4, <1>5, <1>6, <1>7, <1>8, <1>9, <1>10, <1>11, <1>12, <1>13, <1>14, <1>15, <1>16, <1>17, <1>18, <1>19, <1>20, <1>21, <1>22, <1>23, <1>24, <1>25, <1>26, <1>27, <1>28, <1>29, <1>30, <1>31, <1>32, <1>33 DEF Next, RunStep


\* Every step keeps track of the directories.
LEMMA TracesStep ==
  ASSUME TypeOK, Control, Traces, [Next]_vars
  PROVE  Traces'
<1> USE DEF receipts, rows, phaseVars, history
<1>A. /\ Traces /\ run \in Nat
      /\ AllDirs \subseteq Dirs
  BY DEF TypeOK, AllDirs
<1>B. \A d \in Dirs : d = <<d[1], d[2]>> /\ d[1] \in Tiered /\ d[2] \in Nat
  BY DEF Dirs, Runs
<1>1. CASE Start
  <2>1. /\ pc = "idle" /\ pc' = "teardownFirst" /\ run' = run + 1 /\ plan' \subseteq dirs
        /\ UNCHANGED <<dirs, tried, removed, served, foreign, target>>
    BY <1>1 DEF Start, Candidates
  <2>2. \A d \in AllDirs : d[2] < run'
    BY <1>A, <1>B, <2>1 DEF Traces, Past
  <2>3. \A d \in AllDirs' : Past(d)'
    BY <1>B, <1>A, <2>1, <2>2 DEF AllDirs, Past
  <2> QED
    BY <1>A, <2>1, <2>3 DEF Traces, Unsaved, Measuring, Cleaning
<1>2. CASE Refuse
  BY <1>2, <1>A, <1>B DEF Refuse, Traces, AllDirs, Past, InCase, Unsaved, Measuring, Cleaning, Dir
<1>3. CASE TeardownFirst
  BY <1>3, <1>A, <1>B DEF TeardownFirst, Traces, AllDirs, Past, InCase, Unsaved, Measuring, Cleaning, Dir
<1>4. CASE TeardownFirstFails
  BY <1>4, <1>A, <1>B DEF TeardownFirstFails, Leave, Fault, Traces, AllDirs, Past, InCase, Unsaved, Measuring, Cleaning, Dir
<1>5. CASE CleanNext
  <2>1. /\ pc = "clean" /\ pc' = "emptying" /\ target' \in plan \ tried
        /\ tried' = tried \cup {target'}
        /\ UNCHANGED <<dirs, removed, served, foreign, plan, run, case, summary>>
    BY <1>5 DEF CleanNext, BegunBefore
  <2>2. AllDirs' = AllDirs /\ target' \in dirs \ foreign
    BY <1>A, <2>1 DEF AllDirs, Traces
  <2>3. \A d \in AllDirs' : Past(d)'
    BY <1>A, <2>1, <2>2 DEF Traces, Past, InCase, Unsaved, Measuring
  <2> QED
    BY <1>A, <2>1, <2>2, <2>3 DEF Traces, Unsaved, Measuring, Cleaning
<1>6. CASE CleanRefused
  BY <1>6, <1>A, <1>B DEF CleanRefused, Leave, Traces, AllDirs, Past, InCase, Unsaved, Measuring, Cleaning, Dir
<1>7. CASE CleanEnds
  BY <1>7, <1>A, <1>B DEF CleanEnds, Traces, AllDirs, Past, InCase, Unsaved, Measuring, Cleaning, Dir
<1>8. CASE CleanFails
  BY <1>8, <1>A, <1>B DEF CleanFails, Leave, Fault, Traces, AllDirs, Past, InCase, Unsaved, Measuring, Cleaning, Dir
<1>9. CASE CleanOnly
  BY <1>9, <1>A, <1>B DEF CleanOnly, Leave, Fault, Traces, AllDirs, Past, InCase, Unsaved, Measuring, Cleaning, Dir
<1>10. CASE CleanDone
  BY <1>10, <1>A, <1>B DEF CleanDone, Traces, AllDirs, Past, InCase, Unsaved, Measuring, Cleaning, Dir
<1>11. CASE BeginCase
  <2>1. /\ pc = "case" /\ pc' = "mkdir" /\ case' \in Missing
        /\ UNCHANGED <<dirs, tried, removed, served, foreign, plan, target, run, summary>>
    BY <1>11, FirstMissing DEF BeginCase
  <2>2. \A d \in AllDirs : d[2] < run \/ (d[2] <= run /\ summary[d[1]] # 0)
    BY <1>A, <2>1 DEF Traces, Past, InCase, Unsaved, Measuring
  <2>3. Dir' \notin AllDirs
    <3>1. SUFFICES ASSUME Dir' \in AllDirs
                   PROVE  FALSE
      OBVIOUS
    <3>2. Dir' = <<case', run>>
      BY <2>1 DEF Dir
    <3>3. summary[case'] # 0
      BY <1>A, <2>2, <3>1, <3>2
    <3> QED
      BY <2>1, <3>3 DEF Missing
  <2>4. \A d \in AllDirs' : Past(d)'
    BY <2>1, <2>2, <1>A, <1>B DEF AllDirs, Past
  <2> QED
    BY <1>A, <2>1, <2>3, <2>4 DEF Traces, AllDirs, Cleaning
<1>12. CASE CasesDone
  BY <1>12, <1>A, <1>B DEF CasesDone, Leave, Traces, AllDirs, Past, InCase, Unsaved, Measuring, Cleaning, Dir
<1>13. CASE BootRaises
  BY <1>13, <1>A, <1>B DEF BootRaises, Traces, AllDirs, Past, InCase, Unsaved, Measuring, Cleaning, Dir
<1>14. CASE MakeDir
  <2>1. /\ pc = "mkdir" /\ pc' = "launch" /\ dirs' \subseteq dirs \cup {Dir}
        /\ dirs \subseteq dirs' /\ Dir' = Dir
        /\ UNCHANGED <<tried, removed, served, foreign, plan, target, run, case, summary>>
    BY <1>14 DEF MakeDir, Dir
  <2>2. case \in Missing
    BY <2>1 DEF Control, Turn, InCase, Unsaved, Measuring
  <2>3. Dir = <<case, run>>
    BY DEF Dir
  <2>4. \A d \in AllDirs : d[2] < run \/ (d[2] <= run /\ summary[d[1]] # 0)
    BY <1>A, <2>1 DEF Traces, Past
  <2>5. Dir \notin AllDirs
    BY <1>A, <2>2, <2>3, <2>4 DEF Missing
  <2>6. \A d \in AllDirs' : d \in AllDirs \/ d = Dir
    BY <2>1 DEF AllDirs
  <2>7. \A d \in AllDirs' : Past(d)'
    <3>1. \A d \in AllDirs : Past(d)'
      BY <1>A, <1>B, <2>1, <2>4 DEF Past
    <3>2. Dir[1] = case /\ Dir[2] = run
      BY <2>3
    <3>3. Past(Dir)'
      BY <1>A, <2>1, <3>2 DEF Past, InCase, Unsaved, Measuring
    <3> QED
      BY <2>1, <2>6, <3>1, <3>3
  <2> QED
    BY <1>A, <2>1, <2>5, <2>7 DEF Traces, AllDirs, Unsaved, Measuring, Cleaning
<1>15. CASE SaveLaunch
  BY <1>15, <1>A, <1>B DEF SaveLaunch, Traces, AllDirs, Past, InCase, Unsaved, Measuring, Cleaning, Dir
<1>16. CASE DockerRun
  <2>1. /\ pc = "dockerRun" /\ pc' = "bootReceipt" /\ Dir' = Dir
        /\ served' \subseteq served \cup {Dir}
        /\ UNCHANGED <<dirs, tried, removed, foreign, plan, target, run, case, summary>>
    BY <1>16 DEF DockerRun, Dir
  <2>2. \A d \in AllDirs' : d \in AllDirs \/ d = Dir
    BY <2>1 DEF AllDirs
  <2>3. Dir[1] = case /\ Dir[2] = run
    BY DEF Dir
  <2>4. \A d \in AllDirs : Past(d)'
    BY <1>A, <2>1 DEF Traces, Past, InCase, Unsaved, Measuring
  <2>5. \A d \in AllDirs' : Past(d)'
    BY <1>A, <2>1, <2>2, <2>3, <2>4 DEF Past, InCase, Unsaved, Measuring
  <2> QED
    BY <1>A, <2>1, <2>5 DEF Traces, Unsaved, Measuring, Cleaning
<1>17. CASE SaveBootReceipt
  BY <1>17, <1>A, <1>B DEF SaveBootReceipt, Traces, AllDirs, Past, InCase, Unsaved, Measuring, Cleaning, Dir
<1>18. CASE ProbeStage
  BY <1>18, <1>A, <1>B DEF ProbeStage, Traces, AllDirs, Past, InCase, Unsaved, Measuring, Cleaning, Dir
<1>19. CASE \E ok \in BOOLEAN : SaveStageReceipt(ok)
  <2>1. /\ pc = "stageReceipt" /\ pc' = "stages" /\ Dir' = Dir /\ AllDirs' = AllDirs
        /\ UNCHANGED <<dirs, tried, removed, served, foreign, plan, target, run, case, summary>>
    BY <1>19 DEF SaveStageReceipt, Dir, AllDirs
  <2>2. \A d \in AllDirs' : Past(d)'
    BY <1>A, <2>1 DEF Traces, Past, InCase, Unsaved, Measuring
  <2> QED
    BY <1>A, <2>1, <2>2 DEF Traces, Unsaved, Measuring, Cleaning
<1>20. CASE MeasurementEnds
  BY <1>20, <1>A, <1>B DEF MeasurementEnds, Traces, AllDirs, Past, InCase, Unsaved, Measuring, Cleaning, Dir
<1>21. CASE SaveMeasured
  BY <1>21, <1>A, <1>B DEF SaveMeasured, Traces, AllDirs, Past, InCase, Unsaved, Measuring, Cleaning, Dir
<1>22. CASE Teardown
  BY <1>22, <1>A, <1>B DEF Teardown, Traces, AllDirs, Past, InCase, Unsaved, Measuring, Cleaning, Dir
<1>23. CASE TeardownFails
  BY <1>23, <1>A, <1>B DEF TeardownFails, Fault, Traces, AllDirs, Past, InCase, Unsaved, Measuring, Cleaning, Dir
<1>24. CASE Remove
  BY <1>24, <1>A, <1>B DEF Remove, Traces, AllDirs, Past, InCase, Unsaved, Measuring, Cleaning, Dir
<1>25. CASE RemoveEnds
  BY <1>25, <1>A, <1>B DEF RemoveEnds, Traces, AllDirs, Past, InCase, Unsaved, Measuring, Cleaning, Dir
<1>26. CASE RemoveFails
  BY <1>26, <1>A, <1>B DEF RemoveFails, Fault, Traces, AllDirs, Past, InCase, Unsaved, Measuring, Cleaning, Dir
<1>27. CASE SaveRemoved
  <2>1. /\ pc = "receipt" /\ pc' = "save" /\ Dir' = Dir /\ removed' = removed \cup {Dir}
        /\ UNCHANGED <<dirs, tried, served, foreign, plan, target, run, case, summary>>
    BY <1>27 DEF SaveRemoved, Dir
  <2>2. Dir \notin dirs \ foreign
    BY <2>1 DEF Control, Alone, Gone
  <2>3. \A d \in AllDirs' : d \in AllDirs \/ d = Dir
    BY <2>1 DEF AllDirs
  <2>4. Dir[1] = case /\ Dir[2] = run
    BY DEF Dir
  <2>5. \A d \in AllDirs : Past(d)'
    BY <1>A, <2>1 DEF Traces, Past, InCase, Unsaved, Measuring
  <2>6. \A d \in AllDirs' : Past(d)'
    BY <1>A, <2>1, <2>3, <2>4, <2>5 DEF Past, InCase, Unsaved, Measuring
  <2> QED
    BY <1>A, <2>1, <2>2, <2>6 DEF Traces, Unsaved, Measuring, Cleaning
<1>28. CASE SaveRow
  <2>1. /\ pc = "save" /\ AllDirs' = AllDirs
        /\ UNCHANGED <<dirs, tried, removed, served, foreign, run, summary>>
        /\ \/ pc' = "count" /\ Dir' = Dir /\ UNCHANGED <<plan, target, case>>
           \/ pc' = "idle" /\ plan' = {} /\ target' = None
    BY <1>28 DEF SaveRow, Leave, Dir, AllDirs
  <2>2. \A d \in AllDirs' : Past(d)'
    BY <1>A, <2>1 DEF Traces, Past, InCase, Unsaved, Measuring
  <2> QED
    BY <1>A, <2>1, <2>2 DEF Traces, Unsaved, Measuring, Cleaning
<1>29. CASE Count
  <2>1. /\ pc = "count" /\ AllDirs' = AllDirs /\ summary' = [summary EXCEPT ![case] = run]
        /\ UNCHANGED <<dirs, tried, removed, served, foreign, run>>
        /\ \/ pc' = "case" /\ UNCHANGED <<plan, target, case>>
           \/ pc' = "idle" /\ plan' = {} /\ target' = None
    BY <1>29 DEF Count, Leave, AllDirs
  <2>2. run > 0 /\ case \in Missing
    BY <2>1 DEF Control, Turn, InCase
  <2>3. \A c \in Cases : c # case => summary'[c] = summary[c]
    BY <2>1 DEF TypeOK
  <2>4. summary'[case] # 0
    BY <1>A, <2>1, <2>2 DEF TypeOK, Missing
  <2>5. ASSUME NEW d \in AllDirs
        PROVE  Past(d)'
    <3>1. d[1] \in Cases /\ d[2] \in Nat
      BY <1>A, <1>B, Numbers
    <3>2. CASE d[1] = case
      BY <1>A, <2>1, <2>4, <2>5, <3>1, <3>2 DEF Traces, Past
    <3>3. CASE d[1] # case
      <4>1. summary'[d[1]] = summary[d[1]]
        BY <2>3, <3>1, <3>3
      <4>2. d[2] <= run /\ (d[2] < run \/ summary[d[1]] # 0)
        BY <1>A, <2>1, <2>5, <3>3 DEF Traces, Past
      <4> QED
        BY <2>1, <4>1, <4>2 DEF Past
    <3> QED
      BY <3>2, <3>3
  <2> QED
    BY <1>A, <2>1, <2>5 DEF Traces, Unsaved, Measuring, Cleaning
<1>30. CASE Killed
  BY <1>30, <1>A, <1>B DEF Killed, Leave, Fault, Traces, AllDirs, Past, InCase, Unsaved, Measuring, Cleaning, Dir
<1>31. CASE Interrupt
  BY <1>31, <1>A, <1>B DEF Interrupt, Fault, Traces, AllDirs, Past, InCase, Unsaved, Measuring, Cleaning, Dir
<1>32. CASE Recreate
  BY <1>32, <1>A, <1>B DEF Recreate, Fault, Traces, AllDirs, Past, InCase, Unsaved, Measuring, Cleaning, Dir
<1>33. CASE UNCHANGED vars
  BY <1>33, <1>A, <1>B DEF vars, Traces, AllDirs, Past, InCase, Unsaved, Measuring, Cleaning, Dir
<1> QED
  BY <1>1, <1>2, <1>3, <1>4, <1>5, <1>6, <1>7, <1>8, <1>9, <1>10, <1>11, <1>12, <1>13, <1>14, <1>15, <1>16, <1>17, <1>18, <1>19, <1>20, <1>21, <1>22, <1>23, <1>24, <1>25, <1>26, <1>27, <1>28, <1>29, <1>30, <1>31, <1>32, <1>33 DEF Next, RunStep


\* Every step keeps what the recovery can rely on.
LEMMA StaleStep ==
  ASSUME TypeOK, Control, Traces, Stale, [Next]_vars
  PROVE  Stale'
<1> USE DEF receipts, rows, phaseVars, history
<1>A. /\ Stale /\ run \in Nat /\ Live \subseteq Dirs
      /\ launch \in [Tiered -> 0 .. MaxRuns]
  BY DEF TypeOK, Live
<1>B. \A d \in Dirs : d = <<d[1], d[2]>> /\ d[1] \in Tiered /\ d[2] \in Nat
  BY DEF Dirs, Runs
<1>1. CASE Start
  <2>1. /\ pc' = "teardownFirst" /\ Live' = Live /\ plan' = Candidates /\ ReceiptsAgree
        /\ UNCHANGED launch
    BY <1>1 DEF Start, Live, SafeToExecute
  <2>2. ASSUME NEW d \in Live
        PROVE  d \in Candidates
    <3>1. /\ d = <<d[1], d[2]>> /\ d[1] \in Tiered /\ d[2] > 0
      BY <1>A DEF Dirs, Runs
    <3>2. launch[d[1]] = d[2]
      BY <1>A DEF Stale
    <3>3. LaunchAgrees(d[1])
      BY <2>1, <3>1, <3>2 DEF ReceiptsAgree
    <3>4. d \in Proven
      BY <3>1, <3>2, <3>3 DEF Proven
    <3>5. d \in dirs \ removed
      BY DEF Live, Traces
    <3> QED
      BY <3>4, <3>5 DEF Candidates
  <2> QED
    BY <1>A, <2>1, <2>2 DEF Stale, InCase, Unsaved, Measuring, Booting
<1>2. CASE Refuse
  BY <1>2, <1>A, <1>B DEF Refuse, Stale, Live, InCase, Unsaved, Measuring, Cleaning, Booting, Dir
<1>3. CASE TeardownFirst
  BY <1>3, <1>A, <1>B DEF TeardownFirst, Stale, Live, InCase, Unsaved, Measuring, Cleaning, Booting, Dir
<1>4. CASE TeardownFirstFails
  BY <1>4, <1>A, <1>B DEF TeardownFirstFails, Leave, Fault, Stale, Live, InCase, Unsaved, Measuring, Cleaning, Booting, Dir
<1>5. CASE CleanNext
  BY <1>5, <1>A, <1>B DEF CleanNext, Stale, Live, InCase, Unsaved, Measuring, Cleaning, Booting, Dir
<1>6. CASE CleanRefused
  BY <1>6, <1>A, <1>B DEF CleanRefused, Leave, Stale, Live, InCase, Unsaved, Measuring, Cleaning, Booting, Dir
<1>7. CASE CleanEnds
  BY <1>7, <1>A, <1>B DEF CleanEnds, Stale, Live, InCase, Unsaved, Measuring, Cleaning, Booting, Dir
<1>8. CASE CleanFails
  BY <1>8, <1>A, <1>B DEF CleanFails, Leave, Fault, Stale, Live, InCase, Unsaved, Measuring, Cleaning, Booting, Dir
<1>9. CASE CleanOnly
  BY <1>9, <1>A, <1>B DEF CleanOnly, Leave, Fault, Stale, Live, InCase, Unsaved, Measuring, Cleaning, Booting, Dir
<1>10. CASE CleanDone
  BY <1>10, <1>A, <1>B DEF CleanDone, Stale, Live, InCase, Unsaved, Measuring, Cleaning, Booting, Dir
<1>11. CASE BeginCase
  BY <1>11, <1>A, <1>B DEF BeginCase, Stale, Live, InCase, Unsaved, Measuring, Cleaning, Booting, Dir
<1>12. CASE CasesDone
  BY <1>12, <1>A, <1>B DEF CasesDone, Leave, Stale, Live, InCase, Unsaved, Measuring, Cleaning, Booting, Dir
<1>13. CASE BootRaises
  BY <1>13, <1>A, <1>B DEF BootRaises, Stale, Live, InCase, Unsaved, Measuring, Cleaning, Booting, Dir
<1>14. CASE MakeDir
  <2>1. /\ pc = "mkdir" /\ pc' = "launch" /\ Dir' = Dir /\ dirs' \subseteq dirs \cup {Dir}
        /\ dirs \subseteq dirs' /\ UNCHANGED <<served, foreign, launch, case, plan>>
    BY <1>14 DEF MakeDir, Dir
  <2>2. Live' = Live
    BY <2>1 DEF Live, Traces
  <2> QED
    BY <1>A, <2>1, <2>2 DEF Stale, InCase, Unsaved, Measuring, Cleaning, Booting
<1>15. CASE SaveLaunch
  BY <1>15, <1>A, <1>B DEF SaveLaunch, Stale, Live, InCase, Unsaved, Measuring, Cleaning, Booting, Dir
<1>16. CASE DockerRun
  BY <1>16, <1>A, <1>B DEF DockerRun, Stale, Live, InCase, Unsaved, Measuring, Cleaning, Booting, Dir
<1>17. CASE SaveBootReceipt
  BY <1>17, <1>A, <1>B DEF SaveBootReceipt, Stale, Live, InCase, Unsaved, Measuring, Cleaning, Booting, Dir
<1>18. CASE ProbeStage
  BY <1>18, <1>A, <1>B DEF ProbeStage, Stale, Live, InCase, Unsaved, Measuring, Cleaning, Booting, Dir
<1>19. CASE \E ok \in BOOLEAN : SaveStageReceipt(ok)
  BY <1>19, <1>A, <1>B DEF SaveStageReceipt, Stale, Live, InCase, Unsaved, Measuring, Cleaning, Booting, Dir
<1>20. CASE MeasurementEnds
  BY <1>20, <1>A, <1>B DEF MeasurementEnds, Stale, Live, InCase, Unsaved, Measuring, Cleaning, Booting, Dir
<1>21. CASE SaveMeasured
  BY <1>21, <1>A, <1>B DEF SaveMeasured, Stale, Live, InCase, Unsaved, Measuring, Cleaning, Booting, Dir
<1>22. CASE Teardown
  BY <1>22, <1>A, <1>B DEF Teardown, Stale, Live, InCase, Unsaved, Measuring, Cleaning, Booting, Dir
<1>23. CASE TeardownFails
  BY <1>23, <1>A, <1>B DEF TeardownFails, Fault, Stale, Live, InCase, Unsaved, Measuring, Cleaning, Booting, Dir
<1>24. CASE Remove
  BY <1>24, <1>A, <1>B DEF Remove, Stale, Live, InCase, Unsaved, Measuring, Cleaning, Booting, Dir
<1>25. CASE RemoveEnds
  BY <1>25, <1>A, <1>B DEF RemoveEnds, Stale, Live, InCase, Unsaved, Measuring, Cleaning, Booting, Dir
<1>26. CASE RemoveFails
  BY <1>26, <1>A, <1>B DEF RemoveFails, Fault, Stale, Live, InCase, Unsaved, Measuring, Cleaning, Booting, Dir
<1>27. CASE SaveRemoved
  BY <1>27, <1>A, <1>B DEF SaveRemoved, Stale, Live, InCase, Unsaved, Measuring, Cleaning, Booting, Dir
<1>28. CASE SaveRow
  BY <1>28, <1>A, <1>B DEF SaveRow, Leave, Stale, Live, InCase, Unsaved, Measuring, Cleaning, Booting, Dir
<1>29. CASE Count
  <2>1. /\ pc = "count" /\ Live' = Live /\ UNCHANGED launch
        /\ \/ pc' = "case" /\ safe
           \/ pc' = "idle"
    BY <1>29 DEF Count, Leave, Live
  <2>2. Live \subseteq {Dir}
    BY <1>A, <2>1 DEF Stale, InCase
  <2>3. safe => Live = {}
    BY <2>2 DEF Control, Alone, Gone, Live
  <2> QED
    BY <1>A, <2>1, <2>3 DEF Stale, InCase, Unsaved, Measuring, Cleaning, Booting
<1>30. CASE Killed
  BY <1>30, <1>A, <1>B DEF Killed, Leave, Fault, Stale, Live, InCase, Unsaved, Measuring, Cleaning, Booting, Dir
<1>31. CASE Interrupt
  BY <1>31, <1>A, <1>B DEF Interrupt, Fault, Stale, Live, InCase, Unsaved, Measuring, Cleaning, Booting, Dir
<1>32. CASE Recreate
  BY <1>32, <1>A, <1>B DEF Recreate, Fault, Stale, Live, InCase, Unsaved, Measuring, Cleaning, Booting, Dir
<1>33. CASE UNCHANGED vars
  BY <1>33, <1>A, <1>B DEF vars, Stale, Live, InCase, Unsaved, Measuring, Cleaning, Booting, Dir
<1> QED
  BY <1>1, <1>2, <1>3, <1>4, <1>5, <1>6, <1>7, <1>8, <1>9, <1>10, <1>11, <1>12, <1>13, <1>14, <1>15, <1>16, <1>17, <1>18, <1>19, <1>20, <1>21, <1>22, <1>23, <1>24, <1>25, <1>26, <1>27, <1>28, <1>29, <1>30, <1>31, <1>32, <1>33 DEF Next, RunStep


\* Trouble is never forgotten.
LEMMA TroubleStays ==
  ASSUME [Next]_vars
  PROVE  trouble => trouble'
BY Zenon DEF Next, RunStep, BeginCase, BootRaises, CasesDone, CleanDone, CleanEnds, CleanFails, CleanNext, CleanOnly, CleanRefused, Count, DockerRun, Fault, Interrupt, Killed, Leave, MakeDir, MeasurementEnds, ProbeStage, Recreate, Refuse, Remove, RemoveEnds, RemoveFails, SaveBootReceipt, SaveLaunch, SaveMeasured, SaveRemoved, SaveRow, SaveStageReceipt, Start, Teardown, TeardownFails, TeardownFirst, TeardownFirstFails,
    vars, history

\* Every step keeps deletions that were begun apart from directories in use.
LEMMA DeletedStep ==
  ASSUME TypeOK, Control, Traces, Deleted, [Next]_vars
  PROVE  Deleted'
<1> USE DEF receipts, rows, phaseVars, history
<1>A. Deleted /\ (trouble => trouble') /\ tried \cup dirs \subseteq Dirs /\ None \notin Dirs
  BY TroubleStays DEF TypeOK, None, Dirs, Tiered
<1>B. pc \notin {"emptying", "removing"} => target = None
  BY DEF Control, Alone
<1>1. CASE Start
  BY <1>1, <1>A, <1>B DEF Start, Deleted, HalfWritten
<1>2. CASE Refuse
  BY <1>2, <1>A, <1>B DEF Refuse, Deleted, HalfWritten
<1>3. CASE TeardownFirst
  BY <1>3, <1>A, <1>B DEF TeardownFirst, Deleted, HalfWritten
<1>4. CASE TeardownFirstFails
  BY <1>4, <1>A, <1>B DEF TeardownFirstFails, Leave, Fault, Deleted, HalfWritten
<1>5. CASE CleanNext
  BY <1>5, <1>A, <1>B DEF CleanNext, Deleted, HalfWritten
<1>6. CASE CleanRefused
  BY <1>6, <1>A, <1>B DEF CleanRefused, Leave, Deleted, HalfWritten
<1>7. CASE CleanEnds
  BY <1>7, <1>A, <1>B DEF CleanEnds, Deleted, HalfWritten
<1>8. CASE CleanFails
  BY <1>8, <1>A, <1>B DEF CleanFails, Leave, Fault, Deleted, HalfWritten
<1>9. CASE CleanOnly
  BY <1>9, <1>A, <1>B DEF CleanOnly, Leave, Fault, Deleted, HalfWritten
<1>10. CASE CleanDone
  BY <1>10, <1>A, <1>B DEF CleanDone, Deleted, HalfWritten
<1>11. CASE BeginCase
  BY <1>11, <1>A, <1>B DEF BeginCase, Deleted, HalfWritten
<1>12. CASE CasesDone
  BY <1>12, <1>A, <1>B DEF CasesDone, Leave, Deleted, HalfWritten
<1>13. CASE BootRaises
  BY <1>13, <1>A, <1>B DEF BootRaises, Deleted, HalfWritten
<1>14. CASE MakeDir
  <2>1. /\ pc = "mkdir" /\ dirs' \subseteq dirs \cup {Dir}
        /\ UNCHANGED <<foreign, tried, target, trouble>>
    BY <1>14 DEF MakeDir, Dir
  <2>2. Dir \notin tried
    BY <2>1 DEF Traces, Unsaved, Measuring
  <2> QED
    BY <1>A, <2>1, <2>2 DEF Deleted
<1>15. CASE SaveLaunch
  BY <1>15, <1>A, <1>B DEF SaveLaunch, Deleted, HalfWritten
<1>16. CASE DockerRun
  BY <1>16, <1>A, <1>B DEF DockerRun, Deleted, HalfWritten
<1>17. CASE SaveBootReceipt
  BY <1>17, <1>A, <1>B DEF SaveBootReceipt, Deleted, HalfWritten
<1>18. CASE ProbeStage
  BY <1>18, <1>A, <1>B DEF ProbeStage, Deleted, HalfWritten
<1>19. CASE \E ok \in BOOLEAN : SaveStageReceipt(ok)
  BY <1>19, <1>A, <1>B DEF SaveStageReceipt, Deleted, HalfWritten
<1>20. CASE MeasurementEnds
  BY <1>20, <1>A, <1>B DEF MeasurementEnds, Deleted, HalfWritten
<1>21. CASE SaveMeasured
  BY <1>21, <1>A, <1>B DEF SaveMeasured, Deleted, HalfWritten
<1>22. CASE Teardown
  BY <1>22, <1>A, <1>B DEF Teardown, Deleted, HalfWritten
<1>23. CASE TeardownFails
  BY <1>23, <1>A, <1>B DEF TeardownFails, Fault, Deleted, HalfWritten
<1>24. CASE Remove
  BY <1>24, <1>A, <1>B DEF Remove, Deleted, HalfWritten
<1>25. CASE RemoveEnds
  BY <1>25, <1>A, <1>B DEF RemoveEnds, Deleted, HalfWritten
<1>26. CASE RemoveFails
  BY <1>26, <1>A, <1>B DEF RemoveFails, Fault, Deleted, HalfWritten
<1>27. CASE SaveRemoved
  BY <1>27, <1>A, <1>B DEF SaveRemoved, Deleted, HalfWritten
<1>28. CASE SaveRow
  BY <1>28, <1>A, <1>B DEF SaveRow, Leave, Deleted, HalfWritten
<1>29. CASE Count
  BY <1>29, <1>A, <1>B DEF Count, Leave, Deleted, HalfWritten
<1>30. CASE Killed
  BY <1>30, <1>A, <1>B DEF Killed, Leave, Fault, Deleted, HalfWritten
<1>31. CASE Interrupt
  BY <1>31, <1>A, <1>B DEF Interrupt, Fault, Deleted, HalfWritten
<1>32. CASE Recreate
  BY <1>32, <1>A, <1>B DEF Recreate, Fault, Deleted, HalfWritten
<1>33. CASE UNCHANGED vars
  BY <1>33, <1>A, <1>B DEF vars, Deleted, HalfWritten
<1> QED
  BY <1>1, <1>2, <1>3, <1>4, <1>5, <1>6, <1>7, <1>8, <1>9, <1>10, <1>11, <1>12, <1>13, <1>14, <1>15, <1>16, <1>17, <1>18, <1>19, <1>20, <1>21, <1>22, <1>23, <1>24, <1>25, <1>26, <1>27, <1>28, <1>29, <1>30, <1>31, <1>32, <1>33 DEF Next, RunStep


\* Every step keeps receipts in pairs, or is counted as trouble.
LEMMA PairedStep ==
  ASSUME TypeOK, Control, Stale, Paired, [Next]_vars
  PROVE  Paired'
<1> USE DEF receipts, rows, phaseVars, history
<1>A. /\ Paired /\ run \in Nat /\ (trouble => trouble')
      /\ launch \in [Tiered -> 0 .. MaxRuns] /\ bootRec \in [Tiered -> 0 .. MaxRuns]
      /\ DOMAIN conf = Tiered \X (1 .. Stages)
      /\ conf \in [DOMAIN conf -> 0 .. MaxRuns] /\ confRec \in [DOMAIN conf -> Probed]
  BY TroubleStays DEF TypeOK
<1>B. ASSUME UNCHANGED <<launch, bootRec, conf, confRec>>,
             pc \in {"dockerRun", "bootReceipt", "stageReceipt"} =>
               trouble' \/ (pc' = pc /\ UNCHANGED <<case, stage>>)
      PROVE  Paired'
  BY <1>A, <1>B DEF Paired, LaunchAgrees, ConfAgrees, Booting, HalfWritten
<1>1. CASE Start
  BY <1>1, <1>A, <1>B DEF Start, HalfWritten
<1>2. CASE Refuse
  BY <1>2, <1>A, <1>B DEF Refuse, HalfWritten
<1>3. CASE TeardownFirst
  BY <1>3, <1>A, <1>B DEF TeardownFirst, HalfWritten
<1>4. CASE TeardownFirstFails
  BY <1>4, <1>A, <1>B DEF TeardownFirstFails, Leave, Fault, HalfWritten
<1>5. CASE CleanNext
  BY <1>5, <1>A, <1>B DEF CleanNext, HalfWritten
<1>6. CASE CleanRefused
  BY <1>6, <1>A, <1>B DEF CleanRefused, Leave, HalfWritten
<1>7. CASE CleanEnds
  BY <1>7, <1>A, <1>B DEF CleanEnds, HalfWritten
<1>8. CASE CleanFails
  BY <1>8, <1>A, <1>B DEF CleanFails, Leave, Fault, HalfWritten
<1>9. CASE CleanOnly
  BY <1>9, <1>A, <1>B DEF CleanOnly, Leave, Fault, HalfWritten
<1>10. CASE CleanDone
  BY <1>10, <1>A, <1>B DEF CleanDone, HalfWritten
<1>11. CASE BeginCase
  BY <1>11, <1>A, <1>B DEF BeginCase, HalfWritten
<1>12. CASE CasesDone
  BY <1>12, <1>A, <1>B DEF CasesDone, Leave, HalfWritten
<1>13. CASE BootRaises
  BY <1>13, <1>A, <1>B DEF BootRaises, HalfWritten
<1>14. CASE MakeDir
  BY <1>14, <1>A, <1>B DEF MakeDir, HalfWritten
<1>15. CASE SaveLaunch
  <2>1. /\ pc = "launch" /\ pc' = "dockerRun"
        /\ launch' = [c \in Tiered |-> IF c = case THEN run ELSE launch[c]]
        /\ UNCHANGED <<bootRec, conf, confRec, case, stage, trouble>>
    BY <1>15 DEF SaveLaunch
  <2> QED
    BY <1>A, <2>1 DEF Paired, LaunchAgrees, ConfAgrees, Booting
<1>16. CASE DockerRun
  <2>1. /\ pc = "dockerRun" /\ pc' = "bootReceipt"
        /\ UNCHANGED <<launch, bootRec, conf, confRec, case, stage, trouble>>
    BY <1>16 DEF DockerRun
  <2> QED
    BY <1>A, <2>1 DEF Paired, LaunchAgrees, ConfAgrees, Booting
<1>17. CASE SaveBootReceipt
  <2>1. /\ pc = "bootReceipt" /\ pc' \in {"stages", "persist"}
        /\ bootRec' = [c \in Tiered |-> IF c = case THEN run ELSE bootRec[c]]
        /\ UNCHANGED <<launch, conf, confRec, case, stage, trouble>>
    BY <1>17 DEF SaveBootReceipt
  <2>2. case \in Tiered => launch[case] = run
    BY <2>1 DEF Stale, Booting
  <2> QED
    BY <1>A, <2>1, <2>2 DEF Paired, LaunchAgrees, ConfAgrees, Booting
<1>18. CASE ProbeStage
  <2>1. /\ pc = "stages" /\ pc' = "stageReceipt"
        /\ conf' \in {conf, [conf EXCEPT ![<<case, stage>>] = run]}
        /\ UNCHANGED <<launch, bootRec, confRec, case, stage, trouble>>
    BY <1>18 DEF ProbeStage
  <2>2. \A k \in DOMAIN conf : k # <<case, stage>> => conf'[k] = conf[k]
    BY <2>1
  <2>3. DOMAIN conf' = DOMAIN conf
    BY <2>1
  <2> QED
    BY <1>A, <2>1, <2>2, <2>3 DEF Paired, LaunchAgrees, ConfAgrees, Booting
<1>19. CASE \E ok \in BOOLEAN : SaveStageReceipt(ok)
  <2>1. PICK ok \in BOOLEAN : SaveStageReceipt(ok)
    BY <1>19
  <2>2. /\ pc = "stageReceipt" /\ pc' = "stages"
        /\ ok => conf[<<case, stage>>] = run
        /\ confRec' = [confRec EXCEPT ![<<case, stage>>] = [run |-> run, ok |-> ok]]
        /\ trouble' = (trouble \/ ~ok)
        /\ UNCHANGED <<launch, bootRec, conf, case>>
    BY <2>1 DEF SaveStageReceipt
  <2>3. ASSUME NEW k \in DOMAIN conf, conf[k] # 0, ~(confRec'[k].ok /\ confRec'[k].run = conf[k])
        PROVE  trouble'
    <3>1. CASE k = <<case, stage>>
      <4>1. confRec'[k] = [run |-> run, ok |-> ok]
        BY <1>A, <2>2, <3>1
      <4>2. ~ok
        BY <2>2, <2>3, <3>1, <4>1
      <4> QED
        BY <2>2, <4>2
    <3>2. CASE k # <<case, stage>>
      <4>1. confRec'[k] = confRec[k]
        BY <1>A, <2>2, <3>2
      <4>2. trouble
        BY <1>A, <2>3, <3>2, <4>1 DEF Paired, ConfAgrees
      <4> QED
        BY <1>A, <4>2
    <3> QED
      BY <3>1, <3>2
  <2>4. \A c \in Tiered : launch[c] # 0 /\ bootRec[c] # launch[c] => trouble'
    BY <1>A, <2>2 DEF Paired, LaunchAgrees, Booting
  <2> QED
    BY <2>2, <2>3, <2>4 DEF Paired, LaunchAgrees, ConfAgrees
<1>20. CASE MeasurementEnds
  BY <1>20, <1>A, <1>B DEF MeasurementEnds, HalfWritten
<1>21. CASE SaveMeasured
  BY <1>21, <1>A, <1>B DEF SaveMeasured, HalfWritten
<1>22. CASE Teardown
  BY <1>22, <1>A, <1>B DEF Teardown, HalfWritten
<1>23. CASE TeardownFails
  BY <1>23, <1>A, <1>B DEF TeardownFails, Fault, HalfWritten
<1>24. CASE Remove
  BY <1>24, <1>A, <1>B DEF Remove, HalfWritten
<1>25. CASE RemoveEnds
  BY <1>25, <1>A, <1>B DEF RemoveEnds, HalfWritten
<1>26. CASE RemoveFails
  BY <1>26, <1>A, <1>B DEF RemoveFails, Fault, HalfWritten
<1>27. CASE SaveRemoved
  BY <1>27, <1>A, <1>B DEF SaveRemoved, HalfWritten
<1>28. CASE SaveRow
  BY <1>28, <1>A, <1>B DEF SaveRow, Leave, HalfWritten
<1>29. CASE Count
  BY <1>29, <1>A, <1>B DEF Count, Leave, HalfWritten
<1>30. CASE Killed
  BY <1>30, <1>A, <1>B DEF Killed, Leave, Fault, HalfWritten
<1>31. CASE Interrupt
  BY <1>31, <1>A, <1>B DEF Interrupt, Fault, HalfWritten
<1>32. CASE Recreate
  BY <1>32, <1>A, <1>B DEF Recreate, Fault, HalfWritten
<1>33. CASE UNCHANGED vars
  BY <1>33, <1>A, <1>B DEF vars, HalfWritten
<1> QED
  BY <1>1, <1>2, <1>3, <1>4, <1>5, <1>6, <1>7, <1>8, <1>9, <1>10, <1>11, <1>12, <1>13, <1>14, <1>15, <1>16, <1>17, <1>18, <1>19, <1>20, <1>21, <1>22, <1>23, <1>24, <1>25, <1>26, <1>27, <1>28, <1>29, <1>30, <1>31, <1>32, <1>33 DEF Next, RunStep


\* A refusal has its cause.
LEMMA RefusalStep ==
  ASSUME TypeOK, Control, Traces, Stale, Calm, RefusalHasCause, [Next]_vars
  PROVE  RefusalHasCause'
<1> USE DEF receipts, rows, phaseVars, history, RefusalHasCause
<1>A. trouble => trouble'
  BY TroubleStays
<1>1. CASE Refuse
  <2>1. pc = "idle" /\ ~SafeToExecute /\ trouble' = trouble
    BY <1>1 DEF Refuse
  <2>2. ~ReceiptsAgree => trouble
    BY <2>1 DEF ReceiptsAgree, Calm, Paired, Booting
  <2>3. Proven \cap dirs \cap removed # {} => trouble
    BY DEF Traces, Calm, Deleted
  <2> QED
    BY <2>1, <2>2, <2>3 DEF SafeToExecute
<1>2. CASE CleanRefused
  <2>1. pc = "clean" /\ plan \cap tried # {} /\ trouble' = trouble
    BY <1>2 DEF CleanRefused, BegunBefore
  <2>2. target = None
    BY <2>1 DEF Control, Alone
  <2>3. PICK d \in plan \cap tried : TRUE
    BY <2>1
  <2>4. d \in dirs /\ d # None
    BY <2>3 DEF Traces, TypeOK, Dirs, Tiered, None
  <2> QED
    BY <2>1, <2>2, <2>3, <2>4 DEF Calm, Deleted
<1>3. CASE refused' = refused
  BY <1>A, <1>3
<1> QED
  BY <1>1, <1>2, <1>3 DEF Next, RunStep, BeginCase, BootRaises, CasesDone, CleanDone, CleanEnds, CleanFails, CleanNext, CleanOnly, CleanRefused, Count, DockerRun, Fault, Interrupt, Killed, Leave, MakeDir, MeasurementEnds, ProbeStage, Recreate, Refuse, Remove, RemoveEnds, RemoveFails, SaveBootReceipt, SaveLaunch, SaveMeasured, SaveRemoved, SaveRow, SaveStageReceipt, Start, Teardown, TeardownFails, TeardownFirst, TeardownFirstFails,
    vars


\* Every step keeps the rows of the run in order.
LEMMA RowsStep ==
  ASSUME TypeOK, Control, Rows, [Next]_vars
  PROVE  Rows'
<1> USE DEF receipts, rows, phaseVars, history
<1>A. /\ Rows /\ run \in Nat /\ results \in [Cases -> Results]
      /\ summary \in [Cases -> 0 .. MaxRuns]
  BY DEF TypeOK
<1>B. ASSUME results' = results, summary' = summary, run' = run,
             pc = "idle" => pc' = "idle",
             pc \in InCase => pc' = "idle" \/ (pc' \in InCase /\ case' = case),
             pc' \in InCase \ Unsaved => pc \in InCase \ Unsaved,
             pc' = "count" => pc = "count" /\ safe' = safe
      PROVE  Rows'
  <2>1. Missing' = Missing
    BY <1>B DEF Missing
  <2> QED
    BY <1>A, <1>B, <2>1 DEF Rows, InCase
<1>1. CASE Start
  <2>1. run' = run + 1 /\ pc' = "teardownFirst" /\ UNCHANGED <<results, summary>>
    BY <1>1 DEF Start
  <2>2. \A c \in Cases : results[c].run \in Nat /\ summary[c] \in Nat
    BY <1>A DEF Results
  <2>3. \A c \in Cases : results[c].run < run' /\ summary[c] < run'
    BY <1>A, <2>1, <2>2 DEF Rows
  <2> QED
    BY <1>A, <2>1, <2>2, <2>3 DEF Rows, InCase, Unsaved, Measuring
<1>2. CASE Refuse
  BY <1>2, <1>A, <1>B DEF Refuse, Cleaning, InCase, Unsaved, Measuring
<1>3. CASE TeardownFirst
  BY <1>3, <1>A, <1>B DEF TeardownFirst, Cleaning, InCase, Unsaved, Measuring
<1>4. CASE TeardownFirstFails
  BY <1>4, <1>A, <1>B DEF TeardownFirstFails, Leave, Fault, Cleaning, InCase, Unsaved, Measuring
<1>5. CASE CleanNext
  BY <1>5, <1>A, <1>B DEF CleanNext, Cleaning, InCase, Unsaved, Measuring
<1>6. CASE CleanRefused
  BY <1>6, <1>A, <1>B DEF CleanRefused, Leave, Cleaning, InCase, Unsaved, Measuring
<1>7. CASE CleanEnds
  BY <1>7, <1>A, <1>B DEF CleanEnds, Cleaning, InCase, Unsaved, Measuring
<1>8. CASE CleanFails
  BY <1>8, <1>A, <1>B DEF CleanFails, Leave, Fault, Cleaning, InCase, Unsaved, Measuring
<1>9. CASE CleanOnly
  BY <1>9, <1>A, <1>B DEF CleanOnly, Leave, Fault, Cleaning, InCase, Unsaved, Measuring
<1>10. CASE CleanDone
  BY <1>10, <1>A, <1>B DEF CleanDone, Cleaning, InCase, Unsaved, Measuring
<1>11. CASE BeginCase
  BY <1>11, <1>A, <1>B DEF BeginCase, Cleaning, InCase, Unsaved, Measuring
<1>12. CASE CasesDone
  BY <1>12, <1>A, <1>B DEF CasesDone, Leave, Cleaning, InCase, Unsaved, Measuring
<1>13. CASE BootRaises
  BY <1>13, <1>A, <1>B DEF BootRaises, Cleaning, InCase, Unsaved, Measuring
<1>14. CASE MakeDir
  BY <1>14, <1>A, <1>B DEF MakeDir, Cleaning, InCase, Unsaved, Measuring
<1>15. CASE SaveLaunch
  BY <1>15, <1>A, <1>B DEF SaveLaunch, Cleaning, InCase, Unsaved, Measuring
<1>16. CASE DockerRun
  BY <1>16, <1>A, <1>B DEF DockerRun, Cleaning, InCase, Unsaved, Measuring
<1>17. CASE SaveBootReceipt
  BY <1>17, <1>A, <1>B DEF SaveBootReceipt, Cleaning, InCase, Unsaved, Measuring
<1>18. CASE ProbeStage
  BY <1>18, <1>A, <1>B DEF ProbeStage, Cleaning, InCase, Unsaved, Measuring
<1>19. CASE \E ok \in BOOLEAN : SaveStageReceipt(ok)
  BY <1>19, <1>A, <1>B DEF SaveStageReceipt, Cleaning, InCase, Unsaved, Measuring
<1>20. CASE MeasurementEnds
  BY <1>20, <1>A, <1>B DEF MeasurementEnds, Cleaning, InCase, Unsaved, Measuring
<1>21. CASE SaveMeasured
  <2>1. /\ pc = "persist" /\ pc' = "teardown" /\ UNCHANGED <<summary, run, case>>
        /\ results' = [results EXCEPT ![case] = [run |-> run, safe |-> FALSE]]
    BY <1>21 DEF SaveMeasured
  <2>2. case \in Missing /\ case \in Cases /\ run > 0 /\ Missing' = Missing
    BY <2>1 DEF Control, Turn, InCase, Unsaved, Missing
  <2>3. summary[case] # run
    BY <1>A, <2>2 DEF Missing
  <2>4. results'[case].run = run /\ \A c \in Cases : c # case => results'[c] = results[c]
    BY <1>A, <2>1, <2>2
  <2> QED
    BY <1>A, <2>1, <2>2, <2>3, <2>4 DEF Rows, InCase, Unsaved, Measuring
<1>22. CASE Teardown
  BY <1>22, <1>A, <1>B DEF Teardown, Cleaning, InCase, Unsaved, Measuring
<1>23. CASE TeardownFails
  BY <1>23, <1>A, <1>B DEF TeardownFails, Fault, Cleaning, InCase, Unsaved, Measuring
<1>24. CASE Remove
  BY <1>24, <1>A, <1>B DEF Remove, Cleaning, InCase, Unsaved, Measuring
<1>25. CASE RemoveEnds
  BY <1>25, <1>A, <1>B DEF RemoveEnds, Cleaning, InCase, Unsaved, Measuring
<1>26. CASE RemoveFails
  BY <1>26, <1>A, <1>B DEF RemoveFails, Fault, Cleaning, InCase, Unsaved, Measuring
<1>27. CASE SaveRemoved
  BY <1>27, <1>A, <1>B DEF SaveRemoved, Cleaning, InCase, Unsaved, Measuring
<1>28. CASE SaveRow
  <2>1. /\ pc = "save" /\ results' = [results EXCEPT ![case].safe = safe]
        /\ UNCHANGED <<summary, run>>
        /\ \/ pc' = "count" /\ UNCHANGED <<case, safe>>
           \/ pc' = "idle"
    BY <1>28 DEF SaveRow, Leave
  <2>2. case \in Missing /\ case \in Cases /\ run > 0 /\ Missing' = Missing
    BY <2>1 DEF Control, Turn, InCase, Unsaved, Missing
  <2>3. summary[case] # run
    BY <1>A, <2>2 DEF Missing
  <2>4. /\ results'[case].safe = safe /\ \A c \in Cases : c # case => results'[c] = results[c]
        /\ \A c \in Cases : results'[c].run = results[c].run
    BY <1>A, <2>1, <2>2 DEF Results
  <2> QED
    BY <1>A, <2>1, <2>2, <2>3, <2>4 DEF Rows, InCase, Unsaved, Measuring
<1>29. CASE Count
  <2>1. /\ pc = "count" /\ summary' = [summary EXCEPT ![case] = run]
        /\ UNCHANGED <<results, run>>
        /\ \/ pc' = "case" /\ safe
           \/ pc' = "idle"
    BY <1>29 DEF Count, Leave
  <2>2. /\ case \in Missing /\ case \in Cases /\ run > 0 /\ Missing \subseteq Nat
        /\ \A m \in Missing : case <= m
    BY <2>1, Numbers DEF Control, Turn, InCase, Unsaved, Missing
  <2>3. summary'[case] = run /\ \A c \in Cases : c # case => summary'[c] = summary[c]
    BY <1>A, <2>1, <2>2
  <2>4. Missing' = Missing \ {case}
    BY <1>A, <2>2, <2>3 DEF Missing
  <2>5. \A m \in Missing' : case < m
    BY <2>2, <2>4
  <2>6. results[case].run = run /\ results[case].safe = safe
    BY <1>A, <2>1 DEF Rows, InCase, Unsaved, Measuring
  <2>7. ASSUME NEW c \in Cases
        PROVE  results'[c].run <= run' /\ summary'[c] <= run'
    BY <1>A, <2>1, <2>3 DEF Rows
  <2>8. ASSUME NEW c \in Cases, pc' = "case", summary'[c] = run
        PROVE  results[c].safe /\ \A m \in Missing' : c < m
    BY <1>A, <2>1, <2>3, <2>4, <2>5, <2>6, <2>8 DEF Rows
  <2>9. ASSUME NEW c \in Cases, results[c].run = run
        PROVE  summary'[c] = run
    BY <1>A, <2>1, <2>3, <2>9 DEF Rows
  <2> QED
    BY <2>1, <2>7, <2>8, <2>9 DEF Rows, InCase, Unsaved, Measuring
<1>30. CASE Killed
  BY <1>30, <1>A, <1>B DEF Killed, Leave, Fault, Cleaning, InCase, Unsaved, Measuring
<1>31. CASE Interrupt
  BY <1>31, <1>A, <1>B DEF Interrupt, Fault, Cleaning, InCase, Unsaved, Measuring
<1>32. CASE Recreate
  BY <1>32, <1>A, <1>B DEF Recreate, Fault, Cleaning, InCase, Unsaved, Measuring
<1>33. CASE UNCHANGED vars
  BY <1>33, <1>A, <1>B DEF vars, Cleaning, InCase, Unsaved, Measuring
<1> QED
  BY <1>1, <1>2, <1>3, <1>4, <1>5, <1>6, <1>7, <1>8, <1>9, <1>10, <1>11, <1>12, <1>13, <1>14, <1>15, <1>16, <1>17, <1>18, <1>19, <1>20, <1>21, <1>22, <1>23, <1>24, <1>25, <1>26, <1>27, <1>28, <1>29, <1>30, <1>31, <1>32, <1>33 DEF Next, RunStep


\* Every step keeps the rows final.
LEMMA FinalStep ==
  ASSUME TypeOK, Control, Rows, RowsAreFinal, [Next]_vars
  PROVE  RowsAreFinal'
<1> USE DEF receipts, rows, phaseVars, history
<1>A. /\ RowsAreFinal /\ run \in Nat /\ results \in [Cases -> Results]
      /\ summary \in [Cases -> 0 .. MaxRuns]
  BY DEF TypeOK
<1>B. ASSUME results' = results, summary' = summary,
             \A d \in dirs' \ foreign' : d \in dirs \ foreign \/ summary[d[1]] = 0
      PROVE  RowsAreFinal'
  <2>1. SUFFICES ASSUME NEW c \in Cases, summary[c] # 0
                 PROVE  /\ results[c].run = summary[c]
                        /\ results[c].safe => <<c, summary[c]>> \notin dirs' \ foreign'
                        /\ ~results[c].safe =>
                             \A d \in Cases : results[d].run = summary[c] => d <= c
    BY <1>B DEF RowsAreFinal
  <2>2. <<c, summary[c]>>[1] = c
    OBVIOUS
  <2>3. results[c].safe => <<c, summary[c]>> \notin dirs' \ foreign'
    BY <1>A, <1>B, <2>1, <2>2 DEF RowsAreFinal
  <2> QED
    BY <1>A, <2>1, <2>3 DEF RowsAreFinal
<1>1. CASE Start
  BY <1>1, <1>A, <1>B DEF Start
<1>2. CASE Refuse
  BY <1>2, <1>A, <1>B DEF Refuse
<1>3. CASE TeardownFirst
  BY <1>3, <1>A, <1>B DEF TeardownFirst
<1>4. CASE TeardownFirstFails
  BY <1>4, <1>A, <1>B DEF TeardownFirstFails, Leave, Fault
<1>5. CASE CleanNext
  BY <1>5, <1>A, <1>B DEF CleanNext
<1>6. CASE CleanRefused
  BY <1>6, <1>A, <1>B DEF CleanRefused, Leave
<1>7. CASE CleanEnds
  BY <1>7, <1>A, <1>B DEF CleanEnds
<1>8. CASE CleanFails
  BY <1>8, <1>A, <1>B DEF CleanFails, Leave, Fault
<1>9. CASE CleanOnly
  BY <1>9, <1>A, <1>B DEF CleanOnly, Leave, Fault
<1>10. CASE CleanDone
  BY <1>10, <1>A, <1>B DEF CleanDone
<1>11. CASE BeginCase
  BY <1>11, <1>A, <1>B DEF BeginCase
<1>12. CASE CasesDone
  BY <1>12, <1>A, <1>B DEF CasesDone, Leave
<1>13. CASE BootRaises
  BY <1>13, <1>A, <1>B DEF BootRaises
<1>14. CASE MakeDir
  <2>1. /\ pc = "mkdir" /\ dirs' \subseteq dirs \cup {Dir} /\ UNCHANGED <<results, summary, foreign>>
    BY <1>14 DEF MakeDir
  <2>2. summary[case] = 0 /\ Dir[1] = case
    BY <2>1 DEF Control, Turn, InCase, Unsaved, Measuring, Missing, Dir
  <2> QED
    BY <1>B, <2>1, <2>2
<1>15. CASE SaveLaunch
  BY <1>15, <1>A, <1>B DEF SaveLaunch
<1>16. CASE DockerRun
  BY <1>16, <1>A, <1>B DEF DockerRun
<1>17. CASE SaveBootReceipt
  BY <1>17, <1>A, <1>B DEF SaveBootReceipt
<1>18. CASE ProbeStage
  BY <1>18, <1>A, <1>B DEF ProbeStage
<1>19. CASE \E ok \in BOOLEAN : SaveStageReceipt(ok)
  BY <1>19, <1>A, <1>B DEF SaveStageReceipt
<1>20. CASE MeasurementEnds
  BY <1>20, <1>A, <1>B DEF MeasurementEnds
<1>21. CASE SaveMeasured
  <2>1. /\ pc = "persist" /\ UNCHANGED <<summary, dirs, foreign>>
        /\ results' = [results EXCEPT ![case] = [run |-> run, safe |-> FALSE]]
    BY <1>21 DEF SaveMeasured
  <2>2. case \in Cases /\ summary[case] = 0
    BY <2>1 DEF Control, Turn, InCase, Unsaved, Missing
  <2>3. results'[case].run = run /\ \A c \in Cases : c # case => results'[c] = results[c]
    BY <1>A, <2>1, <2>2
  <2>4. SUFFICES ASSUME NEW c \in Cases, summary[c] # 0
                 PROVE  /\ results'[c].run = summary[c]
                        /\ results'[c].safe => <<c, summary[c]>> \notin dirs \ foreign
                        /\ ~results'[c].safe =>
                             \A d \in Cases : results'[d].run = summary[c] => d <= c
    BY <2>1 DEF RowsAreFinal
  <2>5. c # case /\ results'[c] = results[c]
    BY <2>2, <2>3, <2>4
  <2>6. /\ results[c].run = summary[c]
        /\ results[c].safe => <<c, summary[c]>> \notin dirs \ foreign
        /\ ~results[c].safe => \A d \in Cases : results[d].run = summary[c] => d <= c
    BY <1>A, <2>4 DEF RowsAreFinal
  <2>7. ~results[c].safe => summary[c] # run
    BY <2>1 DEF Rows
  <2> QED
    BY <2>3, <2>5, <2>6, <2>7
<1>22. CASE Teardown
  BY <1>22, <1>A, <1>B DEF Teardown
<1>23. CASE TeardownFails
  BY <1>23, <1>A, <1>B DEF TeardownFails, Fault
<1>24. CASE Remove
  BY <1>24, <1>A, <1>B DEF Remove
<1>25. CASE RemoveEnds
  BY <1>25, <1>A, <1>B DEF RemoveEnds
<1>26. CASE RemoveFails
  BY <1>26, <1>A, <1>B DEF RemoveFails, Fault
<1>27. CASE SaveRemoved
  BY <1>27, <1>A, <1>B DEF SaveRemoved
<1>28. CASE SaveRow
  <2>1. /\ pc = "save" /\ results' = [results EXCEPT ![case].safe = safe]
        /\ UNCHANGED <<summary, dirs, foreign>>
    BY <1>28 DEF SaveRow
  <2>2. case \in Cases /\ summary[case] = 0
    BY <2>1 DEF Control, Turn, InCase, Unsaved, Missing
  <2>3. /\ \A c \in Cases : c # case => results'[c] = results[c]
        /\ \A c \in Cases : results'[c].run = results[c].run
    BY <1>A, <2>1, <2>2 DEF Results
  <2> QED
    BY <1>A, <2>1, <2>2, <2>3 DEF RowsAreFinal
<1>29. CASE Count
  <2>1. /\ pc = "count" /\ summary' = [summary EXCEPT ![case] = run]
        /\ UNCHANGED <<results, dirs, foreign>>
    BY <1>29 DEF Count
  <2>2. case \in Cases /\ case \in Missing /\ Cases \subseteq Nat
    BY <2>1, Numbers DEF Control, Turn, InCase, Unsaved, Missing
  <2>3. summary'[case] = run /\ \A c \in Cases : c # case => summary'[c] = summary[c]
    BY <1>A, <2>1, <2>2
  <2>4. results[case].run = run /\ results[case].safe = safe
    BY <2>1 DEF Rows, InCase, Unsaved, Measuring
  <2>5. safe => <<case, run>> \notin dirs \ foreign
    BY DEF Control, Alone, Gone, Dir
  <2>6. ASSUME NEW d \in Cases, results[d].run = run
        PROVE  d <= case
    <3>1. summary[d] = run \/ d = case
      BY <2>1, <2>6 DEF Rows
    <3>2. summary[d] = run => d < case
      BY <2>1, <2>2 DEF Rows
    <3> QED
      BY <2>2, <3>1, <3>2
  <2>7. SUFFICES ASSUME NEW c \in Cases, summary'[c] # 0
                 PROVE  /\ results[c].run = summary'[c]
                        /\ results[c].safe => <<c, summary'[c]>> \notin dirs \ foreign
                        /\ ~results[c].safe =>
                             \A d \in Cases : results[d].run = summary'[c] => d <= c
    BY <2>1 DEF RowsAreFinal
  <2>8. CASE c = case
    BY <2>3, <2>4, <2>5, <2>6, <2>8
  <2>9. CASE c # case
    BY <1>A, <2>3, <2>7, <2>9 DEF RowsAreFinal
  <2> QED
    BY <2>8, <2>9
<1>30. CASE Killed
  BY <1>30, <1>A, <1>B DEF Killed, Leave, Fault
<1>31. CASE Interrupt
  BY <1>31, <1>A, <1>B DEF Interrupt, Fault
<1>32. CASE Recreate
  BY <1>32, <1>A, <1>B DEF Recreate, Fault
<1>33. CASE UNCHANGED vars
  BY <1>33, <1>A, <1>B DEF vars
<1> QED
  BY <1>1, <1>2, <1>3, <1>4, <1>5, <1>6, <1>7, <1>8, <1>9, <1>10, <1>11, <1>12, <1>13, <1>14, <1>15, <1>16, <1>17, <1>18, <1>19, <1>20, <1>21, <1>22, <1>23, <1>24, <1>25, <1>26, <1>27, <1>28, <1>29, <1>30, <1>31, <1>32, <1>33 DEF Next, RunStep


\* The initial states satisfy the invariant.
LEMMA InitInvariant ==
  ASSUME Init
  PROVE  IInv
<1> USE DEF Init
<1>1. TypeOK
  <2>1. DirTypes /\ ReceiptTypes
    BY Numbers DEF DirTypes, ReceiptTypes, Probed
  <2>2. RowTypes /\ PlaceTypes
    BY Numbers DEF RowTypes, PlaceTypes, Results, Points
  <2>3. CountTypes
    BY Numbers DEF CountTypes
  <2>4. FlagTypes
    BY Zenon DEF FlagTypes
  <2> QED
    BY <2>1, <2>2, <2>3, <2>4, Types
<1>2. Control
  BY DEF Control, Turn, Alone, InCase, Unsaved, Measuring, Quiet
<1>3. Traces /\ Stale
  BY DEF Traces, AllDirs, Stale, Live, InCase, Unsaved, Measuring, Cleaning, Booting
<1>4. Calm /\ RefusalHasCause
  BY DEF Calm, Deleted, Paired, RefusalHasCause
<1>5. Rows /\ RowsAreFinal
  BY DEF Rows, RowsAreFinal, InCase, Unsaved, Measuring
<1> QED
  BY <1>1, <1>2, <1>3, <1>4, <1>5 DEF IInv

\* The inductive invariant holds throughout.
THEOREM Invariant == Spec => []IInv
<1>1. Init => IInv
  BY InitInvariant
<1>2. IInv /\ [Next]_vars => IInv'
  <2> SUFFICES ASSUME IInv, [Next]_vars
               PROVE  IInv'
    OBVIOUS
  <2>1. /\ TypeOK /\ Control /\ Traces /\ Stale /\ Calm /\ Rows
        /\ RefusalHasCause /\ RowsAreFinal
    BY DEF IInv
  <2>2. TypeOK' /\ Turn' /\ Alone'
    BY <2>1, TypeStep, TurnStep, AloneStep
  <2>3. Traces' /\ Stale'
    BY <2>1, TracesStep, StaleStep
  <2>4. Deleted' /\ Paired' /\ RefusalHasCause'
    BY <2>1, DeletedStep, PairedStep, RefusalStep DEF Calm
  <2>5. Rows' /\ RowsAreFinal'
    BY <2>1, RowsStep, FinalStep
  <2> QED
    BY <2>2, <2>3, <2>4, <2>5 DEF IInv, Control, Calm
<1> QED
  BY <1>1, <1>2, PTL DEF Spec

\* Directories, receipts and the phase keep their types.
THEOREM TypeCorrect == Spec => []TypeOK
<1>1. IInv => TypeOK
  BY DEF IInv
<1> QED
  BY <1>1, Invariant, PTL

\* No directory is emptied while a container of the phase runs.
THEOREM NeverBesideAServer == Spec => []EmptiedWithoutServer
<1>1. IInv => EmptiedWithoutServer
  BY DEF IInv, Control, Alone, Quiet, EmptiedWithoutServer
<1> QED
  BY <1>1, Invariant, PTL

\* While a case is measured nothing of an earlier server is left, whatever killed it.
THEOREM TierIsFresh == Spec => []NoStaleTier
<1>1. IInv => NoStaleTier
  BY DEF IInv, Stale, Live, InCase, Unsaved, Measuring, NoStaleTier
<1> QED
  BY <1>1, Invariant, PTL

\* The phase refuses to recover for a cause only.
THEOREM RefusalsJustified == Spec => []RefusalHasCause
<1>1. IInv => RefusalHasCause
  BY DEF IInv
<1> QED
  BY <1>1, Invariant, PTL

\* Rows of the summary are the results on disk, and an unsafe one is its run's last.
THEOREM RowsFinal == Spec => []RowsAreFinal
<1>1. IInv => RowsAreFinal
  BY DEF IInv
<1> QED
  BY <1>1, Invariant, PTL

\* No step deletes a directory somebody else made.
THEOREM OnlyOwnedDeleted == Spec => DeletesOnlyOwned
<1>1. ASSUME IInv, [Next]_vars, NEW d \in dirs \ dirs'
      PROVE  d \notin foreign
  <2>1. CASE d = target /\ target # None
    BY <1>1, <2>1 DEF IInv, Traces
  <2>2. d = target /\ pc \in {"emptying", "removing"}
    BY <1>1 DEF Next, RunStep, BeginCase, BootRaises, CasesDone, CleanDone, CleanEnds, CleanFails, CleanNext, CleanOnly, CleanRefused, Count, DockerRun, Fault, Interrupt, Killed, Leave, MakeDir, MeasurementEnds, ProbeStage, Recreate, Refuse, Remove, RemoveEnds, RemoveFails, SaveBootReceipt, SaveLaunch, SaveMeasured, SaveRemoved, SaveRow, SaveStageReceipt, Start, Teardown, TeardownFails, TeardownFirst, TeardownFirstFails,
      vars
  <2> QED
    BY <1>1, <2>1, <2>2 DEF IInv, Control, Alone
<1>2. IInv /\ [Next]_vars => [\A d \in dirs \ dirs' : d \notin foreign]_vars
  BY <1>1
<1> QED
  BY <1>2, Invariant, PTL DEF Spec, DeletesOnlyOwned
=============================================================================
