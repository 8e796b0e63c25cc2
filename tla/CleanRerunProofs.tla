-------------------------- MODULE CleanRerunProofs --------------------------
(***************************************************************************)
(* What CleanRerun promises, for every number of cells, boots, runs and    *)
(* damaged summaries.                                                      *)
(***************************************************************************)
EXTENDS CleanRerun, FiniteSetTheorems, TLAPS

AttemptPcs == {"attempt", "bench", "summary", "archive"}
GroupPcs   == AttemptPcs \cup {"quiet", "boot", "nextCell", "outcome", "groupEnd"}
Planned    == GroupPcs \cup {"nextBoot", "final", "diagnostics"}

\* The archived attempts of a cell are 1 .. k, and the attempt under way is the
\* next one.
ArchivesAreIntervals ==
  /\ \A c \in Cells : \E k \in Nat : archives[c] = 1 .. k
  /\ pc \in AttemptPcs =>
       /\ cell \in Cells /\ attempt >= 1
       /\ archives[cell] = 1 .. (attempt - 1)

Earned(c) == MeetsContract(c) /\ OneMeasurement(c)

\* Every clean mark in memory is earned, and the ledger agrees once it is
\* written.
MarksAreEarned ==
  /\ pc # "idle" => \A c \in rows : Earned(c)
  /\ pc \in Planned => ledger = rows
  /\ pc = "ledger" => rows = completed
  /\ pc = "receipt" => rows = completed
  /\ pc = "diagnostics" => rows = Cells
  /\ pc \notin {"idle", "receipt"} => receipt # "complete"

\* What is still to be measured in this run has no clean mark, and is in one
\* place only: a boot to come, this boot's group, or the cell under way.
WorkIsDisjoint ==
  /\ pc \in Planned =>
       \A c \in Cells \ completed : (BootOf[c] \in boots => c \notin rows)
  /\ pc \in GroupPcs =>
       /\ \A c \in group : c \notin rows /\ c \notin measured
                             /\ BootOf[c] \notin boots
       /\ \A c \in measured : BootOf[c] \notin boots /\ Earned(c)
  /\ pc \in AttemptPcs =>
       /\ cell \in Cells \ (rows \cup group \cup measured)
       /\ BootOf[cell] \notin boots
  /\ pc \in {"summary", "archive"} /\ benchOk => command[cell].returned
  /\ pc = "archive" /\ benchOk => OneMeasurement(cell)

\* Measurements this run has added to those it found.
MeasurementsCounted ==
  /\ TwoPerRun
  /\ pc \in {"receipt", "ledger"} =>
       \A c \in Cells : command[c].id <= began[c]
  /\ pc \in Planned =>
       \A c \in Cells \ completed :
         (BootOf[c] \in boots => command[c].id <= began[c])
  /\ pc \in GroupPcs => \A c \in group : command[c].id <= began[c]
  /\ pc = "attempt" =>
       /\ attempt <= last + 1
       /\ command[cell].id <= began[cell] + 1 + attempt - last
  /\ pc = "bench" =>
       /\ attempt <= last
       /\ command[cell].id <= began[cell] + 1 + attempt - last
  /\ pc \in {"summary", "archive"} =>
       /\ attempt <= last
       /\ command[cell].id <= began[cell] + 2 + attempt - last

\* The inductive invariant.
IInv ==
  /\ TypeOK
  /\ ArchivesAreIntervals
  /\ LedgerIsConsistent
  /\ ReceiptMatchesLedger
  /\ MarksAreEarned
  /\ WorkIsDisjoint

-----------------------------------------------------------------------------

\* An interval from one has its end as the maximum.
LEMMA MaxOfInterval ==
  ASSUME NEW k \in Nat
  PROVE  Max0(1 .. k) = k
<1> DEFINE S == (1 .. k) \cup {0}
<1>1. k \in S /\ \A y \in S : k >= y
  OBVIOUS
<1>2. \A x \in S : (\A y \in S : x >= y) => x = k
  BY <1>1
<1>3. Max(S) = k
  BY <1>1, <1>2 DEF Max
<1> QED
  BY <1>3 DEF Max0

\* The number of a next attempt follows on the archived ones.
LEMMA NextNumber ==
  ASSUME NEW c \in Cells, NEW k \in Nat, archives[c] = 1 .. k
  PROVE  NextAttemptNumber(c) = k + 1
BY MaxOfInterval DEF NextAttemptNumber

LEMMA NextIsNatural ==
  ASSUME ArchivesAreIntervals
  PROVE  \A c \in Cells : NextAttemptNumber(c) \in Nat
BY NextNumber DEF ArchivesAreIntervals

\* Every step keeps the types.
LEMMA TypeStep ==
  ASSUME TypeOK, ArchivesAreIntervals, [Next]_vars
  PROVE  TypeOK'
<1> USE CellsAssumption, BootAssumption, BoundsAssumption
<1> USE DEF TypeOK, runVars, diskVars, memoryVars
<1>1. CASE Start
  BY <1>1 DEF Start, ResumeState, Commands
<1>2. CASE WriteRunning
  BY <1>2 DEF WriteRunning
<1>3. CASE WriteLedger
  BY <1>3 DEF WriteLedger
<1>4. CASE NextBoot
  BY <1>4 DEF NextBoot
<1>5. CASE QuietBeforeBoot
  BY <1>5 DEF QuietBeforeBoot
<1>6. CASE Boot
  BY <1>6 DEF Boot
<1>7. CASE NextCell
  <2>1. \A c \in Cells : NextAttemptNumber(c) \in Nat
    BY NextIsNatural
  <2> QED
    BY <1>7, <2>1 DEF NextCell
<1>8. CASE Attempt
  BY <1>8 DEF Attempt
<1>9. CASE Bench
  <2>1. cell \in Cells
    BY <1>9 DEF Bench, ArchivesAreIntervals, AttemptPcs
  <2>2. command' \in [Cells -> Commands]
    BY <1>9, <2>1 DEF Bench, Commands
  <2> QED
    BY <1>9, <2>2 DEF Bench
<1>10. CASE Summarize
  <2>1. cell \in Cells
    BY <1>10 DEF Summarize, ArchivesAreIntervals, AttemptPcs
  <2>2. summary' \in [Cells -> Summaries]
    BY <1>10, <2>1 DEF Summarize, Commands, Summaries
  <2> QED
    BY <1>10, <2>2 DEF Summarize
<1>11. CASE Archive
  <2>1. cell \in Cells /\ attempt \in Nat \ {0}
    BY <1>11 DEF Archive, ArchivesAreIntervals, AttemptPcs
  <2>2. archives' \in [Cells -> SUBSET (Nat \ {0})]
    BY <1>11, <2>1 DEF Archive
  <2>3. measured' \subseteq Cells /\ attempt' \in Nat
    BY <1>11, <2>1 DEF Archive
  <2> QED
    BY <1>11, <2>2, <2>3 DEF Archive
<1>12. CASE Outcome
  BY <1>12 DEF Outcome
<1>13. CASE GroupFails
  BY <1>13 DEF GroupFails
<1>14. CASE GroupEnd
  BY <1>14 DEF GroupEnd
<1>15. CASE Final
  <2>1. CASE memoryVars' = memoryVars /\ receipt' = receipt /\ pc' = "diagnostics"
    BY <1>15, <2>1 DEF Final
  <2>2. CASE MemoryLost /\ receipt' = "incomplete" /\ pc' = "idle"
    BY <1>15, <2>2 DEF Final, MemoryLost
  <2> QED
    BY <1>15, <2>1, <2>2 DEF Final
<1>16. CASE Diagnostics
  BY <1>16 DEF Diagnostics, MemoryLost
<1>17. CASE Killed
  BY <1>17 DEF Killed, MemoryLost
<1>18. ASSUME NEW c \in Cells, Damaged(c) PROVE TypeOK'
  <2>1. summary' \in [Cells -> Summaries]
    BY <1>18 DEF Damaged, Summaries
  <2> QED
    BY <1>18, <2>1 DEF Damaged
<1>19. CASE UNCHANGED vars
  BY <1>19 DEF vars
<1> QED
  BY <1>1, <1>2, <1>3, <1>4, <1>5, <1>6, <1>7, <1>8, <1>9, <1>10,
     <1>11, <1>12, <1>13, <1>14, <1>15, <1>16, <1>17, <1>18, <1>19 DEF Next, Step, Finished

\* Every step keeps the archives intervals.
LEMMA ArchivesStep ==
  ASSUME TypeOK, ArchivesAreIntervals, [Next]_vars
  PROVE  ArchivesAreIntervals'
<1> USE CellsAssumption, BootAssumption, BoundsAssumption
<1> USE DEF TypeOK, ArchivesAreIntervals, AttemptPcs, runVars, diskVars, memoryVars
<1>1. CASE Start
  BY <1>1 DEF Start, ResumeState
<1>2. CASE WriteRunning
  BY <1>2 DEF WriteRunning
<1>3. CASE WriteLedger
  BY <1>3 DEF WriteLedger
<1>4. CASE NextBoot
  BY <1>4 DEF NextBoot
<1>5. CASE QuietBeforeBoot
  BY <1>5 DEF QuietBeforeBoot
<1>6. CASE Boot
  BY <1>6 DEF Boot
<1>7. CASE NextCell
  <2>1. \A c \in Cells : \E k \in Nat :
          NextAttemptNumber(c) = k + 1 /\ archives[c] = 1 .. k
    BY NextNumber
  <2> QED
    BY <1>7, <2>1 DEF NextCell
<1>8. CASE Attempt
  BY <1>8 DEF Attempt
<1>9. CASE Bench
  BY <1>9 DEF Bench
<1>10. CASE Summarize
  BY <1>10 DEF Summarize
<1>11. CASE Archive
  <2>1. attempt \in Nat /\ archives[cell] = 1 .. (attempt - 1) /\ attempt >= 1
    BY <1>11 DEF Archive
  <2>2. (1 .. (attempt - 1)) \cup {attempt} = 1 .. attempt
    BY <2>1
  <2>3. archives'[cell] = archives[cell] \cup {attempt}
    BY <1>11 DEF Archive
  <2>4. \A c \in Cells : c # cell => archives'[c] = archives[c]
    BY <1>11 DEF Archive
  <2>5. \A c \in Cells : \E k \in Nat : archives'[c] = 1 .. k
    BY <2>1, <2>2, <2>3, <2>4
  <2>6. pc' = "attempt" => attempt' = attempt + 1 /\ cell' = cell
    BY <1>11 DEF Archive
  <2>7. cell' = cell /\ pc' \in {"attempt", "outcome"}
    BY <1>11 DEF Archive
  <2>8. attempt + 1 - 1 = attempt /\ attempt + 1 >= 1
    BY <2>1
  <2>9. cell \in Cells
    BY <1>11 DEF Archive
  <2>10. pc' \in AttemptPcs =>
           /\ cell' \in Cells /\ attempt' >= 1
           /\ archives'[cell'] = 1 .. (attempt' - 1)
    <3> SUFFICES ASSUME pc' = "attempt"
                 PROVE  /\ cell' \in Cells /\ attempt' >= 1
                        /\ archives'[cell'] = 1 .. (attempt' - 1)
      BY <2>7
    <3>1. attempt' = attempt + 1 /\ cell' = cell
      BY <2>6
    <3>2. archives'[cell] = 1 .. attempt
      BY <2>1, <2>2, <2>3
    <3> QED
      BY <3>1, <3>2, <2>8, <2>9
  <2> QED
    BY <2>5, <2>10
<1>12. CASE Outcome
  BY <1>12 DEF Outcome
<1>13. CASE GroupFails
  BY <1>13 DEF GroupFails
<1>14. CASE GroupEnd
  BY <1>14 DEF GroupEnd
<1>15. CASE Final
  BY <1>15 DEF Final, MemoryLost
<1>16. CASE Diagnostics
  BY <1>16 DEF Diagnostics, MemoryLost
<1>17. CASE Killed
  BY <1>17 DEF Killed, MemoryLost
<1>18. ASSUME NEW c \in Cells, Damaged(c) PROVE ArchivesAreIntervals'
  BY <1>18 DEF Damaged
<1>19. CASE UNCHANGED vars
  BY <1>19 DEF vars
<1> QED
  BY <1>1, <1>2, <1>3, <1>4, <1>5, <1>6, <1>7, <1>8, <1>9, <1>10,
     <1>11, <1>12, <1>13, <1>14, <1>15, <1>16, <1>17, <1>18, <1>19 DEF Next, Step, Finished

\* Every step keeps the marks earned and the two files in agreement.
LEMMA MarksStep ==
  ASSUME TypeOK, LedgerIsConsistent, ReceiptMatchesLedger, MarksAreEarned, WorkIsDisjoint, [Next]_vars
  PROVE  (LedgerIsConsistent /\ ReceiptMatchesLedger /\ MarksAreEarned)'
<1> USE CellsAssumption, BootAssumption, BoundsAssumption
<1> USE DEF TypeOK, Commands, Summaries, LedgerIsConsistent,
        ReceiptMatchesLedger, MarksAreEarned, WorkIsDisjoint, Earned,
        MeetsContract, CellClean, OneMeasurement, AttemptPcs,
        GroupPcs, Planned, runVars, diskVars, memoryVars
<1>1. CASE Start
  BY <1>1 DEF Start, ResumeState
<1>2. CASE WriteRunning
  BY <1>2 DEF WriteRunning
<1>3. CASE WriteLedger
  BY <1>3 DEF WriteLedger
<1>4. CASE NextBoot
  BY <1>4 DEF NextBoot
<1>5. CASE QuietBeforeBoot
  BY <1>5 DEF QuietBeforeBoot
<1>6. CASE Boot
  BY <1>6 DEF Boot
<1>7. CASE NextCell
  BY <1>7 DEF NextCell
<1>8. CASE Attempt
  BY <1>8 DEF Attempt
<1>9. CASE Bench
  BY <1>9 DEF Bench
<1>10. CASE Summarize
  <2>1. cell \in Cells \ rows
    BY <1>10 DEF Summarize
  <2>2. \A c \in Cells : c # cell => summary'[c] = summary[c]
    BY <1>10 DEF Summarize
  <2>3. \A c \in rows : Earned(c)'
    BY <1>10, <2>1, <2>2 DEF Summarize
  <2>4. \A c \in ledger : OneMeasurement(c)'
    BY <1>10, <2>1, <2>2 DEF Summarize
  <2> QED
    BY <1>10, <2>3, <2>4 DEF Summarize
<1>11. CASE Archive
  BY <1>11 DEF Archive, CleanNow, CellClean
<1>12. CASE Outcome
  BY <1>12 DEF Outcome
<1>13. CASE GroupFails
  BY <1>13 DEF GroupFails
<1>14. CASE GroupEnd
  BY <1>14 DEF GroupEnd
<1>15. CASE Final
  <2>1. Cardinality(rows) = Cardinality(Cells) => rows = Cells
    BY FS_Subset
  <2> QED
    BY <1>15, <2>1 DEF Final, MemoryLost
<1>16. CASE Diagnostics
  BY <1>16 DEF Diagnostics, MemoryLost
<1>17. CASE Killed
  BY <1>17 DEF Killed, MemoryLost
<1>18. ASSUME NEW c \in Cells, Damaged(c) PROVE (LedgerIsConsistent /\ ReceiptMatchesLedger /\ MarksAreEarned)'
  BY <1>18 DEF Damaged
<1>19. CASE UNCHANGED vars
  BY <1>19 DEF vars
<1> QED
  BY <1>1, <1>2, <1>3, <1>4, <1>5, <1>6, <1>7, <1>8, <1>9, <1>10,
     <1>11, <1>12, <1>13, <1>14, <1>15, <1>16, <1>17, <1>18, <1>19 DEF Next, Step, Finished

\* Every step keeps the work of a run in one place.
LEMMA WorkStep ==
  ASSUME TypeOK, MarksAreEarned, WorkIsDisjoint, [Next]_vars
  PROVE  WorkIsDisjoint'
<1> USE CellsAssumption, BootAssumption, BoundsAssumption
<1> USE DEF TypeOK, Commands, Summaries, MarksAreEarned, WorkIsDisjoint,
        Earned, MeetsContract, CellClean, OneMeasurement, AttemptPcs,
        GroupPcs, Planned, runVars, diskVars, memoryVars
<1>1. CASE Start
  BY <1>1 DEF Start, ResumeState
<1>2. CASE WriteRunning
  BY <1>2 DEF WriteRunning
<1>3. CASE WriteLedger
  BY <1>3 DEF WriteLedger
<1>4. CASE NextBoot
  BY <1>4 DEF NextBoot
<1>5. CASE QuietBeforeBoot
  BY <1>5 DEF QuietBeforeBoot
<1>6. CASE Boot
  BY <1>6 DEF Boot
<1>7. CASE NextCell
  BY <1>7 DEF NextCell
<1>8. CASE Attempt
  BY <1>8 DEF Attempt
<1>9. CASE Bench
  <2>1. cell \in Cells \ (rows \cup group \cup measured)
    BY <1>9 DEF Bench
  <2>2. \A c \in Cells : c # cell => command'[c] = command[c]
    BY <1>9 DEF Bench
  <2>3. benchOk' => command'[cell].returned
    <3>1. PICK returned \in BOOLEAN, window \in BOOLEAN :
            /\ command' = [command EXCEPT ![cell] =
                 [id |-> @.id + 1, returned |-> returned, window |-> window]]
            /\ benchOk' \in {FALSE, returned}
      BY <1>9 DEF Bench
    <3>2. command'[cell] = [id |-> command[cell].id + 1,
                            returned |-> returned, window |-> window]
      BY <3>1, <2>1
    <3>3. command'[cell].returned = returned
      BY <3>2
    <3>4. benchOk' = FALSE \/ benchOk' = returned
      BY <3>1
    <3> QED
      BY <3>3, <3>4
  <2>4. \A c \in measured : Earned(c)'
    BY <1>9, <2>1, <2>2 DEF Bench
  <2> QED
    BY <1>9, <2>1, <2>3, <2>4 DEF Bench
<1>10. CASE Summarize
  <2>1. cell \in Cells \ (rows \cup group \cup measured)
    BY <1>10 DEF Summarize
  <2>2. \A c \in Cells : c # cell => summary'[c] = summary[c]
    BY <1>10 DEF Summarize
  <2>3. benchOk => summary'[cell].id = command[cell].id
    BY <1>10, <2>1 DEF Summarize
  <2>4. \A c \in measured : Earned(c)'
    BY <1>10, <2>1, <2>2 DEF Summarize
  <2> QED
    BY <1>10, <2>1, <2>3, <2>4 DEF Summarize
<1>11. CASE Archive
  BY <1>11 DEF Archive, CleanNow, CellClean
<1>12. CASE Outcome
  BY <1>12 DEF Outcome
<1>13. CASE GroupFails
  BY <1>13 DEF GroupFails
<1>14. CASE GroupEnd
  BY <1>14 DEF GroupEnd
<1>15. CASE Final
  BY <1>15 DEF Final, MemoryLost
<1>16. CASE Diagnostics
  BY <1>16 DEF Diagnostics, MemoryLost
<1>17. CASE Killed
  BY <1>17 DEF Killed, MemoryLost
<1>18. ASSUME NEW c \in Cells, Damaged(c) PROVE WorkIsDisjoint'
  BY <1>18 DEF Damaged
<1>19. CASE UNCHANGED vars
  BY <1>19 DEF vars
<1> QED
  BY <1>1, <1>2, <1>3, <1>4, <1>5, <1>6, <1>7, <1>8, <1>9, <1>10,
     <1>11, <1>12, <1>13, <1>14, <1>15, <1>16, <1>17, <1>18, <1>19 DEF Next, Step, Finished

\* Every step keeps the count of the measurements.
LEMMA CountStep ==
  ASSUME TypeOK, ArchivesAreIntervals, WorkIsDisjoint, MeasurementsCounted, [Next]_vars
  PROVE  MeasurementsCounted'
<1> USE CellsAssumption, BootAssumption, BoundsAssumption
<1> USE DEF TypeOK, Commands, WorkIsDisjoint, MeasurementsCounted,
        TwoPerRun, AttemptPcs, GroupPcs, Planned, runVars, diskVars, memoryVars
<1>1. CASE Start
  BY <1>1 DEF Start, ResumeState
<1>2. CASE WriteRunning
  BY <1>2 DEF WriteRunning
<1>3. CASE WriteLedger
  BY <1>3 DEF WriteLedger
<1>4. CASE NextBoot
  BY <1>4 DEF NextBoot
<1>5. CASE QuietBeforeBoot
  BY <1>5 DEF QuietBeforeBoot
<1>6. CASE Boot
  BY <1>6 DEF Boot
<1>7. CASE NextCell
  <2>1. \A c \in Cells : NextAttemptNumber(c) \in Nat
    BY NextIsNatural
  <2> QED
    BY <1>7, <2>1 DEF NextCell
<1>8. CASE Attempt
  BY <1>8 DEF Attempt
<1>9. CASE Bench
  BY <1>9 DEF Bench
<1>10. CASE Summarize
  BY <1>10 DEF Summarize
<1>11. CASE Archive
  BY <1>11 DEF Archive, CleanNow, CellClean
<1>12. CASE Outcome
  BY <1>12 DEF Outcome
<1>13. CASE GroupFails
  BY <1>13 DEF GroupFails
<1>14. CASE GroupEnd
  BY <1>14 DEF GroupEnd
<1>15. CASE Final
  BY <1>15 DEF Final, MemoryLost
<1>16. CASE Diagnostics
  BY <1>16 DEF Diagnostics, MemoryLost
<1>17. CASE Killed
  BY <1>17 DEF Killed, MemoryLost
<1>18. ASSUME NEW c \in Cells, Damaged(c) PROVE MeasurementsCounted'
  BY <1>18 DEF Damaged
<1>19. CASE UNCHANGED vars
  BY <1>19 DEF vars
<1> QED
  BY <1>1, <1>2, <1>3, <1>4, <1>5, <1>6, <1>7, <1>8, <1>9, <1>10,
     <1>11, <1>12, <1>13, <1>14, <1>15, <1>16, <1>17, <1>18, <1>19 DEF Next, Step, Finished

-----------------------------------------------------------------------------

LEMMA InitIInv == Init => IInv /\ MeasurementsCounted
<1> SUFFICES ASSUME Init PROVE IInv /\ MeasurementsCounted
  OBVIOUS
<1> USE CellsAssumption, BootAssumption, BoundsAssumption DEF Init
<1>1. TypeOK
  <2>1. NoCommand \in Commands /\ NoSummary \in Summaries
    BY DEF NoCommand, NoSummary, Commands, Summaries
  <2>2. /\ command \in [Cells -> Commands]
        /\ summary \in [Cells -> Summaries]
        /\ archives \in [Cells -> SUBSET (Nat \ {0})]
    BY <2>1
  <2>3. runs \in 0 .. MaxRuns /\ damage \in 0 .. MaxDamage
    OBVIOUS
  <2>4. attempt \in Nat /\ last \in Nat /\ benchOk \in BOOLEAN
    OBVIOUS
  <2>5. /\ ledger \subseteq Cells /\ rows \subseteq Cells
        /\ completed \subseteq Cells /\ boots \subseteq Boots
        /\ group \subseteq Cells /\ measured \subseteq Cells
        /\ cell \in Cells \cup {NoCell}
    OBVIOUS
  <2> QED
    BY <2>2, <2>3, <2>4, <2>5 DEF TypeOK
<1>2. ArchivesAreIntervals
  <2>1. {} = 1 .. 0
    OBVIOUS
  <2> QED
    BY <2>1 DEF ArchivesAreIntervals, AttemptPcs
<1>3. LedgerIsConsistent /\ ReceiptMatchesLedger
  BY DEF LedgerIsConsistent, ReceiptMatchesLedger
<1>4. MarksAreEarned /\ WorkIsDisjoint
  BY DEF MarksAreEarned, WorkIsDisjoint, Planned, GroupPcs, AttemptPcs
<1>5. MeasurementsCounted
  BY DEF MeasurementsCounted, TwoPerRun, NoCommand, Planned, GroupPcs,
         AttemptPcs
<1> QED
  BY <1>1, <1>2, <1>3, <1>4, <1>5 DEF IInv

\* The invariant is inductive.
LEMMA Inductive == Spec => [](IInv /\ MeasurementsCounted)
<1>1. IInv /\ MeasurementsCounted /\ [Next]_vars => (IInv /\ MeasurementsCounted)'
  BY TypeStep, ArchivesStep, MarksStep, WorkStep, CountStep DEF IInv
<1> QED
  BY <1>1, InitIInv, PTL DEF Spec

\* TypeOK holds in every reachable state.
THEOREM TypeCorrect == Spec => []TypeOK
<1>1. IInv => TypeOK
  BY DEF IInv
<1> QED
  BY <1>1, Inductive, PTL

\* The two files a clean row rests on are always of the same measurement,
\* wherever a run was killed.
THEOREM LedgerConsistent == Spec => []LedgerIsConsistent
<1>1. IInv => LedgerIsConsistent
  BY DEF IInv
<1> QED
  BY <1>1, Inductive, PTL

\* While the complete receipt is on disk, the ledger has every cell clean.
THEOREM ReceiptAgrees == Spec => []ReceiptMatchesLedger
<1>1. IInv => ReceiptMatchesLedger
  BY DEF IInv
<1> QED
  BY <1>1, Inductive, PTL

\* The number of the attempt that is archived next is free.
THEOREM ArchivesNeverCollide == Spec => []ArchiveIsFree
<1>1. IInv => ArchiveIsFree
  BY DEF IInv, TypeOK, ArchivesAreIntervals, AttemptPcs, ArchiveIsFree
<1> QED
  BY <1>1, Inductive, PTL

\* Nothing is measured more than twice per run.
THEOREM AtMostTwice == Spec => []TwoPerRun
<1>1. MeasurementsCounted => TwoPerRun
  BY DEF MeasurementsCounted
<1> QED
  BY <1>1, Inductive, PTL

\* The complete receipt is written over nothing but clean measurements.
THEOREM CompletionEarned == Spec => CompleteIsEarned
<1> DEFINE Claim == receipt # "complete" /\ receipt' = "complete" =>
                      \A c \in Cells : MeetsContract(c) /\ OneMeasurement(c)
<1>1. IInv /\ [Next]_vars => Claim
  <2> SUFFICES ASSUME IInv, [Next]_vars, receipt # "complete",
                      receipt' = "complete"
               PROVE  \A c \in Cells : Earned(c)
    BY DEF Earned
  <2>1. Diagnostics
    BY DEF Next, Step, Start, WriteRunning, WriteLedger, NextBoot,
           QuietBeforeBoot, Boot, NextCell, Attempt, Bench, Summarize, Archive,
           Outcome, GroupFails, GroupEnd, Final, Killed, Damaged, Finished,
           vars, runVars, diskVars
  <2> QED
    BY <2>1 DEF Diagnostics, IInv, MarksAreEarned
<1> QED
  BY <1>1, Inductive, PTL DEF Spec, CompleteIsEarned
=============================================================================
