------------------------- MODULE GpuIsolationProofs -------------------------
(***************************************************************************)
(* Theorems about GpuIsolation, for any set of pids and any number of      *)
(* processes and samples, when no pid is reused while a sample that has    *)
(* seen it is under way.                                                   *)
(***************************************************************************)
EXTENDS GpuIsolation, TLAPS

\* Between two samples nothing of the last one is left.
SampleFresh == pc \in {"wait", "smi", "top"} => topPids = {} /\ todo = {}

\* A new process is born later than every identity on record.
BirthsGrow ==
  \A p \in Pids : /\ owned[p] <= births
                  /\ procs[p].birth <= births
                  /\ Alive(p) => procs[p].birth # 0

TypeInv == TypeOK /\ SampleFresh /\ BirthsGrow

\* A process that dies leaves its pid free, or keeps it as a zombie.
LEMMA DiesEffect ==
  ASSUME TypeOK, NEW p \in Pids, Dies(p)
  PROVE  /\ procs' \in [Pids -> Processes]
         /\ \A q \in Pids :
              \/ procs'[q] = NoProc
              \/ /\ procs[q] # NoProc /\ procs'[q] # NoProc
                 /\ procs'[q].birth = procs[q].birth
                 /\ procs'[q].owner = procs[q].owner
              \/ procs'[q] = procs[q]
<1> DEFINE Zombie == [procs[p] EXCEPT !.zombie = TRUE]
<1>1. procs[p] \in Processes /\ NoProc \in Processes
  BY MaxBirthsAssumption DEF TypeOK, Processes, NoProc
<1>2. /\ Zombie \in Processes
      /\ Zombie.birth = procs[p].birth /\ Zombie.owner = procs[p].owner
      /\ Zombie # NoProc
  BY <1>1 DEF Processes, NoProc
<1>3. procs' = [procs EXCEPT ![p] =
                  IF procs[p].zombie THEN NoProc ELSE Zombie]
  BY DEF Dies
<1>4. procs' \in [Pids -> Processes]
  BY <1>1, <1>2, <1>3 DEF TypeOK
<1>5. procs[p] # NoProc
  BY DEF Dies, Alive
<1> HIDE DEF Zombie
<1> QED
  BY <1>2, <1>3, <1>4, <1>5 DEF TypeOK

\* A new process has a birth of its own.
LEMMA StartsEffect ==
  ASSUME TypeOK, NEW p \in Pids, Starts(p)
  PROVE  /\ births' \in 0 .. MaxBirths /\ births' = births + 1
         /\ procs' \in [Pids -> Processes]
         /\ procs'[p].birth = births'
         /\ \A q \in Pids : q # p => procs'[q] = procs[q]
<1>1. PICK owner \in {"battery", "other"} :
        procs' = [procs EXCEPT ![p] = [birth |-> births + 1, owner |-> owner,
                                       zombie |-> FALSE]]
  BY DEF Starts
<1>2. births' = births + 1 /\ births' \in 0 .. MaxBirths
  BY MaxBirthsAssumption DEF Starts, TypeOK
<1>3. [birth |-> births + 1, owner |-> owner, zombie |-> FALSE] \in Processes
  BY <1>2 DEF Processes
<1> QED
  BY <1>1, <1>2, <1>3 DEF TypeOK

\* Every step keeps every variable in its range.
LEMMA TypeStep == TypeInv /\ [Next]_vars => TypeInv'
<1> SUFFICES ASSUME TypeInv, [Next]_vars PROVE TypeInv'
  OBVIOUS
<1> USE MaxBirthsAssumption
    DEF TypeInv, SampleFresh, BirthsGrow, Alive, vars, worldVars, sampleVars, Births, Interrupt
<1>1. CASE ContainerComesOrGoes
  BY <1>1 DEF TypeOK, ContainerComesOrGoes
<1>2. ASSUME NEW p \in Pids, Starts(p) PROVE TypeInv'
  <2>1. UNCHANGED <<listed, pc, sampleVars, owned, previous, outcome, verified>>
    BY <1>2 DEF Starts
  <2>2. TypeOK'
    BY <1>2, <2>1, StartsEffect DEF TypeOK
  <2>3. births' = births + 1 /\ births \in Nat /\ owned' = owned
    BY <1>2, <2>1, StartsEffect DEF TypeOK
  <2>4. ASSUME NEW q \in Pids
        PROVE  /\ owned'[q] <= births' /\ procs'[q].birth <= births'
               /\ procs'[q] # NoProc => procs'[q].birth # 0
    <3>1. owned[q] \in Nat /\ procs[q].birth \in Nat
      BY DEF TypeOK, Processes
    <3>2. procs'[q] = procs[q] \/ procs'[q].birth = births + 1
      BY <1>2, StartsEffect
    <3> QED BY <2>3, <3>1, <3>2
  <2>5. BirthsGrow'
    BY <2>4
  <2> QED BY <2>1, <2>2, <2>5
<1>3. ASSUME NEW p \in Pids, Dies(p) PROVE TypeInv'
  <2>1. /\ procs' \in [Pids -> Processes]
        /\ \A q \in Pids : /\ procs'[q].birth <= births
                           /\ procs'[q] # NoProc => procs'[q].birth # 0
    <3>1. births \in Nat /\ NoProc.birth = 0
      BY DEF TypeOK, NoProc
    <3>2. \A q \in Pids : /\ procs[q].birth <= births
                          /\ procs[q] # NoProc => procs[q].birth # 0
      OBVIOUS
    <3>3. 0 <= births
      BY <3>1
    <3> QED BY <1>3, <3>1, <3>2, <3>3, DiesEffect
  <2>2. UNCHANGED <<births, listed, pc, sampleVars, owned, previous, outcome,
             verified>>
    BY <1>3 DEF Dies
  <2>3. TypeOK'
    BY <2>1, <2>2 DEF TypeOK
  <2>4. owned' = owned /\ births' = births
    BY <2>2
  <2>5. ASSUME NEW q \in Pids
        PROVE  /\ owned'[q] <= births' /\ procs'[q].birth <= births'
               /\ procs'[q] # NoProc => procs'[q].birth # 0
    <3>1. owned[q] <= births
      BY DEF TypeInv
    <3>2. owned'[q] <= births'
      BY <2>4, <3>1
    <3>3. /\ procs'[q].birth <= births'
          /\ procs'[q] # NoProc => procs'[q].birth # 0
      BY <2>1, <2>4
    <3> QED BY <3>2, <3>3
  <2>6. BirthsGrow'
    BY <2>5
  <2> QED BY <2>2, <2>3, <2>6
<1>4. CASE BeginSample
  BY <1>4 DEF TypeOK, BeginSample
<1>5. CASE QueryGpu
  BY <1>5 DEF TypeOK, QueryGpu
<1>6. CASE QueryDocker
  BY <1>6 DEF TypeOK, QueryDocker, TopReports, InContainer
<1>7. CASE SampleComplete
  BY <1>7 DEF TypeOK, SampleComplete
<1>8. CASE IsolationLost
  BY <1>8 DEF TypeOK, IsolationLost
<1>9. CASE NextSample
  BY <1>9 DEF TypeOK, NextSample, Current
<1>10. ASSUME NEW p \in Pids, Examine(p) PROVE TypeInv'
  <2>1. Alive(p) => procs[p].birth \in 0 .. MaxBirths
    BY DEF TypeOK, Processes
  <2>2. owned' \in [Pids -> 0 .. MaxBirths]
    BY <1>10, <2>1 DEF Examine, TypeOK
  <2>3. CASE foreign' = foreign /\ verified' = verified
    BY <1>10, <2>2, <2>3 DEF Examine, TypeOK
  <2>4. CASE Alive(p) /\ ~procs[p].zombie
    <3>1. p \in gpuPids
      BY <1>10 DEF Examine, TypeOK
    <3>2. procs[p].birth \in Births
      BY <2>1, <2>4 DEF TypeOK
    <3>3. <<p, procs[p].birth>> \in Pids \X Births
      BY <3>2
    <3> QED BY <1>10, <2>2, <3>3 DEF Examine, TypeOK
  <2> QED BY <1>10, <2>3, <2>4 DEF Examine
<1>11. CASE Unhealthy
  BY <1>11 DEF TypeOK, Unhealthy
<1>12. CASE SampleFails
  BY <1>12 DEF TypeOK, SampleFails
<1>13. CASE Stopped
  BY <1>13 DEF TypeOK, Stopped
<1>14. CASE UNCHANGED vars
  BY <1>14 DEF TypeOK
<1> QED
  BY <1>1, <1>2, <1>3, <1>4, <1>5, <1>6, <1>7, <1>8, <1>9, <1>10, <1>11,
     <1>12, <1>13, <1>14 DEF Next, World, Monitor

LEMMA TypeInit == Init => TypeInv
  BY MaxBirthsAssumption
     DEF Init, TypeInv, TypeOK, SampleFresh, BirthsGrow, Alive, Processes,
         NoProc, Births

\* Every variable stays in its range, whatever is reused or fails.
THEOREM TypeCorrect == Spec => []TypeOK
<1>1. TypeInv => TypeOK
  BY DEF TypeInv
<1> QED
  BY <1>1, TypeInit, TypeStep, PTL DEF Spec

-----------------------------------------------------------------------------
(* Whose identities are adopted.                                           *)

\* What docker top showed of the sample's pids is still the battery's.
TopIsOurs ==
  \A p \in topPids \cap gpuPids :
    Alive(p) => procs[p].owner = "battery"

OwnedInv == TypeInv /\ TopIsOurs /\ AdoptedAreOurs

LEMMA OwnedStep ==
  ASSUME ~ReuseInSample, OwnedInv, [Next]_vars
  PROVE  OwnedInv'
<1> DEFINE Rest == TopIsOurs /\ AdoptedAreOurs
<1>1. TypeInv'
  BY TypeStep DEF OwnedInv
<1> SUFFICES Rest'
  BY <1>1 DEF OwnedInv
<1> USE DEF OwnedInv, TypeInv, SampleFresh, BirthsGrow, TopIsOurs,
        AdoptedAreOurs, Alive, vars, worldVars, sampleVars, Interrupt
<1>2. CASE ContainerComesOrGoes
  BY <1>2 DEF ContainerComesOrGoes
<1>3. ASSUME NEW p \in Pids, Starts(p) PROVE Rest'
  <2>1. UNCHANGED <<owned, topPids, gpuPids>> /\ p \notin gpuPids
    BY <1>3 DEF Starts
  <2>2. TopIsOurs'
    BY <1>3, <2>1, StartsEffect DEF TypeOK
  <2>3. owned[p] \in Nat /\ births \in Nat /\ owned[p] <= births
    BY MaxBirthsAssumption DEF TypeOK
  <2>4. owned[p] # procs'[p].birth
    BY <1>3, <2>3, StartsEffect
  <2>5. AdoptedAreOurs'
    BY <1>3, <2>1, <2>4, StartsEffect DEF TypeOK
  <2> QED BY <2>2, <2>5
<1>4. ASSUME NEW p \in Pids, Dies(p) PROVE Rest'
  <2>1. UNCHANGED <<owned, topPids, gpuPids>>
    BY <1>4 DEF Dies
  <2> QED
    BY <1>4, <2>1, DiesEffect DEF TypeOK
<1>5. CASE BeginSample
  BY <1>5 DEF BeginSample
<1>6. CASE QueryGpu
  BY <1>6 DEF QueryGpu
<1>7. CASE QueryDocker
  BY <1>7 DEF QueryDocker, TopReports, InContainer, TypeOK
<1>8. CASE SampleComplete
  BY <1>8 DEF SampleComplete
<1>9. CASE IsolationLost
  BY <1>9 DEF IsolationLost
<1>10. CASE NextSample
  BY <1>10 DEF NextSample
<1>11. ASSUME NEW p \in Pids, Examine(p) PROVE Rest'
  BY <1>11 DEF Examine, TypeOK
<1>12. CASE Unhealthy
  BY <1>12 DEF Unhealthy
<1>13. CASE SampleFails
  BY <1>13 DEF SampleFails
<1>14. CASE Stopped
  BY <1>14 DEF Stopped
<1>15. CASE UNCHANGED vars
  BY <1>15
<1> QED
  BY <1>2, <1>3, <1>4, <1>5, <1>6, <1>7, <1>8, <1>9, <1>10, <1>11, <1>12,
     <1>13, <1>14, <1>15 DEF Next, World, Monitor

\* No identity on the list belongs to a process from outside the battery.
THEOREM OnlyOursAdopted ==
  ASSUME ~ReuseInSample PROVE Spec => []AdoptedAreOurs
<1>1. Init => OwnedInv
  BY TypeInit DEF Init, OwnedInv, TopIsOurs, AdoptedAreOurs, Alive,
     NoProc
<1>2. OwnedInv /\ [Next]_vars => OwnedInv'
  BY OwnedStep
<1>3. OwnedInv => AdoptedAreOurs
  BY DEF OwnedInv
<1> QED
  BY <1>1, <1>2, <1>3, PTL DEF Spec

-----------------------------------------------------------------------------
(* Verified workers are not reported.                                      *)

\* An identity that docker top has shown stays on the list while its process
\* lives, and is looked at in every sample.
VerifiedKept ==
  \A p \in Pids :
    Alive(p) /\ <<p, procs[p].birth>> \in verified =>
      /\ owned[p] = procs[p].birth
      /\ pc \in {"top", "each", "decide"} => p \in gpuPids

VerifiedBorn == \A p \in Pids, b \in Births :
                  <<p, b>> \in verified => b <= births

\* A pid is looked at once per sample.
ForeignDone == \A p \in Pids, b \in Births :
                 <<p, b>> \in foreign => p \notin todo

ReportInv == /\ TypeInv /\ VerifiedKept /\ VerifiedBorn /\ ForeignDone
             /\ VerifiedNotForeign

LEMMA ReportStep == ReportInv /\ [Next]_vars => ReportInv'
<1> SUFFICES ASSUME ReportInv, [Next]_vars PROVE ReportInv'
  OBVIOUS
<1> DEFINE Rest == /\ VerifiedKept /\ VerifiedBorn /\ ForeignDone
                   /\ VerifiedNotForeign
<1>1. TypeInv'
  BY TypeStep DEF ReportInv
<1> SUFFICES Rest'
  BY <1>1 DEF ReportInv
<1> USE DEF ReportInv, TypeInv, SampleFresh, VerifiedKept, VerifiedBorn,
        ForeignDone, VerifiedNotForeign, Alive, vars, worldVars, sampleVars,
        Interrupt
<1>2. CASE ContainerComesOrGoes
  BY <1>2 DEF ContainerComesOrGoes
<1>3. ASSUME NEW p \in Pids, Starts(p) PROVE Rest'
  <2>1. UNCHANGED <<pc, sampleVars, owned, verified>>
    BY <1>3 DEF Starts
  <2>2. births' = births + 1 /\ births \in Nat
    BY <1>3, StartsEffect DEF TypeOK
  <2>3. VerifiedBorn'
    BY <2>1, <2>2, MaxBirthsAssumption DEF Births
  <2>4. <<p, procs'[p].birth>> \notin verified
    <3>1. births + 1 \in Births /\ ~(births + 1 <= births)
      BY <1>3, <2>2, StartsEffect, MaxBirthsAssumption DEF Births
    <3> QED BY <1>3, <2>2, <3>1, StartsEffect
  <2>5. VerifiedKept'
    BY <1>3, <2>1, <2>4, StartsEffect
  <2> QED BY <2>1, <2>3, <2>5
<1>4. ASSUME NEW p \in Pids, Dies(p) PROVE Rest'
  <2>1. UNCHANGED <<births, pc, sampleVars, owned, verified>>
    BY <1>4 DEF Dies
  <2>2. VerifiedKept'
    BY <1>4, <2>1, DiesEffect
  <2> QED BY <2>1, <2>2
<1>5. CASE BeginSample
  BY <1>5 DEF BeginSample
<1>6. CASE QueryGpu
  BY <1>6 DEF QueryGpu
<1>7. CASE QueryDocker
  BY <1>7 DEF QueryDocker, TypeOK
<1>8. CASE SampleComplete
  BY <1>8 DEF SampleComplete
<1>9. CASE IsolationLost
  BY <1>9 DEF IsolationLost
<1>10. CASE NextSample
  BY <1>10 DEF NextSample
<1>11. ASSUME NEW p \in Pids, Examine(p) PROVE Rest'
  <2>1. p \in todo /\ todo' = todo \ {p} /\ pc = "each"
        /\ UNCHANGED <<procs, births, pc, gpuPids>>
    BY <1>11 DEF Examine
  <2>2. Alive(p) => procs[p].birth \in Births /\ procs[p].birth <= births
    BY DEF BirthsGrow, TypeOK, Processes, Births
  <2>3. CASE UNCHANGED <<foreign, verified>>
    BY <1>11, <2>1, <2>3 DEF Examine, TypeOK
  <2>4. CASE /\ Alive(p) /\ foreign' = foreign
             /\ owned' = [owned EXCEPT ![p] = procs[p].birth]
             /\ verified' = verified \cup {<<p, procs[p].birth>>}
    BY <1>11, <2>1, <2>2, <2>4 DEF TypeOK
  <2>5. CASE /\ Alive(p) /\ owned[p] # procs[p].birth /\ verified' = verified
             /\ owned' = [owned EXCEPT ![p] = 0]
             /\ foreign' = foreign \cup {<<p, procs[p].birth>>}
    BY <1>11, <2>1, <2>2, <2>5 DEF TypeOK
  <2> QED BY <1>11, <2>3, <2>4, <2>5 DEF Examine
<1>12. CASE Unhealthy
  BY <1>12 DEF Unhealthy
<1>13. CASE SampleFails
  BY <1>13 DEF SampleFails
<1>14. CASE Stopped
  BY <1>14 DEF Stopped
<1>15. CASE UNCHANGED vars
  BY <1>15
<1> QED
  BY <1>2, <1>3, <1>4, <1>5, <1>6, <1>7, <1>8, <1>9, <1>10, <1>11, <1>12,
     <1>13, <1>14, <1>15 DEF Next, World, Monitor

\* A worker once seen in docker top is not reported while it lives, whatever
\* pids are reused and whatever queries fail.
THEOREM VerifiedNeverReported == Spec => []VerifiedNotForeign
<1>1. Init => ReportInv
  BY TypeInit DEF Init, ReportInv, VerifiedKept, VerifiedBorn, ForeignDone,
     VerifiedNotForeign
<1>2. ReportInv => VerifiedNotForeign
  BY DEF ReportInv
<1> QED
  BY <1>1, <1>2, ReportStep, PTL DEF Spec
=============================================================================
