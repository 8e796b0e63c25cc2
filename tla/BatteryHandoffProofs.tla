------------------------ MODULE BatteryHandoffProofs ------------------------
(***************************************************************************)
(* What the chain of batteries promises, for every length and make-up of   *)
(* the chain that ChainAssumption and RootAssumption allow.                *)
(***************************************************************************)
EXTENDS BatteryHandoff, TLAPS

Strict(j) == Kind[j] \in {"followups", "clean"}
NotYet(j) == pc[j] \in {"absent", "wait", "gate", "ended"}
OverAndDone(j)  == pc[j] \in {"after", "ended"}

\* Whoever is past its gate has its directory, and only existing directories
\* hold receipts.
ReceiptsNeedRoots ==
  /\ 1 \in made /\ ledger \subseteq made
  /\ \A j \in Jobs : ~NotYet(j) => Root[j] \in made
  /\ \A j \in Jobs : Kind[j] = "resume" /\ pc[j] # "absent" => Root[j] \in made
  /\ \A r \in Jobs : r \notin made => executed[r] = 0 /\ restored[r] = 0
  /\ \A j \in stray : Root[j] \in made

\* A battery is queued after the one it waits for.
QueuedInOrder ==
  /\ \A j \in Jobs : pc[j] # "absent" => created[j] >= 1 /\ proc[j] # "none"
  /\ \A j \in Jobs : pc[j] = "absent" => proc[j] = "none"
  /\ \A j \in Jobs : j > 1 /\ pc[j] # "absent" => pc[j - 1] # "absent"

\* Nobody passes its gate before the batteries that come earlier in the chain
\* and have a directory of their own.
NobodyOvertakes ==
  \A j, k \in Jobs :
    Kind[j] # "resume" /\ j \notin made /\ j <= k => k \notin made /\ NotYet(k)

\* Once the followups or the clean reruns have their directory, everyone before
\* them is off the GPUs for good.
EarlierAreOver ==
  \A j, k \in Jobs : Strict(j) /\ j \in made /\ k < j => OverAndDone(k)

\* What the receipts before a strict gate say is true of the battery that
\* wrote them.
ReceiptsTellTheTruth ==
  \A j \in Jobs :
    Strict(j) /\ pc[j - 1] # "absent" /\ executed[j - 1] >= created[j - 1] =>
      /\ pc[j - 1] \in {"restore", "after", "ended"}
      /\ restored[j - 1] >= executed[j - 1] =>
           OverAndDone(j - 1) /\ (j \notin made => prod = "up")

IInv ==
  /\ TypeOK
  /\ ReceiptsNeedRoots /\ QueuedInOrder
  /\ NobodyOvertakes /\ EarlierAreOver /\ ReceiptsTellTheTruth

-----------------------------------------------------------------------------
(* The chain.                                                              *)

LEMMA StrictPredecessor ==
  ASSUME NEW j \in Jobs, Strict(j)
  PROVE  /\ j > 1 /\ j - 1 \in Jobs /\ Root[j - 1] = j - 1 /\ Root[j] = j
         /\ Kind[j - 1] # "resume"
         /\ j - 1 # 1 => Strict(j - 1)
<1>1. j # 1 /\ j \in Nat /\ Count \in Nat /\ 1 <= j /\ j <= Count
  BY ChainAssumption DEF Strict, Jobs
<1>2. j > 1 /\ j - 1 \in Jobs
  BY <1>1 DEF Jobs
<1>3. Kind[j - 1] \in {"full", "followups"}
  BY ChainAssumption DEF Strict
<1>4. Root[j - 1] = j - 1 /\ Root[j] = j
  BY <1>2, <1>3, RootAssumption DEF Strict
<1>5. j - 1 # 1 => Kind[j - 1] = "followups"
  BY <1>2, <1>3, ChainAssumption
<1> QED BY <1>2, <1>3, <1>4, <1>5 DEF Strict

\* Only the battery before a strict one writes that battery's directory.
LEMMA RootOwner ==
  ASSUME NEW j \in Jobs, Strict(j), NEW k \in Jobs, Root[k] = j - 1
  PROVE  k = j - 1
<1>1. j - 1 \in Jobs /\ j \in Nat /\ k \in Nat
  BY StrictPredecessor DEF Jobs
<1>2. CASE Kind[k] # "resume"
  BY <1>2, RootAssumption
<1>3. CASE Kind[k] = "resume"
  <2>1. j - 1 < k /\ \A i \in (j - 1) + 1 .. k : Kind[i] = "resume"
    BY <1>3, RootAssumption
  <2>2. j \in (j - 1) + 1 .. k
    BY <1>1, <2>1
  <2> QED BY <2>1, <2>2 DEF Strict
<1> QED BY <1>2, <1>3

\* No directory written after a battery with its own is older than that.
LEMMA RootsFollow ==
  ASSUME NEW j \in Jobs, Kind[j] # "resume", NEW k \in Jobs, j <= k
  PROVE  Root[k] \in Jobs /\ j <= Root[k]
<1>1. Root[k] \in Jobs /\ j \in Nat /\ k \in Nat /\ Root[k] \in Nat
  BY RootAssumption DEF Jobs
<1>2. CASE Kind[k] # "resume"
  BY <1>1, <1>2, RootAssumption
<1>3. CASE Kind[k] = "resume"
  <2>1. \A i \in Root[k] + 1 .. k : Kind[i] = "resume"
    BY <1>3, RootAssumption
  <2>2. ASSUME Root[k] < j PROVE FALSE
    <3>1. j \in Root[k] + 1 .. k
      BY <1>1, <2>2
    <3> QED BY <2>1, <3>1
  <2> QED BY <1>1, <2>2
<1> QED BY <1>2, <1>3

\* Passing a gate takes a restoration receipt from the battery before.
LEMMA GateNeedsRoot ==
  ASSUME TypeOK, ReceiptsNeedRoots, NEW j \in Jobs, j > 1, Gate(j)
  PROVE  j - 1 \in Jobs /\ Root[j - 1] \in made
<1>1. j - 1 \in Jobs
  BY ChainAssumption DEF Jobs
<1>2. Kind[j] \in {"followups", "clean", "resume", "r27"}
  <2>1. j # 1
    BY DEF Jobs
  <2> QED BY <2>1, ChainAssumption
<1>3. Root[j - 1] \in Jobs
  BY <1>1, RootAssumption
<1>4. restored[Root[j - 1]] # 0
  BY <1>2 DEF Gate, ExecutedThenRestored, RestoredSince
<1> QED BY <1>1, <1>3, <1>4 DEF ReceiptsNeedRoots

-----------------------------------------------------------------------------
(* Types.                                                                  *)

LEMMA TypeInit == Init => TypeOK
BY ChainAssumption DEF Init, TypeOK, Jobs, Receipts, Places

LEMMA EndTypes ==
  ASSUME TypeOK, NEW j \in Jobs, NEW how \in {"complete", "failed"}, End(j, how)
  PROVE  /\ pc' \in [Jobs -> Places]
         /\ proc' \in [Jobs -> {"none", "alive", "zombie", "gone", "reused"}]
         /\ outcome' \in [Jobs -> {"none", "complete", "failed"}]
<1>1. PICK s \in {"zombie", "gone"} : proc' = [proc EXCEPT ![j] = s]
  BY DEF End
<1> QED BY <1>1 DEF End, TypeOK, Goto, Places

LEMMA CompletionTypes ==
  ASSUME TypeOK, NEW j \in Jobs, LeavesCompletion(j)
  PROVE  completed' \in [Jobs -> Receipts] /\ clock' \in {clock, clock + 1}
<1>1. CASE UNCHANGED <<clock, completed>>
  BY <1>1 DEF TypeOK
<1>2. ASSUME Tick, NEW c \in BOOLEAN,
             completed' = [completed EXCEPT ![Root[j]] =
                             [complete |-> c, at |-> Now]]
      PROVE  completed' \in [Jobs -> Receipts] /\ clock' = clock + 1
  <2>1. [complete |-> c, at |-> Now] \in Receipts
    BY DEF Receipts, TypeOK, Now
  <2>2. completed \in [Jobs -> Receipts]
    BY DEF TypeOK
  <2> QED
    BY <1>2, <2>1, <2>2 DEF Tick, Now
<1> QED
  BY <1>1, <1>2 DEF LeavesCompletion

LEMMA TypeStep ==
  ASSUME TypeOK, [Next]_vars
  PROVE  TypeOK'
<1> USE RootAssumption DEF TypeOK, Places, vars, jobVars, receiptVars, Goto,
        Tick, Now, Receipts
<1> DEFINE Timed(f) == f \in [Jobs -> 0 .. clock + 1]
<1>0. Timed(executed) /\ Timed(restored)
  OBVIOUS
<1>1. ASSUME NEW j \in Jobs, Queue(j) PROVE TypeOK'
  BY <1>0, <1>1 DEF Queue
<1>2. ASSUME NEW j \in Jobs, PredecessorGone(j) PROVE TypeOK'
  BY <1>2 DEF PredecessorGone
<1>3. ASSUME NEW j \in Jobs, Refuse(j) PROVE TypeOK'
  BY <1>3, EndTypes DEF Refuse
<1>4. ASSUME NEW j \in Jobs, PassGate(j) PROVE TypeOK'
  BY <1>4 DEF PassGate
<1>5. ASSUME NEW j \in Jobs, NothingToResume(j) PROVE TypeOK'
  BY <1>5, EndTypes DEF NothingToResume
<1>6. ASSUME NEW j \in Jobs, PassResumeGate(j) PROVE TypeOK'
  BY <1>6 DEF PassResumeGate
<1>7. ASSUME NEW j \in Jobs, Announce(j) PROVE TypeOK'
  BY <1>0, <1>7 DEF Announce
<1>8. ASSUME NEW j \in Jobs, Pause(j) PROVE TypeOK'
  BY <1>8 DEF Pause
<1>9. ASSUME NEW j \in Jobs, RefusePause(j) PROVE TypeOK'
  BY <1>9, EndTypes DEF RefusePause
<1>10. ASSUME NEW j \in Jobs, PhaseBegins(j) PROVE TypeOK'
  BY <1>10 DEF PhaseBegins
<1>11. ASSUME NEW j \in Jobs, Measure(j) PROVE TypeOK'
  <2>1. LeavesCompletion(j)
    BY <1>11 DEF Measure
  <2>2. completed' \in [Jobs -> Receipts] /\ clock' \in {clock, clock + 1}
    BY <2>1, CompletionTypes
  <2>3. /\ executed' \in [Jobs -> 0 .. clock'] /\ restored' \in [Jobs -> 0 .. clock']
        /\ clock' \in Nat
    BY <1>0, <1>11, <2>2 DEF Measure
  <2>4. pc' \in [Jobs -> Places]
    BY <1>11 DEF Measure
  <2> QED BY <1>11, <2>2, <2>3, <2>4 DEF Measure
<1>12. ASSUME NEW j \in Jobs, WriteExecuted(j) PROVE TypeOK'
  BY <1>0, <1>12 DEF WriteExecuted
<1>13. ASSUME NEW j \in Jobs, Interrupted(j) PROVE TypeOK'
  BY <1>13 DEF Interrupted
<1>14. ASSUME NEW j \in Jobs, Restore(j) PROVE TypeOK'
  <2>1. /\ restored' \in [Jobs -> 0 .. clock'] /\ executed' \in [Jobs -> 0 .. clock']
        /\ clock' \in Nat
    BY <1>0, <1>14 DEF Restore
  <2>2. CASE Goto(j, "after") /\ UNCHANGED <<proc, outcome>>
    BY <1>14, <2>1, <2>2 DEF Restore
  <2>3. CASE End(j, "failed")
    BY <1>14, <2>1, <2>3, EndTypes DEF Restore
  <2> QED BY <1>14, <2>2, <2>3 DEF Restore
<1>15. ASSUME NEW j \in Jobs, RestoreFails(j) PROVE TypeOK'
  BY <1>15, EndTypes DEF RestoreFails
<1>16. ASSUME NEW j \in Jobs, Finish(j) PROVE TypeOK'
  <2>1. PICK how \in {"complete", "failed"} : End(j, how)
    BY <1>16 DEF Finish
  <2> QED BY <1>16, <2>1, EndTypes DEF Finish
<1>17. ASSUME NEW j \in Jobs, Killed(j) PROVE TypeOK'
  BY <1>17, EndTypes DEF Killed
<1>18. ASSUME NEW j \in Jobs, Collected(j) PROVE TypeOK'
  BY <1>18 DEF Collected
<1>19. ASSUME NEW j \in Jobs, PidReused(j) PROVE TypeOK'
  BY <1>19 DEF PidReused
<1>20. CASE StartedByHand
  BY <1>20 DEF StartedByHand
<1>21. CASE UNCHANGED vars
  BY <1>21
<1>22. ASSUME NEW j \in Jobs, StrayBegins(j) PROVE TypeOK'
  BY <1>22 DEF StrayBegins
<1>23. ASSUME NEW j \in Jobs, StrayEnds(j) PROVE TypeOK'
  <2>1. completed' \in [Jobs -> Receipts] /\ clock' \in {clock, clock + 1}
    BY <1>23, CompletionTypes DEF StrayEnds
  <2>2. /\ executed' \in [Jobs -> 0 .. clock'] /\ restored' \in [Jobs -> 0 .. clock']
        /\ clock' \in Nat
    BY <1>0, <1>23, <2>1 DEF StrayEnds
  <2> QED BY <1>23, <2>1, <2>2 DEF StrayEnds
<1> QED
  BY <1>1, <1>2, <1>3, <1>4, <1>5, <1>6, <1>7, <1>8, <1>9, <1>10, <1>11,
     <1>12, <1>13, <1>14, <1>15, <1>16, <1>17, <1>18, <1>19, <1>20, <1>21,
     <1>22, <1>23
  DEF Next, Advance, Over
-----------------------------------------------------------------------------
(* The strict gates.                                                       *)

\* A step that passes no gate, takes nothing back, and leaves alone all that
\* the argument is about.
Steady ==
  /\ UNCHANGED <<created, made, executed, restored, prod>>
  /\ ledger' \subseteq made
  /\ \A k \in stray' : Root[k] \in made
  /\ \A k \in Jobs :
       /\ pc[k] = "absent" <=> pc'[k] = "absent"
       /\ proc[k] = "none" <=> proc'[k] = "none"
       /\ NotYet(k) => NotYet(k)'
       /\ OverAndDone(k) => OverAndDone(k)'
       /\ pc[k] \in {"restore", "after", "ended"} =>
            pc'[k] \in {"restore", "after", "ended"}

LEMMA SteadySteps ==
  ASSUME TypeOK, ReceiptsNeedRoots, QueuedInOrder, NEW j \in Jobs,
         \/ PredecessorGone(j) \/ Refuse(j) \/ NothingToResume(j) \/ Announce(j)
         \/ RefusePause(j) \/ PhaseBegins(j) \/ Measure(j) \/ Interrupted(j)
         \/ RestoreFails(j) \/ Finish(j) \/ Killed(j) \/ Collected(j)
         \/ PidReused(j) \/ StrayBegins(j) \/ StrayEnds(j)
  PROVE  Steady
<1> USE DEF TypeOK, ReceiptsNeedRoots, Steady, NotYet, OverAndDone, Goto, receiptVars,
        jobVars
<1>0. /\ ledger \subseteq made /\ (pc[j] # "absent" => proc[j] # "none")
      /\ \A k \in stray : Root[k] \in made
  BY DEF QueuedInOrder
<1>1. CASE PredecessorGone(j)
  BY <1>0, <1>1 DEF PredecessorGone
<1>2. ASSUME NEW how, End(j, how), pc[j] # "absent",
             UNCHANGED <<created, receiptVars, prod>>,
             stray' = stray \/ (pc[j] = "gpu" /\ stray' = stray \cup {j})
      PROVE  Steady
  BY <1>0, <1>2 DEF End
<1>3. CASE Refuse(j) \/ NothingToResume(j) \/ RefusePause(j) \/ RestoreFails(j)
             \/ Finish(j) \/ Killed(j)
  BY <1>2, <1>3 DEF Refuse, NothingToResume, RefusePause, RestoreFails, Finish,
     Killed
<1>4. CASE Announce(j)
  BY <1>0, <1>4 DEF Announce
<1>5. CASE PhaseBegins(j)
  BY <1>0, <1>5 DEF PhaseBegins
<1>6. CASE Measure(j)
  BY <1>0, <1>6 DEF Measure
<1>7. CASE Interrupted(j)
  BY <1>0, <1>7 DEF Interrupted
<1>8. CASE Collected(j)
  BY <1>0, <1>8 DEF Collected
<1>9. CASE PidReused(j)
  BY <1>0, <1>9 DEF PidReused
<1>10. CASE StrayBegins(j)
  BY <1>0, <1>10 DEF StrayBegins
<1>11. CASE StrayEnds(j)
  BY <1>0, <1>11 DEF StrayEnds
<1> QED
  BY <1>1, <1>3, <1>4, <1>5, <1>6, <1>7, <1>8, <1>9, <1>10, <1>11

LEMMA SteadyKeeps ==
  ASSUME IInv, TypeOK', Steady
  PROVE  IInv'
<1> USE DEF IInv, Steady
<1>0. \A j \in Jobs : Root[j] \in Jobs
  BY RootAssumption
<1>1. ReceiptsNeedRoots'
  BY <1>0 DEF ReceiptsNeedRoots, NotYet
<1>2. QueuedInOrder'
  <2>1. \A j \in Jobs : j > 1 => j - 1 \in Jobs
    BY ChainAssumption DEF Jobs
  <2> QED BY <2>1 DEF QueuedInOrder
<1>3. NobodyOvertakes'
  BY DEF NobodyOvertakes
<1>4. EarlierAreOver'
  BY DEF EarlierAreOver, Strict
<1>5. ReceiptsTellTheTruth'
  BY StrictPredecessor DEF ReceiptsTellTheTruth, Strict
<1> QED BY <1>1, <1>2, <1>3, <1>4, <1>5

\* Nobody from a strict battery on is past its gate before that battery is.
LEMMA GateKeepsOrder ==
  ASSUME IInv, NEW k \in Jobs, k > 1, Gate(k),
         NEW j \in Jobs, Kind[j] # "resume", j \notin made, j < k
  PROVE  FALSE
<1>1. k - 1 \in Jobs /\ Root[k - 1] \in made /\ j <= k - 1
  BY GateNeedsRoot DEF IInv, Jobs
<1>2. Root[k - 1] \in Jobs /\ j <= Root[k - 1]
  BY <1>1, RootsFollow
<1> QED BY <1>1, <1>2 DEF IInv, NobodyOvertakes

\* The receipts that open a strict gate: all before it are over, and
\* production is up.
LEMMA StrictGateOpens ==
  ASSUME IInv, NEW j \in Jobs, Strict(j), pc[j] = "gate", Gate(j),
         j \notin made
  PROVE  prod = "up" /\ \A k \in Jobs : k < j => OverAndDone(k)
<1>1. /\ j > 1 /\ j - 1 \in Jobs /\ Root[j - 1] = j - 1
      /\ (j - 1 # 1 => Strict(j - 1))
  BY StrictPredecessor
<1>2. /\ executed[j - 1] >= created[j - 1] /\ restored[j - 1] >= executed[j - 1]
      /\ executed[j - 1] # 0
  BY <1>1 DEF Gate, ExecutedThenRestored, Strict
<1>3. pc[j - 1] # "absent"
  BY <1>1 DEF IInv, QueuedInOrder
<1>4. OverAndDone(j - 1) /\ prod = "up"
  BY <1>2, <1>3 DEF IInv, ReceiptsTellTheTruth
<1>5. j - 1 \in made
  BY <1>1, <1>2 DEF IInv, ReceiptsNeedRoots
<1>6. ASSUME NEW k \in Jobs, k < j PROVE OverAndDone(k)
  <2>1. k = j - 1 \/ (k < j - 1 /\ j - 1 # 1)
    BY <1>6 DEF Jobs
  <2>2. CASE k = j - 1
    BY <1>4, <2>2
  <2>3. CASE k < j - 1 /\ j - 1 # 1
    BY <1>1, <1>5, <2>3 DEF IInv, EarlierAreOver
  <2> QED BY <2>1, <2>2, <2>3
<1> QED BY <1>4, <1>6

LEMMA QueueKeeps ==
  ASSUME IInv, TypeOK', NEW j \in Jobs, Queue(j)
  PROVE  IInv'
<1> USE DEF Queue, Goto, receiptVars, Tick, Now
<1>0. TypeOK /\ j \in Nat /\ (j = 1 \/ j > 1) /\ \A k \in Jobs : Root[k] \in Jobs
  BY RootAssumption DEF IInv, Jobs
<1>1. ReceiptsNeedRoots'
  <2>1. Kind[j] = "resume" => Root[j] \in made
    BY DEF IInv, ReceiptsNeedRoots
  <2>2. j = 1 => Root[j] = 1
    BY ChainAssumption, RootAssumption
  <2> QED BY <1>0, <2>1, <2>2 DEF IInv, ReceiptsNeedRoots, NotYet, TypeOK
<1>2. QueuedInOrder'
  <2>1. \A k \in Jobs : k > 1 => k - 1 \in Jobs /\ k - 1 # k
    BY ChainAssumption DEF Jobs
  <2>2. j > 1 => pc[j - 1] # "absent"
    BY <2>1 DEF IInv, QueuedInOrder
  <2> QED BY <1>0, <2>1, <2>2 DEF IInv, QueuedInOrder, TypeOK
<1>3. NobodyOvertakes'
  <2>1. 1 \in made
    BY DEF IInv, ReceiptsNeedRoots
  <2>2. \A i \in Jobs : i <= j /\ j = 1 => i = 1
    BY DEF Jobs
  <2>3. ASSUME NEW i \in Jobs, Kind[i] # "resume", i \notin made, i <= j,
               Kind[j] = "resume"
        PROVE  FALSE
    <3>1. Root[j] \in made /\ Root[j] \in Jobs /\ i <= Root[j]
      BY <2>3, RootsFollow DEF IInv, ReceiptsNeedRoots
    <3> QED BY <2>3, <3>1 DEF IInv, NobodyOvertakes
  <2>4. \A k \in Jobs : k # j => NotYet(k)' = NotYet(k)
    BY <1>0 DEF NotYet, TypeOK
  <2>5. Kind[j] # "resume" /\ j # 1 => NotYet(j)'
    BY <1>0 DEF NotYet, TypeOK
  <2> QED BY <2>1, <2>2, <2>3, <2>4, <2>5 DEF IInv, NobodyOvertakes
<1>4. EarlierAreOver'
  BY <1>0 DEF IInv, EarlierAreOver, OverAndDone, Strict, TypeOK
<1>5. ReceiptsTellTheTruth'
  <2> SUFFICES ASSUME NEW i \in Jobs, Strict(i), pc'[i - 1] # "absent",
                      executed[i - 1] >= created'[i - 1]
               PROVE  /\ pc'[i - 1] \in {"restore", "after", "ended"}
                      /\ restored[i - 1] >= executed[i - 1] =>
                           OverAndDone(i - 1)' /\ (i \notin made => prod = "up")
    BY DEF ReceiptsTellTheTruth, Strict
  <2>1. i - 1 \in Jobs
    BY StrictPredecessor
  <2>2. i - 1 # j
    BY <1>0, <2>1 DEF TypeOK
  <2>3. pc'[i - 1] = pc[i - 1] /\ created'[i - 1] = created[i - 1]
    BY <1>0, <2>1, <2>2 DEF TypeOK
  <2> QED BY <2>3 DEF IInv, ReceiptsTellTheTruth, OverAndDone
<1> QED BY <1>1, <1>2, <1>3, <1>4, <1>5 DEF IInv

LEMMA PassGateKeeps ==
  ASSUME IInv, TypeOK', NEW j \in Jobs, PassGate(j)
  PROVE  IInv'
<1> USE DEF PassGate, Goto
<1>0. /\ TypeOK /\ j \in Nat /\ Root[j] = j /\ Kind[j] # "resume"
      /\ \A k \in Jobs : Root[k] \in Jobs
  BY RootAssumption DEF IInv, Jobs, Fresh
<1>1. j > 1
  BY <1>0 DEF IInv, ReceiptsNeedRoots, Jobs
<1>2. ReceiptsNeedRoots'
  BY <1>0 DEF IInv, ReceiptsNeedRoots, NotYet, TypeOK
<1>3. QueuedInOrder'
  <2>1. \A k \in Jobs : k > 1 => k - 1 \in Jobs
    BY ChainAssumption DEF Jobs
  <2> QED BY <1>0, <2>1 DEF IInv, QueuedInOrder, TypeOK
<1>4. NobodyOvertakes'
  <2> SUFFICES ASSUME NEW i \in Jobs, NEW k \in Jobs, Kind[i] # "resume",
                      i \notin made', i <= k
               PROVE  k \notin made' /\ NotYet(k)'
    BY DEF NobodyOvertakes
  <2>1. k \notin made /\ NotYet(k) /\ i # j /\ i \notin made
    BY <1>0 DEF IInv, NobodyOvertakes
  <2>2. k # j
    <3>1. k = j => i < j
      BY <2>1 DEF Jobs
    <3> QED BY <1>1, <2>1, <3>1, GateKeepsOrder
  <2> QED BY <1>0, <2>1, <2>2 DEF NotYet, TypeOK
<1>5. EarlierAreOver'
  <2> SUFFICES ASSUME NEW i \in Jobs, NEW k \in Jobs, Strict(i), i \in made',
                      k < i
               PROVE  OverAndDone(k)'
    BY DEF EarlierAreOver, Strict
  <2>1. OverAndDone(k)
    <3>1. CASE i = j
      BY <1>0, <3>1, StrictGateOpens
    <3>2. CASE i # j
      BY <1>0, <3>2 DEF IInv, EarlierAreOver
    <3> QED BY <3>1, <3>2
  <2> QED BY <1>0, <2>1 DEF OverAndDone, TypeOK
<1>6. ReceiptsTellTheTruth'
  <2> SUFFICES ASSUME NEW i \in Jobs, Strict(i), pc'[i - 1] # "absent",
                      executed[i - 1] >= created[i - 1]
               PROVE  /\ pc'[i - 1] \in {"restore", "after", "ended"}
                      /\ restored[i - 1] >= executed[i - 1] =>
                           OverAndDone(i - 1)' /\ (i \notin made' => prod = "up")
    BY DEF ReceiptsTellTheTruth, Strict
  <2>1. i - 1 \in Jobs
    BY StrictPredecessor
  <2>2. pc[i - 1] # "absent"
    BY <1>0, <2>1 DEF TypeOK
  <2>3. pc[i - 1] \in {"restore", "after", "ended"}
    BY <2>2 DEF IInv, ReceiptsTellTheTruth
  <2>4. pc'[i - 1] = pc[i - 1]
    BY <1>0, <2>1, <2>3 DEF TypeOK
  <2> QED BY <1>0, <2>2, <2>4 DEF IInv, ReceiptsTellTheTruth, OverAndDone
<1> QED BY <1>2, <1>3, <1>4, <1>5, <1>6 DEF IInv

LEMMA PassResumeGateKeeps ==
  ASSUME IInv, TypeOK', NEW j \in Jobs, PassResumeGate(j)
  PROVE  IInv'
<1> USE DEF PassResumeGate, Goto, receiptVars
<1>0. TypeOK /\ j \in Nat /\ \A k \in Jobs : Root[k] \in Jobs
  BY RootAssumption DEF IInv, Jobs
<1>1. j > 1
  BY <1>0, ChainAssumption DEF Jobs
<1>2. ReceiptsNeedRoots'
  BY <1>0 DEF IInv, ReceiptsNeedRoots, NotYet, TypeOK
<1>3. QueuedInOrder'
  <2>1. \A k \in Jobs : k > 1 => k - 1 \in Jobs
    BY ChainAssumption DEF Jobs
  <2> QED BY <1>0, <2>1 DEF IInv, QueuedInOrder, TypeOK
<1>4. NobodyOvertakes'
  <2> SUFFICES ASSUME NEW i \in Jobs, NEW k \in Jobs, Kind[i] # "resume",
                      i \notin made, i <= k
               PROVE  k \notin made /\ NotYet(k)'
    BY DEF NobodyOvertakes
  <2>1. k \notin made /\ NotYet(k)
    BY <1>0 DEF IInv, NobodyOvertakes
  <2>2. k # j
    <3>1. k = j => i < j
      BY DEF Jobs
    <3> QED BY <1>1, <3>1, GateKeepsOrder
  <2> QED BY <1>0, <2>1, <2>2 DEF NotYet, TypeOK
<1>5. EarlierAreOver'
  BY <1>0 DEF IInv, EarlierAreOver, OverAndDone, Strict, TypeOK
<1>6. ReceiptsTellTheTruth'
  BY <1>0, StrictPredecessor
  DEF IInv, ReceiptsTellTheTruth, OverAndDone, Strict, TypeOK
<1> QED BY <1>2, <1>3, <1>4, <1>5, <1>6 DEF IInv

LEMMA PauseKeeps ==
  ASSUME IInv, TypeOK', NEW j \in Jobs, Pause(j)
  PROVE  IInv'
<1> USE DEF Pause, Goto, receiptVars
<1>0. TypeOK /\ j \in Nat /\ \A k \in Jobs : Root[k] \in Jobs
  BY RootAssumption DEF IInv, Jobs
<1>2. ReceiptsNeedRoots'
  BY <1>0 DEF IInv, ReceiptsNeedRoots, NotYet, TypeOK
<1>3. QueuedInOrder'
  <2>1. \A k \in Jobs : k > 1 => k - 1 \in Jobs
    BY ChainAssumption DEF Jobs
  <2> QED BY <1>0, <2>1 DEF IInv, QueuedInOrder, TypeOK
<1>4. NobodyOvertakes'
  BY <1>0 DEF IInv, NobodyOvertakes, NotYet, TypeOK
<1>5. EarlierAreOver'
  BY <1>0 DEF IInv, EarlierAreOver, OverAndDone, Strict, TypeOK
<1>6. ReceiptsTellTheTruth'
  <2> SUFFICES ASSUME NEW i \in Jobs, Strict(i), pc'[i - 1] # "absent",
                      executed[i - 1] >= created[i - 1]
               PROVE  /\ pc'[i - 1] \in {"restore", "after", "ended"}
                      /\ restored[i - 1] >= executed[i - 1] =>
                           OverAndDone(i - 1)' /\ i \in made
    BY DEF ReceiptsTellTheTruth, Strict
  <2>1. /\ i - 1 \in Jobs /\ i > 1 /\ Kind[i] # "resume"
        /\ (i - 1 # 1 => Strict(i - 1))
    BY StrictPredecessor DEF Strict
  <2>2. pc[i - 1] # "absent"
    BY <1>0, <2>1 DEF TypeOK
  <2>3. pc[i - 1] \in {"restore", "after", "ended"}
    BY <2>2 DEF IInv, ReceiptsTellTheTruth
  <2>4. pc'[i - 1] = pc[i - 1] /\ i - 1 # j
    BY <1>0, <2>1, <2>3 DEF TypeOK
  <2>5. ASSUME restored[i - 1] >= executed[i - 1], i \notin made PROVE FALSE
    <3>1. j < i
      <4>1. j <= i \/ i <= j
        BY DEF Jobs
      <4>2. ~ (i <= j)
        BY <2>1, <2>5 DEF IInv, NobodyOvertakes, NotYet
      <4> QED BY <4>1, <4>2 DEF Jobs
    <3>2. executed[i - 1] # 0
      <4>1. created[i - 1] >= 1
        BY <2>1, <2>2 DEF IInv, QueuedInOrder
      <4>2. created[i - 1] \in Nat /\ executed[i - 1] \in Nat
        BY <1>0, <2>1 DEF TypeOK
      <4> QED BY <4>1, <4>2
    <3>3. i - 1 \in made
      BY <2>1, <3>2 DEF IInv, ReceiptsNeedRoots
    <3>4. j < i - 1 /\ i - 1 # 1
      BY <2>4, <3>1 DEF Jobs
    <3>5. OverAndDone(j)
      BY <2>1, <3>3, <3>4 DEF IInv, EarlierAreOver
    <3> QED BY <3>5 DEF OverAndDone
  <2> QED BY <2>2, <2>4, <2>5 DEF IInv, ReceiptsTellTheTruth, OverAndDone
<1> QED BY <1>2, <1>3, <1>4, <1>5, <1>6 DEF IInv

LEMMA WriteExecutedKeeps ==
  ASSUME IInv, TypeOK', NEW j \in Jobs, WriteExecuted(j)
  PROVE  IInv'
<1> USE DEF WriteExecuted, Goto, Tick, Now
<1>0. TypeOK /\ j \in Nat /\ \A k \in Jobs : Root[k] \in Jobs
  BY RootAssumption DEF IInv, Jobs
<1>2. ReceiptsNeedRoots'
  BY <1>0 DEF IInv, ReceiptsNeedRoots, NotYet, TypeOK
<1>3. QueuedInOrder'
  <2>1. \A k \in Jobs : k > 1 => k - 1 \in Jobs
    BY ChainAssumption DEF Jobs
  <2> QED BY <1>0, <2>1 DEF IInv, QueuedInOrder, TypeOK
<1>4. NobodyOvertakes'
  BY <1>0 DEF IInv, NobodyOvertakes, NotYet, TypeOK
<1>5. EarlierAreOver'
  BY <1>0 DEF IInv, EarlierAreOver, OverAndDone, Strict, TypeOK
<1>6. ReceiptsTellTheTruth'
  <2> SUFFICES ASSUME NEW i \in Jobs, Strict(i), pc'[i - 1] # "absent",
                      executed'[i - 1] >= created[i - 1]
               PROVE  /\ pc'[i - 1] \in {"restore", "after", "ended"}
                      /\ restored[i - 1] >= executed'[i - 1] =>
                           OverAndDone(i - 1)' /\ (i \notin made => prod = "up")
    BY DEF ReceiptsTellTheTruth, Strict
  <2>1. i - 1 \in Jobs /\ Root[i - 1] = i - 1
    BY StrictPredecessor
  <2>2. CASE Root[j] = i - 1
    <3>1. j = i - 1
      BY <2>2, RootOwner
    <3>2. pc'[i - 1] = "restore" /\ executed'[i - 1] = clock + 1
      BY <1>0, <2>1, <3>1 DEF TypeOK
    <3>3. restored[i - 1] <= clock /\ restored[i - 1] \in Nat /\ clock \in Nat
      BY <1>0, <2>1 DEF TypeOK
    <3> QED BY <3>2, <3>3
  <2>3. CASE Root[j] # i - 1
    <3>1. executed'[i - 1] = executed[i - 1] /\ i - 1 # j
      BY <1>0, <2>1, <2>3 DEF TypeOK
    <3>2. pc'[i - 1] = pc[i - 1]
      BY <1>0, <2>1, <3>1 DEF TypeOK
    <3> QED BY <3>1, <3>2 DEF IInv, ReceiptsTellTheTruth, OverAndDone
  <2> QED BY <2>2, <2>3
<1> QED BY <1>2, <1>3, <1>4, <1>5, <1>6 DEF IInv

LEMMA RestoreKeeps ==
  ASSUME IInv, TypeOK', NEW j \in Jobs, Restore(j)
  PROVE  IInv'
<1> USE DEF Restore, Goto, Tick, Now
<1>0. TypeOK /\ j \in Nat /\ \A k \in Jobs : Root[k] \in Jobs
  BY RootAssumption DEF IInv, Jobs
<1>1. PICK q \in {"after", "ended"} :
        /\ pc' = [pc EXCEPT ![j] = q]
        /\ \A k \in Jobs : proc[k] # "none" => proc'[k] # "none"
        /\ \A k \in Jobs : k # j => proc'[k] = proc[k]
  BY <1>0 DEF End, TypeOK
<1>2. ReceiptsNeedRoots'
  <2>1. Root[j] \in made
    BY DEF IInv, ReceiptsNeedRoots, NotYet
  <2>2. \A k \in Jobs : pc[k] = pc'[k] \/ k = j
    BY <1>0, <1>1 DEF TypeOK
  <2>3. \A r \in Jobs : r \notin made => restored'[r] = restored[r]
    BY <1>0, <2>1 DEF TypeOK
  <2> QED
    BY <2>1, <2>2, <2>3 DEF IInv, ReceiptsNeedRoots, NotYet
<1>3. QueuedInOrder'
  <2>1. \A k \in Jobs : k > 1 => k - 1 \in Jobs
    BY ChainAssumption DEF Jobs
  <2> QED BY <1>0, <1>1, <2>1 DEF IInv, QueuedInOrder, TypeOK
<1>4. NobodyOvertakes'
  BY <1>0, <1>1 DEF IInv, NobodyOvertakes, NotYet, TypeOK
<1>5. EarlierAreOver'
  BY <1>0, <1>1 DEF IInv, EarlierAreOver, OverAndDone, Strict, TypeOK
<1>6. ReceiptsTellTheTruth'
  <2> SUFFICES ASSUME NEW i \in Jobs, Strict(i), pc'[i - 1] # "absent",
                      executed[i - 1] >= created[i - 1]
               PROVE  /\ pc'[i - 1] \in {"restore", "after", "ended"}
                      /\ restored'[i - 1] >= executed[i - 1] =>
                           OverAndDone(i - 1)'
    BY DEF ReceiptsTellTheTruth, Strict
  <2>1. i - 1 \in Jobs /\ Root[i - 1] = i - 1
    BY StrictPredecessor
  <2>2. CASE j = i - 1
    BY <1>0, <1>1, <2>1, <2>2 DEF TypeOK, OverAndDone
  <2>3. CASE j # i - 1
    <3>1. Root[j] # i - 1
      BY <2>3, RootOwner
    <3>2. restored'[i - 1] = restored[i - 1] /\ pc'[i - 1] = pc[i - 1]
      BY <1>0, <1>1, <2>1, <2>3, <3>1 DEF TypeOK
    <3> QED BY <3>2 DEF IInv, ReceiptsTellTheTruth, OverAndDone
  <2> QED BY <2>2, <2>3
<1> QED BY <1>2, <1>3, <1>4, <1>5, <1>6 DEF IInv

LEMMA InvInit == Init => IInv
<1> SUFFICES ASSUME Init PROVE IInv
  OBVIOUS
<1>1. TypeOK
  BY TypeInit
<1>2. 1 \in Jobs /\ Count \in Nat /\ \A j \in Jobs : Root[j] \in Jobs /\ j \in Nat
  BY ChainAssumption, RootAssumption DEF Jobs
<1>3. ReceiptsNeedRoots /\ QueuedInOrder /\ NobodyOvertakes
  BY <1>2 DEF Init, ReceiptsNeedRoots, QueuedInOrder, NobodyOvertakes, NotYet,
     Jobs
<1>4. EarlierAreOver
  BY <1>2 DEF Init, EarlierAreOver, Jobs
<1>5. ReceiptsTellTheTruth
  BY StrictPredecessor DEF Init, ReceiptsTellTheTruth
<1> QED BY <1>1, <1>3, <1>4, <1>5 DEF IInv

LEMMA InvStep == IInv /\ [Next]_vars => IInv'
<1> SUFFICES ASSUME IInv, [Next]_vars PROVE IInv'
  OBVIOUS
<1>1. TypeOK' /\ TypeOK /\ ReceiptsNeedRoots /\ QueuedInOrder
  BY TypeStep DEF IInv
<1>2. ASSUME NEW j \in Jobs,
             \/ PredecessorGone(j) \/ Refuse(j) \/ NothingToResume(j)
             \/ Announce(j) \/ RefusePause(j) \/ PhaseBegins(j) \/ Measure(j)
             \/ Interrupted(j) \/ RestoreFails(j) \/ Finish(j) \/ Killed(j)
             \/ Collected(j) \/ PidReused(j) \/ StrayBegins(j)
             \/ StrayEnds(j)
      PROVE  IInv'
  BY <1>1, <1>2, SteadySteps, SteadyKeeps
<1>3. ASSUME NEW j \in Jobs,
             \/ Queue(j) \/ PassGate(j) \/ PassResumeGate(j) \/ Pause(j)
             \/ WriteExecuted(j) \/ Restore(j)
      PROVE  IInv'
  BY <1>1, <1>3, QueueKeeps, PassGateKeeps, PassResumeGateKeeps, PauseKeeps,
     WriteExecutedKeeps, RestoreKeeps
<1>4. CASE StartedByHand
  BY <1>1, <1>4 DEF StartedByHand, IInv, ReceiptsNeedRoots, QueuedInOrder,
     NobodyOvertakes, EarlierAreOver, ReceiptsTellTheTruth, OverAndDone, NotYet,
     Strict, jobVars, receiptVars
<1>5. CASE UNCHANGED vars
  <2>1. Steady
    BY <1>1, <1>5 DEF Steady, vars, jobVars, receiptVars, ReceiptsNeedRoots,
       NotYet, OverAndDone
  <2> QED BY <1>1, <2>1, SteadyKeeps
<1> QED BY <1>2, <1>3, <1>4, <1>5 DEF Next, Advance, Over

\* TypeOK holds of every chain, the times of the receipts included: none is
\* later than the clock.
THEOREM TypeCorrect == Spec => []TypeOK
<1>1. IInv => TypeOK
  BY DEF IInv
<1> QED
  BY <1>1, InvInit, InvStep, PTL DEF Spec

\* Whoever passes the gate of the followups or of the clean reruns finds
\* production restored, in every chain, whoever is interrupted or killed.
THEOREM StrictGateRestored == Spec => []StrictGateMeansRestored
<1>1. IInv => StrictGateMeansRestored
  <2> SUFFICES ASSUME IInv, NEW j \in Jobs, Strict(j), pc[j] = "gate", Gate(j),
                      Root[j] \notin made
               PROVE  prod = "up"
    BY DEF StrictGateMeansRestored, Strict
  <2>1. Root[j] = j
    BY StrictPredecessor
  <2> QED BY <2>1, StrictGateOpens
<1> QED
  BY <1>1, InvInit, InvStep, PTL DEF Spec

=============================================================================
