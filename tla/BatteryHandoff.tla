--------------------------- MODULE BatteryHandoff ---------------------------
(***************************************************************************)
(* The chain of batteries under scripts/r26: the full qualification, the   *)
(* followups (run_followups.py), the clean reruns (run_clean_reruns.py),   *)
(* their resumptions (resume_clean_reruns.py) and the R27 battery          *)
(* (run_r27_battery.py).  Each is a process that is queued while its       *)
(* predecessor still runs, waits for that process, identified by pid and   *)
(* creation time, to be gone, and then reads the receipts it left to       *)
(* decide whether the GPUs are its own.                                    *)
(*                                                                         *)
(* Only the receipts a successor reads are kept, with the times in them.   *)
(* Every stamped event takes the next value of the clock.  The run of the  *)
(* coordinator itself is module Qualification; here it stops production,   *)
(* measures, and restores production or fails to.                          *)
(***************************************************************************)
EXTENDS Naturals

CONSTANTS
  Count,      \* number of batteries in the chain
  Kind,       \* what each is
  Root        \* battery whose directory it writes: its own, or the resumed one

Jobs == 1 .. Count
Fresh == {"followups", "clean", "r27"}      \* output.mkdir(exist_ok=False)

ASSUME ChainAssumption ==
  /\ Count \in Nat \ {0}
  /\ Kind \in [Jobs -> {"full", "followups", "clean", "resume", "r27"}]
  /\ \A j \in Jobs : Kind[j] = "full" <=> j = 1
  /\ \A j \in Jobs : Kind[j] \in {"followups", "clean"} =>
       Kind[j - 1] \in {"full", "followups"}
\* A resumption writes the directory of the clean reruns it follows, which
\* only other resumptions may stand between.
ASSUME RootAssumption ==
  /\ Root \in [Jobs -> Jobs]
  /\ \A j \in Jobs : Kind[j] # "resume" => Root[j] = j
  /\ \A j \in Jobs : Kind[j] = "resume" =>
       /\ Root[j] < j /\ Kind[Root[j]] = "clean"
       /\ \A i \in Root[j] + 1 .. j : Kind[i] = "resume"

VARIABLES
  clock,      \* time of the latest stamped event
  pc,         \* where each battery is
  proc,       \* process table entry under its pid
  created,    \* psutil create_time of its process
  began,      \* attempt_started_at of a resumption
  raised,     \* an exception passes through its coordinator
  outcome,    \* how it ended
  made,       \* roots that exist
  ledger,     \* roots with a clean-rerun-plan.json
  executed,   \* per root, finished_at of qualification-executed.json, 0: none
  restored,   \* per root, timestamp of production-restored.json, 0: none
  completed,  \* per root, clean-rerun-completed.json
  prod,       \* the production server
  stray       \* batteries whose phase goes on without its coordinator

jobVars     == <<pc, proc, created, began, raised, outcome>>
receiptVars == <<made, ledger, executed, restored, completed>>
vars == <<clock, jobVars, receiptVars, prod, stray>>

Places == {"absent", "wait", "gate", "window", "drain", "gpu", "measured",
           "restore", "after", "ended"}
OnGpus(j) == pc[j] \in {"gpu", "measured", "restore"}
Receipts == [complete : BOOLEAN, at : Nat]

TypeOK ==
  /\ clock \in Nat
  /\ pc \in [Jobs -> Places]
  /\ proc \in [Jobs -> {"none", "alive", "zombie", "gone", "reused"}]
  /\ created \in [Jobs -> Nat] /\ began \in [Jobs -> Nat]
  /\ raised \in [Jobs -> BOOLEAN]
  /\ outcome \in [Jobs -> {"none", "complete", "failed"}]
  /\ made \subseteq Jobs /\ ledger \subseteq Jobs
  /\ executed \in [Jobs -> 0 .. clock] /\ restored \in [Jobs -> 0 .. clock]
  /\ completed \in [Jobs -> Receipts]
  /\ prod \in {"up", "down"}
  /\ stray \subseteq Jobs

\* The directory of the full qualification may hold an earlier run's receipts.
Init ==
  /\ clock = 2
  /\ pc = [j \in Jobs |-> "absent"] /\ proc = [j \in Jobs |-> "none"]
  /\ created = [j \in Jobs |-> 0] /\ began = [j \in Jobs |-> 0]
  /\ raised = [j \in Jobs |-> FALSE] /\ outcome = [j \in Jobs |-> "none"]
  /\ made = {1} /\ ledger = {}
  /\ \E e \in {0, 1} : executed = [j \in Jobs |-> IF j = 1 THEN e ELSE 0]
  /\ \E t \in {0, 2} : restored = [j \in Jobs |-> IF j = 1 THEN t ELSE 0]
  /\ completed = [j \in Jobs |-> [complete |-> FALSE, at |-> 0]]
  /\ prod = "up" /\ stray = {}

-----------------------------------------------------------------------------
(* Helpers.                                                                *)

Goto(j, p) == pc' = [pc EXCEPT ![j] = p]
Now == clock + 1
Tick == clock' = Now

\* The process ends; its parent may not have collected it yet.
End(j, how) ==
  /\ Goto(j, "ended")
  /\ outcome' = [outcome EXCEPT ![j] = how]
  /\ \E s \in {"zombie", "gone"} : proc' = [proc EXCEPT ![j] = s]

\* Mutant: any process under the pid is waited for.
Mutant_PidIsAlive(j) == proc[j] \in {"alive", "reused"}

\* psutil.Process(pid): same creation time, and not a zombie.
StillRunning(j) == proc[j] = "alive"

-----------------------------------------------------------------------------
(* What a successor asks of the receipts of the battery it waited for.     *)

\* Mutant: the two receipts are there.
Mutant_ReceiptsExist(j) ==
  executed[Root[j - 1]] # 0 /\ restored[Root[j - 1]] # 0

\* run_followups, run_clean_reruns: executed by that process, then restored.
ExecutedThenRestored(j) ==
  LET r == Root[j - 1] IN
    /\ executed[r] # 0 /\ restored[r] # 0
    /\ executed[r] >= created[j - 1]
    /\ restored[r] >= executed[r]

\* resume_clean_reruns: restored since the process was created.
RestoredSince(j) ==
  LET r == Root[j - 1] IN restored[r] # 0 /\ restored[r] >= created[j - 1]

\* ... and finished already, by that process.
CompletedSince(j) ==
  LET r == Root[j - 1] IN
    completed[r].complete /\ completed[r].at >= created[j - 1]

Gate(j) ==
  CASE Kind[j] \in {"followups", "clean"} -> ExecutedThenRestored(j)
    [] Kind[j] = "resume" -> RestoredSince(j)
    [] Kind[j] = "r27" -> CompletedSince(j) /\ RestoredSince(j)
    [] OTHER -> TRUE

-----------------------------------------------------------------------------
(* A battery, from its start to the coordinator.                           *)

\* Started by hand, in the order of their numbers: the first at once, a later
\* one with the pid and creation time of its predecessor.  A resumption may be
\* started without them, and then neither waits nor reads a receipt.
Queue(j) ==
  /\ pc[j] = "absent"
  /\ j > 1 => proc[j - 1] # "none"
  /\ Kind[j] = "resume" => Root[j] \in ledger
  /\ \/ Goto(j, IF j = 1 THEN "drain" ELSE "wait")
     \/ Kind[j] = "resume" /\ Goto(j, "window")
  /\ proc' = [proc EXCEPT ![j] = "alive"]
  /\ created' = [created EXCEPT ![j] = Now]
  /\ Tick
  /\ UNCHANGED <<began, raised, outcome, receiptVars, prod, stray>>

\* wait_for_process returns.
PredecessorGone(j) ==
  /\ pc[j] = "wait"
  /\ ~StillRunning(j - 1)
  /\ Goto(j, "gate")
  /\ UNCHANGED <<clock, proc, created, began, raised, outcome, receiptVars,
        prod, stray>>

Refuse(j) ==
  /\ pc[j] = "gate"
  /\ ~Gate(j) \/ (Kind[j] \in Fresh /\ Root[j] \in made)
  /\ End(j, "failed")
  /\ UNCHANGED <<clock, created, began, raised, receiptVars, prod, stray>>

PassGate(j) ==
  /\ pc[j] = "gate" /\ Gate(j)
  /\ Kind[j] \in Fresh
  /\ Root[j] \notin made
  /\ made' = made \cup {Root[j]}
  /\ Goto(j, "drain")
  /\ UNCHANGED <<clock, proc, created, began, raised, outcome, ledger,
        executed, restored, completed, prod, stray>>

\* A resumption with nothing left to do says so and returns.
NothingToResume(j) ==
  /\ pc[j] = "gate" /\ Gate(j)
  /\ Kind[j] = "resume" /\ CompletedSince(j)
  /\ End(j, "complete")
  /\ UNCHANGED <<clock, created, began, raised, receiptVars, prod, stray>>

PassResumeGate(j) ==
  /\ pc[j] = "gate" /\ Gate(j)
  /\ Kind[j] = "resume" /\ ~CompletedSince(j)
  /\ Goto(j, "window")
  /\ UNCHANGED <<clock, proc, created, began, raised, outcome, receiptVars,
        prod, stray>>

\* wait_for_window has seen 30 seconds without foreign GPU processes, as there
\* are between two boots of another phase too; the receipts are archived, the
\* completion receipt is taken back.
Announce(j) ==
  /\ pc[j] = "window"
  /\ completed' = [completed EXCEPT ![Root[j]] = [complete |-> FALSE, at |-> 0]]
  /\ began' = [began EXCEPT ![j] = Now]
  /\ Tick
  /\ Goto(j, "drain")
  /\ UNCHANGED <<proc, created, raised, outcome, made, ledger, executed,
        restored, prod, stray>>

-----------------------------------------------------------------------------
(* The coordinator.                                                        *)

\* Production answers, is idle and running: it is stopped.
Pause(j) ==
  /\ pc[j] = "drain" /\ prod = "up"
  /\ Goto(j, "gpu")
  /\ prod' = "down"
  /\ UNCHANGED <<clock, proc, created, began, raised, outcome, receiptVars,
        stray>>

\* Busy, down, or the GPUs need recovery: nothing was stopped.
RefusePause(j) ==
  /\ pc[j] = "drain"
  /\ End(j, "failed")
  /\ UNCHANGED <<clock, created, began, raised, receiptVars, prod, stray>>

\* The clean phase has begun: it writes its ledger.
PhaseBegins(j) ==
  /\ pc[j] = "gpu" /\ Kind[j] = "clean"
  /\ Root[j] \notin ledger
  /\ ledger' = ledger \cup {Root[j]}
  /\ UNCHANGED <<clock, jobVars, made, executed, restored, completed, prod,
        stray>>

\* The clean phase leaves its own completion receipt, unless it failed before.
LeavesCompletion(j) ==
  \/ /\ Kind[j] \in {"clean", "resume"} /\ Root[j] \in ledger
     /\ Tick
     /\ \E c \in BOOLEAN :
          completed' = [completed EXCEPT ![Root[j]] =
                          [complete |-> c, at |-> Now]]
  \/ UNCHANGED <<clock, completed>>

\* The phases are over.
Measure(j) ==
  /\ pc[j] = "gpu"
  /\ Goto(j, "measured")
  /\ LeavesCompletion(j)
  /\ UNCHANGED <<proc, created, began, raised, outcome, made, ledger,
        executed, restored, prod, stray>>

\* Mutant: the receipt carries the deadline of the phase, not the time.
Mutant_DeadlineAsFinish(j) ==
  /\ pc[j] = "measured"
  /\ executed' = [executed EXCEPT ![Root[j]] = Now + 1]
  /\ Tick
  /\ Goto(j, "restore")
  /\ UNCHANGED <<proc, created, began, raised, outcome, made, ledger,
        restored, completed, prod, stray>>

WriteExecuted(j) ==
  /\ pc[j] = "measured"
  /\ executed' = [executed EXCEPT ![Root[j]] = Now]
  /\ Tick
  /\ Goto(j, "restore")
  /\ UNCHANGED <<proc, created, began, raised, outcome, made, ledger,
        restored, completed, prod, stray>>

\* An interrupt or an error on the way: the exception passes through finally.
Interrupted(j) ==
  /\ pc[j] \in {"gpu", "measured"}
  /\ raised' = [raised EXCEPT ![j] = TRUE]
  /\ Goto(j, "restore")
  /\ UNCHANGED <<clock, proc, created, began, outcome, receiptVars, prod,
        stray>>

\* restore_production: serving again, and the receipt says so.
Restore(j) ==
  /\ pc[j] = "restore"
  /\ prod' = "up"
  /\ restored' = [restored EXCEPT ![Root[j]] = Now]
  /\ Tick
  /\ \/ /\ ~raised[j]
        /\ Goto(j, "after")
        /\ UNCHANGED <<proc, outcome>>
     \/ End(j, "failed")
  /\ UNCHANGED <<created, began, raised, made, ledger, executed, completed,
        stray>>

\* restore_production raises and leaves no receipt: what was there stays.
RestoreFails(j) ==
  /\ pc[j] = "restore"
  /\ End(j, "failed")
  /\ UNCHANGED <<clock, created, began, raised, receiptVars, prod, stray>>

\* coordinator.main has returned; a resumption looks at the phase's receipt.
Finish(j) ==
  /\ pc[j] = "after"
  /\ \/ /\ Kind[j] = "resume" => /\ completed[Root[j]].complete
                                 /\ completed[Root[j]].at >= began[j]
        /\ End(j, "complete")
     \/ /\ Kind[j] = "resume" => ~ (/\ completed[Root[j]].complete
                                    /\ completed[Root[j]].at >= began[j])
        /\ Kind[j] \in {"resume", "r27"}
        /\ End(j, "failed")
  /\ UNCHANGED <<clock, created, began, raised, receiptVars, prod, stray>>

-----------------------------------------------------------------------------
(* The outside world.                                                      *)

\* SIGKILL, or the interpreter dies.  The phase is in a session of its own, and
\* goes on with its test container if it has not ended.
Killed(j) ==
  /\ pc[j] \notin {"absent", "ended"}
  /\ End(j, "failed")
  /\ \/ UNCHANGED stray
     \/ pc[j] = "gpu" /\ stray' = stray \cup {j}
  /\ UNCHANGED <<clock, created, began, raised, receiptVars, prod>>

\* A phase without its coordinator writes its ledger...
StrayBegins(j) ==
  /\ j \in stray /\ Kind[j] = "clean" /\ Root[j] \notin ledger
  /\ ledger' = ledger \cup {Root[j]}
  /\ UNCHANGED <<clock, jobVars, made, executed, restored, completed, prod,
        stray>>

\* ... and ends, with or without a completion receipt.
StrayEnds(j) ==
  /\ j \in stray
  /\ stray' = stray \ {j}
  /\ LeavesCompletion(j)
  /\ UNCHANGED <<jobVars, made, ledger, executed, restored, prod>>

\* The parent collects a zombie.
Collected(j) ==
  /\ proc[j] = "zombie"
  /\ proc' = [proc EXCEPT ![j] = "gone"]
  /\ UNCHANGED <<clock, pc, created, began, raised, outcome, receiptVars,
        prod, stray>>

\* The kernel gives the pid to another process.
PidReused(j) ==
  /\ proc[j] = "gone"
  /\ proc' = [proc EXCEPT ![j] = "reused"]
  /\ UNCHANGED <<clock, pc, created, began, raised, outcome, receiptVars,
        prod, stray>>

\* Somebody starts production by hand after a battery that left it down.
StartedByHand ==
  /\ prod = "down" /\ \A j \in Jobs : ~OnGpus(j)
  /\ prod' = "up"
  /\ UNCHANGED <<clock, jobVars, receiptVars, stray>>

Advance(j) ==
  \/ PredecessorGone(j) \/ Refuse(j) \/ PassGate(j) \/ NothingToResume(j)
  \/ PassResumeGate(j) \/ Announce(j) \/ Pause(j) \/ RefusePause(j)
  \/ PhaseBegins(j) \/ Measure(j) \/ WriteExecuted(j) \/ Interrupted(j)
  \/ Restore(j) \/ RestoreFails(j) \/ Finish(j)

\* Nothing is under way.
Over ==
  /\ \A j \in Jobs : pc[j] \in {"absent", "ended"}
  /\ stray = {}
  /\ UNCHANGED vars

Next ==
  \/ \E j \in Jobs : Queue(j) \/ Advance(j) \/ Killed(j) \/ Collected(j)
                       \/ PidReused(j) \/ StrayBegins(j) \/ StrayEnds(j)
  \/ StartedByHand
  \/ Over

Spec == Init /\ [][Next]_vars

\* A queued process runs on.
FairSpec == Spec /\ \A j \in Jobs : WF_vars(Advance(j))

-----------------------------------------------------------------------------

\* Whoever passes the gate of the followups or of the clean reruns finds
\* production restored by the battery before it, whatever older receipts its
\* directory holds: "Upstream receipts are stale; refusing an unrelated GPU
\* launch".
StrictGateMeansRestored ==
  \A j \in Jobs :
    /\ Kind[j] \in {"followups", "clean"} /\ pc[j] = "gate" /\ Gate(j)
    /\ Root[j] \notin made
    => prod = "up"

\* "Run the pinned R27 decision battery only after R26 completes and restores
\* service": the gate of R27 is passed with production serving.
R27GateMeansRestored ==
  \A j \in Jobs :
    Kind[j] = "r27" /\ pc[j] = "gate" /\ Gate(j) => prod = "up"

\* A queued battery comes to its turn, whatever became of the one before it.
TurnComes ==
  \A j \in Jobs : (j > 1 /\ pc[j] = "wait") ~> (pc[j] # "wait")
=============================================================================
