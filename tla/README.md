# The GPU field lab, in TLA+

This directory models the programs under `src/scripts` that take two GPUs away
from a production server, measure test servers on them for hours or days, and
give the GPUs back. The numbers they publish are worth something only if nothing
else ran on the GPUs, if each result belongs to the configuration it is filed
under, and if a crash in the middle never passes for a completed measurement.
The production server has to come back whatever happens. That is what the
modules here state, TLC checks on small instances, and TLAPS proves for every
value of the constants.

Contents: [the system](#the-system), [the modules](#the-modules),
[the runs](#the-runs), [the proofs](#the-proofs),
[disagreements](#where-the-code-does-not-do-what-it-says),
[what is not modelled](#what-is-not-modelled), [the plan](#the-plan).

## The system

| component | state it keeps | operations | what makes it correct |
|---|---|---|---|
| **Qualification coordinator** `r26/run_qualification.py`, `r26/runtime.py` | production and test containers, receipts, signal handlers, the phase process | wait for idle, pause production, run phases one after the other, stop the test container after each, restore production | production and a test server never share the GPUs; production comes back; the restore receipt is true |
| **GPU isolation monitor** (a thread of the coordinator) | identities of the battery's own workers, the sample before | sample `nvidia-smi`, `docker top`, psutil; interrupt the main thread | a stranger on the GPUs is noticed, a worker is not taken for one |
| **Battery chain** `run_followups`, `run_clean_reruns`, `resume_clean_reruns`, `run_r27_battery` | receipts with times, processes known by pid and creation time | wait for a process to be gone, read its receipts, go ahead or refuse | a battery begins behind its predecessor's restored production only, and each one's turn comes |
| **Clean reruns** `clean_rerun_phase.py` | ledger, completion receipt, canonical files and archived attempts per cell | measure contaminated cells again, at most twice; resume | a clean mark is earned by files of one measurement |
| **QAD recovery** `continue_qad_battery.py`, `continue_qad_tail.py` | plan, progress, ledger, interruption and command receipts in two roots | keep measured phases, run the coordinator on the rest, merge | no recorded phase is lost, no phase is claimed that did not run |
| **Reservation guard** `gpu_reservation_guard.py` | pids and birth times of automation browsers | find, check again, stop those in the way | no process is stopped that has become another one's |
| **R27 continuation** `continue_r27_battery.py`, `run_qad_after_r27.py` | completed prefix, batches, live verification, handoff receipt | continue after a fault, hand over | a handoff belongs to the continuation that vouches for it |
| **Scheduler phases** `scheduler_recheck_phase.py`, `agent_workload_recheck.py`, `scheduler_*`, `r27_scheduler_phase.py` | boot groups, plans and cells; per plan a result file, records and a summary on disk, `launch.json` of the boot | boot a group, configure, run its plans, stop; with `--resume` take over what earlier invocations measured | a measurement survives resumptions and is neither repeated nor relabelled; "complete" stands for complete cells |
| **Steady metrics** `steady_metrics.py` | log of samples written by a thread | choose the interior window | the window lies inside the measurement |
| **Cache probes and phases** `r27_cache_phase.py`, `cache_*`, `agent_cache_probe`, `r27_boundary_*` | directories of the disk tier, receipts that prove whose they are, rows of results | per lifecycle: make a directory, boot, probe, measure, stop, remove; recover the orphans of a killed run | a lifecycle starts from an empty tier; only own directories are deleted, and never beside a running server |
| **Boot-loop phases** matrix, peer, metadata, quality | a list of configurations | boot, measure, stop | each result under its configuration |
| **Agent workloads** `agent_workload*`, `realistic_*`, `acceptance_probe` | asyncio clients | drive concurrent requests | nothing is cancelled silently |
| **Reports** `qualification_report`, `render_*`, `release_history` | none | receipts to tables | only eligible results are shown |
| **R24/R25 batteries**, **R29 campaign** | as the coordinator, earlier and later | | |
| **Patched engine scheduler** `src/results/scheduler-r18-patched.py` | request queues, block pool, deferred frees, steps in flight, loads | schedule, take an output back, preempt, abort, load KV from the connector | a block has one owner, no output lands at another place, every request is served |
| Launchers, configurations, overlay, results | none of their own | | |

How they interact:

- The coordinator starts each phase (clean reruns, scheduler, cache, matrix, ...)
  as a child process and knows its return code only. The phase boots the
  test container itself, through the same `runtime.py`.
- Both talk to the Docker daemon through short-lived clients. Killing the client
  does not take back what the daemon has accepted.
- The monitor shares the coordinator's process: it speaks by raising SIGINT in the
  main thread, and the main thread stops it with an event in its `finally`.
- Batteries never talk to each other. A later one waits for a pid and then
  trusts the files it finds: `qualification-executed.json`,
  `production-restored.json`, `clean-rerun-completed.json`.
- The scheduler phase starts the workload client as a process and reads its result file
  whatever its exit code; the client reads the file of the invocation before itself.
- The cache phase deletes what an earlier run of itself left, on the strength of the
  receipts `runtime.py` wrote for that run.
- The patched scheduler runs in the server under test; the phases see it through HTTP only.
- A recovery imports the coordinator, replaces its `PHASES` and calls its `main`;
  the coordinator overwrites the plan and progress files of the root it is given.

What is hard here: signals between any two statements of a `finally`; operations
of the daemon that finish after their caller is gone; pids that are reused; several
files that only together say something, written one by one and killed in between;
receipts of an earlier run in the directory of a later one. PROJECT.json lists
each such place under `hazards` with its line.

## The modules

| module | models | state and actions |
|---|---|---|
| `GpuLease` | the abstract promise of a battery | who holds the GPUs, and whether they are lent; lend, vacate, acquire, release, return |
| `Qualification` | one run of the coordinator | `pc` is the main thread, one action per statement that can change something or be interrupted; phase child, docker client, daemon, signals and the monitor's SIGINT are actions of their own |
| `GpuIsolation` | the monitor, in detail | `QueryGpu`, `QueryDocker`, `Examine(p)` are the three moments of a sample; `Starts`, `Dies` and the container's listing go on between them |
| `BatteryHandoff` | the chain | per battery: queued, waiting, at its gate, on the GPUs, ended; a clock that only receipts and creation times read |
| `CleanRerun` | the clean reruns | disk and memory apart; `Killed` forgets the memory |
| `QadRecovery` | both recoveries with the coordinator inside | the same, with `KeyboardInterrupt` at every step and the two roots |
| `SchedulerResume` | the scheduler recheck with `--resume` | per cell the measurement on disk, per plan its record, per group its `launch.json`; `Start` judges the disk, then groups, plans and cells one after the other; `Killed` and `Reconfigure` in between |
| `CacheOrphans` | the cache phase and its recovery of orphans | per lifecycle the directory (and who made it), three receipts and the row; the start that plans and executes deletions, the case loop, the container |
| `EngineScheduler` | the patched scheduler | the counters of a request as the code names them; one action per turn of a loop of `schedule()`, one per output taken back, one per load that ends |
| `MC*` | instances for TLC | |
| `*Proofs` | theorems and inductive invariants | |

**Qualification.** `Drain` .. `WriteExecuted` are the body of `main`
(run_qualification.py:230-292), `StopInspect` .. the four steps of `rt.stop`,
`EnterRestore` .. `RestoreHandlers` are `restore_production`. An operation of the
daemon is two steps: the client asks (the request joins `prodStop` or
`testOps`), the daemon carries it out later, or the client gives up first. A create is the state
`booting` of the phase; when its client is killed (`ClientGone`) the create may be one of the `lost` ones,
which the daemon carries out after anything the coordinator does next (`DaemonCreatesLate`): the
container (`late`) has the battery's name, and nobody starts it. A
signal is taken at a point of `pc` and goes to the handler installed there: it
raises (`except`, and so on outwards) or is deferred. `GpuLease` is
implemented under the mapping `Holder`, `Lease` at the end of the module.

Its environment is set by constants so that each run can say what a
property needs: `SignalPoints` (where a signal may hit), `DockerMayFail`,
`InspectMayFail` (docker inspect fails though the container is there),
`OrphanClients` (a docker client outlives its phase), `MaxLost` (how many creates at a time may be
carried out after their client is gone) and `InitialTest`.

**GpuIsolation.** A process is a pid and a birth. `owned` is
`_OWNED_GPU_IDENTITIES`. `verified` is history: pairs that docker top showed
while the process behind the pid was the battery's own. `ReuseInSample` allows a pid
to change hands within one sample.

**BatteryHandoff.** The gates are translated condition by condition
(`ExecutedThenRestored`, `Gate`). Stamped events take the next value of `clock`, so times are
ordered as in the code and equal only when the code copies them.
`StartedByHand` is the operator who starts production after a failure: it is
outside the code. `RefusePause` is nondeterministic: why the coordinator refuses is
the business of Qualification. A resumption may be started without `--wait-pid`: it waits for nobody and asks for
nothing but the ledger. A SIGKILLed coordinator leaves its phase, which has a session of its own,
on the GPUs (`stray`, `StrayBegins`, `StrayEnds`). The module therefore does not say that one battery runs at a time: neither
such a resumption nor the battery after a killed one looks at the GPUs before production is paused; what keeps them apart is the
coordinator's own refusal to pause, in Qualification.

**CleanRerun.** A measurement has a number; the bench command and the steady summary carry
the number of the measurement that wrote them. `save_json` replaces a file atomically, so
a file is old or new. Exceptions outside the `try` of a group end the process as a kill does, and
`Killed` stands for them. A summary can be damaged between runs. `began` is history: the number of a cell's last
measurement when this run began, from which `TwoPerRun` counts.

**QadRecovery.** `stage` 1 keeps one phase, stage 2 what stage 1 recorded. The
coordinator's own `try`/`except`/`finally` is repeated here at the grain of the
files it writes, since a recovery cares when each one is replaced. Every save is a write to
`<name>.tmp` and a rename, and `atomic_write` refuses to begin over a `.tmp`
(continue_qad_battery.py:468): `stale` says which files an interrupt has left one of. A `.tmp` of `plan` or `progress` makes the
restoration in the `finally` raise (`RestoreRefused`, outcome `refused`). The other `require`s of
the merge have no failing action: `StaleOnly` says that none of them ever fails. An OSError inside a save would leave
the same `.tmp` and is not modelled apart.

**SchedulerResume.** The validation of the preflight plan is static and left out. A cell is
`[status, run]`: which start measured it. `Judged` is `load_resume_receipts`: the states
of a plan's receipts, and whether the boot that wrote them is today's. `WorkloadRaises`, `PhaseRaises`
and `Killed` are different: the first leaves the group through its `finally`, the second reaches
the summary, the third leaves the disk as it is. Receipts that are corrupt, duplicated or of
other metadata are not written by this program and not modelled; the retry of a boot
for DMA literals is part of `Boot`. A resumed phase that may reuse a whole LMCache group is never
complete, since its checks ask for the traces of both boots.

**CacheOrphans.** The kill is possible between any two receipts of a boot (`launch.json`,
`boot.command.json`, the probe's stage receipt). `trouble` is history: what has happened that justifies a
refusal. Run ids are unique. A container whose `docker run` is accepted after the phase was killed
is the matter of `Qualification` and left out here. Two observations: a configuration probe that
exits with 1, or a kill between `launch.json` and `boot.command.json`, makes every later
recovery refuse, so the operator has to archive by hand (fail closed, as intended); and a
case whose `result.json` was written but not its row is measured again.

**EngineScheduler.** A step in flight is a record of what the runner was told. `fence` and `deferred`
count the steps still to be processed, where the code compares absolute sequence numbers. `known` is the
model runner's own copy of a request's length: it is what a sampled token is placed by.
A step with no token in it is not executed but may carry loads. The connector and the runner
are external: `EndTransfer` reports the end of a load and its valid prefix together.
`Guard` is the laboratory's patch (VLLM_STARVATION_GUARD_CHUNK).

## The runs

`tlc -config X.cfg M` in this directory; each takes seconds to a few minutes.

| run | asks | shows |
|---|---|---|
| `qual_worst` | everything goes wrong at once: signals anywhere, lying inspect, orphan clients | state stays in range; a container of that name that is not ours is never touched |
| `qual_safety` | docker fails, two signals at covered points | no overlap, honest receipts, nothing left of the phase before but what nobody starts, the GPU lease |
| `qual_restore` | docker does what it is asked, two signals | production is restored at exit, but over the container of a late create; the coordinator ends |
| `iso_identity` | processes, pids and containers come and go between and within samples | only ours are adopted, ours are not reported, a stranger that stays is caught |
| `handoff_chain` | full, clean, resumed, killed and queued at any time, old receipts | gates mean restored, complete means serving, everyone's turn comes |
| `clean_rerun` | two runs, kills anywhere, damage | ledger, receipt, archives agree; complete is earned; no run measures a cell three times |
| `qad_recovery` | both recoveries, two interrupts, kills anywhere | merged ledgers are backed by receipts; plan and progress are whole again unless a `.tmp` refuses the restoration, and then progress is the kept rows or the coordinator's; only an interrupted save leaves one |
| `resume_receipts` | three starts, fresh or resumed, kills, failing boots and workloads, one change of image | no measurement is lost or repeated, records and labels are true, complete is earned |
| `cache_orphans` | three starts, two faults of any kind: kill, interrupt, failed probe or deletion, a directory made again by a stranger | only own directories are deleted, never under a server; a tier is fresh; rows are final; every case is attempted or refused for a reason |
| `engine_blocks` | three requests on three blocks, three steps in flight, preemption, an abort, a load that fails in part | one owner per block, writes in flight protected, tokens in place, invalid blocks computed again |
| `engine_serves` | the same with a fair engine, two steps in flight | the starvation guard; every request ends |
| `handoff_r27` | a sentence of the code | a counterexample, see below |

**Bounds, and why they are enough.**

- *Qualification*: three phases: the first, one after another phase and
  one before the end; nothing in the code looks further than the phase before.
  Two external signals: one to be raised or deferred, one to hit the cleanup after it,
  and the monitor's SIGINT comes on top. One lost create (`MaxLost = 1`): the name is taken by the first that is
  carried out, and a further one comes to nothing. `qual_worst` has two phases since its
  environment is the largest; its properties concern one container at a time.
- *GpuIsolation*: two pids and three births: a worker, a
  stranger, and a third process on a pid of one of them.
- *BatteryHandoff*: three batteries for the chain, four for the R27 gate: a gate reads its
  predecessor's receipts only, and a resumption shares the directory of the one before.
- *CleanRerun*: two cells in one boot, two runs, one damaged summary: two cells for the group
  loop and a half-finished group, two runs for resumption, and one boot because boots do not
  share anything but the ledger. The cells are symmetric: no operator of the module chooses one of them
  by name. The run checks no liveness property, so symmetry is sound for it.
- *QadRecovery*: five phases, kept 1, then 3: each stage has one phase that is last, and one that is
  not. Two interrupts: the second one in the recovery's own clauses.

- *SchedulerResume*: two groups, one with LMCache, plans of two cells and one: a plan can be half
  measured and a group half done. Three starts, so that what a resumption found can itself be resumed; two of
  them may be fresh, and the configuration changes once.
- *CacheOrphans*: two tiered lifecycles and a native boot; three starts and two faults, so that
  a recovery can be killed and recovered from in its turn.
- *EngineScheduler*: prompts of 1, 6 and 1 tokens, at most 2 outputs, blocks of 3 tokens and three of
  them: the long request needs all of the pool, so that it preempts and is preempted. A budget of 3
  makes its prefill span steps. Three steps in flight in `engine_blocks`, as a step can be stale behind another
  one; two in `engine_serves`, whose liveness graph is larger. One draft token in the first.

**Fairness.** Five runs use any. `qual_restore`: weak fairness of the main
thread (Python runs it), of the daemon's stop of production and removal of the test container
(accepted requests are carried out) and of the restarted server becoming healthy.
Nothing is asked of phases, signals or the monitor: a phase that never ends is
ended by its timeout, which is a step of the main thread. `iso_identity`: the monitor thread
keeps sampling, since its loop waits with a timeout. `handoff_chain`: a queued process runs on;
`wait_for_window` is taken to open in the end. `cache_orphans`: the phase and its probes run on, and a phase that ended is started again; nothing
is asked of faults. `engine_serves`: weak fairness of `schedule()` (the engine's busy loop), strong fairness of
the outputs and of the ends of loads, which are possible only while no turn of `schedule()` is under way.
The other runs are of safety only and assume none.

`CHECK_DEADLOCK` is on but where the system really stops: `resume_receipts` and `cache_orphans`, with the last start, and
`engine_blocks` and `engine_serves`, with the last request. `Terminated`, `Over` and `Finished` are explicit
self-loops of states in which the program is done.

Each property of a passing run has a mutant: a plausible bug in one
action, written as `Mutant_...` beside it, with which TLC finds the
property violated in the same run.

## The proofs

| module | theorems | for every | assuming |
|---|---|---|---|
| `QualificationProofs` | `TypeCorrect`; `OverlapExcluded`, `ReceiptHonest`, `LeaseImplemented`; `CleanSlate`; `ProductionRestored`, `AlwaysRestored`; `UnownedLeftAlone` | number of phases and signals | for `TypeCorrect` and `UnownedLeftAlone` nothing; `Covered`: signals avoid `CleanupGaps`, inspect is truthful, no orphan clients; for `ProductionRestored` `Reliable`: in addition docker does what it is asked; for `AlwaysRestored` also `MaxLost = 0` |
| `GpuIsolationProofs` | `TypeCorrect`, `OnlyOursAdopted`, `VerifiedNeverReported` | set of pids, number of births | no pid is reused within a sample, for `OnlyOursAdopted` only |
| `BatteryHandoffProofs` | `TypeCorrect`, `StrictGateRestored` | chain that `ChainAssumption` and `RootAssumption` allow | these two |
| `CleanRerunProofs` | `TypeCorrect`, `LedgerConsistent`, `ReceiptAgrees`, `ArchivesNeverCollide`, `AtMostTwice`, `CompletionEarned` | cells, boots, runs, damage | finitely many cells and boots |
| `QadRecoveryProofs` | `TypeCorrect`, `LedgerIsEarned`, `EvidenceKept`, `LedgerIsOwn`, `RefusedByStaleOnly` | length of the plan, beginning of the tail, number of interrupts | `1 < TailFrom < Last` |
| `SchedulerResumeProofs` | `TypeCorrect`, `RecordsCurrent`, `LabelsTrue`, `MeasurementsKept`, `CompletionEarned` | number of groups, plans, cells, starts and configurations | the shape of the plan (`GroupsAssumption`, `PlansAssumption`, `BoundsAssumption`) |
| `CacheOrphansProofs` | `TypeCorrect`, `NeverBesideAServer`, `TierIsFresh`, `RefusalsJustified`, `RowsFinal`, `OnlyOwnedDeleted` | number of cases, starts and faults | the assumptions of the module |
| `EngineSchedulerProofs` | `TypeCorrect`, `BlocksHeldOnce`, `InFlightKept` (with `WritesKept`), `OutputInPlace`, `InvalidRecomputed`, `DecodesGuarded` | requests, blocks, budget, steps in flight, drafts, failures | the assumptions of the module; `HasRoom`, for `DecodesGuarded` only |

The assumptions of the first two are exactly the constants of the passing runs
(`qual_safety` and `qual_restore`, `iso_identity`).

How they go:

- *Qualification.* That production and test server never overlap is not inductive: a state
  with production starting, `testOps = {"start"}` and no overlap yet would satisfy it. The invariant adds,
  for each region of `pc`, what of the daemon's accepted work can still be
  outstanding: once the restore has passed its inspection, no test operation, no
  child, no client. The lease follows step by step from the same invariant under the
  refinement mapping. `CleanSlatePerPhase` needs an invariant of its own (`SlateInv`): a later phase is launched only with nothing asked of
  the daemon that has a client left, so that the container of that name, if there is one, is a late one. `AlwaysRestored` needs only
  that no container is late while no create outlives its client. For `UnownedUntouched` it is enough that
  nothing is pending, and no removal under way, while the container of the name is somebody else's (`UnownedInv`);
  that holds wherever signals arrive.
- *GpuIsolation.* Births only grow, so an identity on record is never a later
  process's; what docker top showed stays true until it is examined because
  no pid changes hands in between.
- *BatteryHandoff.* A strict gate compares two receipts with the predecessor's creation.
  `ReceiptsTellTheTruth` ties those comparisons to where the predecessor is, `NobodyOvertakes` and
  `EarlierAreOver` carry the order down the chain though each battery knows of one only.
- *CleanRerun.* `MarksAreEarned` for the marks in memory, `WorkIsDisjoint`: a cell still to be
  measured has no mark and is in one place only, so measuring it cannot spoil a row;
  `MeasurementsCounted` for the limit: where in the loop this run is, against the number it began with.
- *QadRecovery.* `ProgressInv` says which two things progress on disk can be (kept rows, or some of
  the coordinator's) and `LedgerInv` that a ledger is all of the rest or absent; the two
  leave nothing for a `require` on rows or ledger to refuse, and the concatenation lemmas give order and receipts.
  `InterruptedInv` is what keeps a ledger from being copied into the tail's root: a root
  with one has an interruption too long for `validate_source`. `StaleInv`: a `.tmp` stands only behind a save of a coordinator that
  raised, and in the first stage only in a root that is `Unusable` to the tail.

- *SchedulerResume.* What memory holds was found on disk and what the disk holds was measured
  (`Found`, `Kept`, `Measured`); `Phase` and `Working` say where between the two each group is.
  `AgainIsResumed` and `Lineage` follow the origin of a cell through several starts: a start judges a
  cell by the labels the start before it left.
- *CacheOrphans.* `Control` says what each `pc` has behind it, with `Turn` and `Alone`: one case at
  a time has unfinished traces on disk, whatever start they stem from. `Traces` and `Stale` tie directories to receipts: a
  directory of ours without receipts is empty, and `Calm` that without faults nothing is left to refuse.

- *EngineScheduler.* Two requests never share a block (`Held`) step by step, since an operation moves
  blocks between the pool, one request and one deferred free. That a step in flight cannot write a block of
  the pool needs the fences: `Writes` says that a block step i writes is either its running
  request's, whose fence is at least the number of executed steps up to i, or in a deferred free whose
  fence is. That number (`Count`) is what the code's absolute sequence numbers become when
  steps are counted from the oldest in flight, and the lemmas on it do the arithmetic of taking a step back or adding one. `Given` and
  `Queue` say why a step has tokens of running requests only, `Loading` and `Received` why a request that waits
  for a load has none behind it. `UpdateTakes` reduces
  update_from_output to what the invariant is about (`Taken`).
  What is about tokens stands on a second invariant, `Ledger`, kept for one request at a time. `num_in_flight_tokens` is the sum
  of its tokens over the steps in flight (`Tallied`, the sum `Ahead`), `num_output_placeholders` what those
  of them that are not stale promise (`Promised`, `Pledged`), and `num_computed_tokens` lies in front of them (`Placed`). `Chained` is why output lands behind the
  last token: of the steps whose output is due, the first either hands the runner the tokens before its
  own or finds that the runner has them all, and each one starts where the one before it ends (`Linked`); a
  preemption makes what is in flight stale, and the next admission starts a new chain. `Loaded` gives the other half of
  `InFlightWritesKept`: a load writes only blocks of its request while it waits. What a step does to one request is one of a dozen
  moves (`Moved`), so that the proof for all requests splits into one per move.
  `TypeOK` bounds every counter by `Depth`, which neither of the two gives: a third invariant, `Bounds`, has the deferred frees
  in the order of their fences and their fences within the steps in flight (`Fences`, `Slots`), the runner short of
  `MaxAhead` by what the steps in flight can still teach it (`Reach`), and the counters of a request that has ended where
  they were (`Settled`).
  `GuardedDecodes` is about one call of `schedule()`: whoever runs is in the queue, which does not outgrow its limit
  (`Listed`), and while a decode could run no turn of the loop has spent more than `ChunkRoom`, the larger of the guard and a decode
  with its drafts (`Spread`); a runnable decode that has no tokens yet therefore still finds some. The
  assumption is `HasRoom`: the guard is on and `Budget > (MaxRunning - 1) * ChunkRoom`. `engine_serves` has it, and so has the
  configuration the laboratory ships (configs/tr3-compose.yaml: 2072 tokens, 4 requests, 7 drafts) with any guard up
  to 680; it leaves the guard off by default. The assumption is needed: with one draft, a guard of 1, three requests
  and MaxOut = 3, TLC finds a decode that is left out, behind another decode and a cut chunk, with a budget of 3 or 4,
  and none with a budget of 5, where `HasRoom` begins.

The type invariants of `GpuIsolation` and `QadRecovery` are proved (`TypeCorrect`) for every value of the
constants and not checked again by their runs.
`LedgerIsOwn`, `ArchivesNeverCollide` and `VerifiedNeverReported` are proved and not among the runs'
properties: they are steps on the way to those that are. `AlwaysRestored` is `ProductionRestored` without its exception.

Only model-checked: liveness (`CoordinatorExits`, `ForeignCaught`, `TurnComes`, `AttemptedOrRefused`,
`EveryRequestEnds`: TLAPS does not do fairness here). Every other property of a passing run is stated by a theorem.

## Where the code does not do what it says

`handoff_r27` expects a violation; PROJECT.json quotes the sentence. A resumption started while the
clean reruns still run, waiting for them or not, inherits their restoration, and the gate of R27 opens with production down.

Weak places that were seen and are not kept as runs (each is reproduced by giving a constant another value, or
by checking the definition named):

- a signal between the end of `main`'s `try` and the second `signal.signal` of
  `restore_production` (run_qualification.py:297, 190) ends the `finally` with production stopped: `RestoredAtExit`
  fails when the gap is in `SignalPoints`. The monitor can send it, as it is told to stop by that very line;
- `_inspect` takes any failure of `docker inspect` for a missing container (runtime.py:108): with
  `InspectMayFail = TRUE`, `NoOverlap` fails;
- a pid that is reused between `docker top` and psutil is adopted with the stranger's birth
  time (run_qualification.py:121): with `ReuseInSample = TRUE`, `AdoptedAreOurs` fails;
- a signal between `Popen` and `child.wait` (runtime.py:71) leaves the phase running: with
  `SignalPoints = {"spawned"}`, `NoOverlap` fails;
- a docker client started after the descendants were listed (runtime.py:79): with
  `OrphanClients = TRUE`, `NoOverlap` and `CleanSlatePerPhase` fail;
- `resume_clean_reruns.py:81` makes the comparison of the R27 gate;
- a plan first measured by a resumed phase is later labelled as of the original run
  (scheduler_recheck_phase.py:1612): `OriginalEraIsTrue` fails;
- a fresh phase of another image, killed before its first save, leaves a `launch.json` that vouches for
  the receipts of the phase before it (scheduler_recheck_phase.py:1816): `ReusedUnderItsBoot` fails, and
  `ReusedUnderItsBootIfResumed` is what holds;
- a request whose load fails without a valid token stays among the prefills in flight, and the reservation for its next
  load counts its own blocks (scheduler-r18-patched.py:1158), though the comment there speaks of the other ones': it may wait
  for ever, and `EveryRequestEnds` is stated while no load fails;
- with `DropStale = TRUE` (a connector that requires delivery) two requests can preempt each other
  for ever: each drops what the other made it compute. The safety properties hold there too, as they do with
  `Recompute = FALSE`;
- reset_prefix_cache raises while frees are deferred, though its comment calls a reset sure to
  succeed;
- an interrupt in the clauses of a recovery (`outcome = "broken"`) leaves the coordinator's
  half plan and progress; the source root still has the kept rows;
- so does an interrupt between the write and the rename of a save of the coordinator (runtime.py:49): the restoration in the
  recovery's `finally` is refused by the `.tmp` (continue_qad_battery.py:468), and `EvidenceSurvives` says
  no more of that outcome than `HalfRestored`;
- `restore_production` refuses when the test container exists (run_qualification.py:202), also when it is the unstarted one of a create that the
  daemon carried out after its client was killed: the last disjunct of `RestoredAtExit`.

## What is not modelled

Measured values, prompts, scoring and text; capture of artifacts; the layout of reports. In the modelled
components: `cleanup_l2_child`, how `contaminated_cells` reads a parent battery, the
arithmetic of quiet windows, a ledger made for another plan, the checks of `validate_source` that can only
refuse to start, and what the `main` of `run_r27_battery` does besides its gate. Of the scheduler phases, those that cannot resume; of the cache phases, the requests of the
probes (fills, replays, their barrier) and the boundary phase. Of the engine's scheduler: the PRIORITY policy, pausing, encoder, Mamba,
LoRA and grammar requests, streaming sessions, prefix blocks shared between requests, synchronous loads, a separate input
budget and `max_model_len`; frees that the connector delays (`request_finished`, scheduler-r18-patched.py:2611-2630,
3044-3047), a lookup that is undetermined yet (line 958) and `reset_prefix_cache`: the first two only make a
request wait longer, the last is no step of the engine's loop. `SchedulerResume.Killed` ends the workload client
with the phase, where the client has a session of its own and may still write its plan's receipt; `CacheOrphans.DockerRun` is
one step, though the daemon may carry it out when its client has timed out: the container would not be
started. The components without a module are in
PROJECT.json with the reason; those with behaviour of their own are in the plan.

## The plan

Done, in this order: `Qualification` with `GpuLease`, `GpuIsolation`, `BatteryHandoff`, `CleanRerun`,
`QadRecovery`, `SchedulerResume`, `CacheOrphans`, `EngineScheduler`, with their proofs.

Next:

1. `R27Continuation`: completed prefix, batches, live verification and the handoff to QAD
   (continue_r27_battery.py:624-797, run_qad_after_r27.py:68-260). Abstract specification: a handoff is
   given at most once, and after every phase was attempted.
2. `ReservationGuard`: scan, second check, signal, with processes that exit in between.
3. `SteadyMetrics`, `QuietWindow`: the sampling thread and its five-second join; window choice and
   coverage as functions, against the definition of a gap-free cover.
4. The thread barrier of concurrent replays; agent workloads under cancellation.
5. The boot-loop phases over the actions of `rt.boot` and `rt.stop`; the gates of the R29 campaign; the
   eligibility rules of `qualification_report`.
