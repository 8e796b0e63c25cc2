---------------------------- MODULE GpuIsolation ----------------------------
(***************************************************************************)
(* The GPU isolation monitor of scripts/r26/run_qualification.py:          *)
(* watch_gpu_isolation samples foreign_gpu_processes every two seconds and *)
(* interrupts the run when a process that does not belong to a battery     *)
(* container holds a GPU in two samples in a row.                          *)
(*                                                                         *)
(* A sample is not atomic: nvidia-smi, docker ps/top and psutil are asked  *)
(* one after the other while processes come and go and pids are reused.    *)
(* A process is known by its pid and its birth (psutil's create_time).     *)
(***************************************************************************)
EXTENDS Naturals, FiniteSets

CONSTANTS
  Pids,           \* process ids
  MaxBirths,      \* bound: processes born, so births 1 .. MaxBirths
  Strict,         \* GPU_ISOLATION_MODE = "strict"
  ReuseInSample,  \* a pid a sample has seen may be reused before it ends
  QueriesMayFail  \* nvidia-smi, docker ps or docker top may fail

ASSUME MaxBirthsAssumption == MaxBirths \in Nat
ASSUME ModeAssumption ==
  /\ Strict \in BOOLEAN
  /\ ReuseInSample \in BOOLEAN
  /\ QueriesMayFail \in BOOLEAN

VARIABLES
  procs,      \* the process behind each pid, NoProc when there is none
  births,     \* processes born so far
  listed,     \* the battery's container is in `docker ps`
  pc,         \* where the monitor thread is
  gpuPids,    \* gpu_pids of this sample
  topPids,    \* owned_pids of this sample
  todo,       \* pids of this sample not looked at yet
  owned,      \* _OWNED_GPU_IDENTITIES: pid -> birth
  foreign,    \* the sample's foreign list, as <<pid, birth>>
  previous,   \* foreign pids of the sample before
  outcome,    \* why the monitor interrupted the run, "none" if it has not
  verified    \* history: identities seen in docker top under their own birth

worldVars  == <<procs, births, listed>>
sampleVars == <<gpuPids, topPids, todo, foreign>>
vars == <<worldVars, pc, sampleVars, owned, previous, outcome, verified>>

NoProc == [birth |-> 0, owner |-> "nobody", zombie |-> FALSE]
Alive(p) == procs[p] # NoProc
Births == 1 .. MaxBirths

Processes == [birth : 0 .. MaxBirths, zombie : BOOLEAN,
              owner : {"nobody", "battery", "other"}]

TypeOK ==
  /\ procs \in [Pids -> Processes]
  /\ births \in 0 .. MaxBirths
  /\ listed \in BOOLEAN
  /\ pc \in {"wait", "smi", "top", "each", "decide", "done"}
  /\ gpuPids \subseteq Pids /\ topPids \subseteq Pids /\ todo \subseteq gpuPids
  /\ owned \in [Pids -> 0 .. MaxBirths]
  /\ foreign \subseteq Pids \X Births
  /\ previous \subseteq Pids
  /\ outcome \in {"none", "isolation", "health", "error"}
  /\ verified \subseteq Pids \X Births

Init ==
  /\ procs = [p \in Pids |-> NoProc] /\ births = 0 /\ listed \in BOOLEAN
  /\ pc = "wait"
  /\ gpuPids = {} /\ topPids = {} /\ todo = {} /\ foreign = {}
  /\ owned = [p \in Pids |-> 0]
  /\ previous = {} /\ outcome = "none" /\ verified = {}

-----------------------------------------------------------------------------
(* The machine: every modelled process holds a GPU while it exists.        *)

Starts(p) ==
  /\ ~Alive(p) /\ births < MaxBirths
  /\ ReuseInSample \/ p \notin gpuPids
  /\ births' = births + 1
  /\ \E owner \in {"battery", "other"} :
       /\ owner = "battery" => listed
       /\ procs' = [procs EXCEPT ![p] = [birth |-> births + 1, owner |-> owner,
                                         zombie |-> FALSE]]
  /\ UNCHANGED <<listed, pc, sampleVars, owned, previous, outcome, verified>>

Dies(p) ==
  /\ Alive(p)
  /\ procs' = [procs EXCEPT ![p] =
                 IF @.zombie THEN NoProc ELSE [@ EXCEPT !.zombie = TRUE]]
  /\ UNCHANGED <<births, listed, pc, sampleVars, owned, previous, outcome,
        verified>>

\* The container leaves docker's list before its workers have released CUDA,
\* or the next one appears.
ContainerComesOrGoes ==
  /\ listed' = ~listed
  /\ UNCHANGED <<procs, births, pc, sampleVars, owned, previous, outcome,
        verified>>

World == ContainerComesOrGoes \/ \E p \in Pids : Starts(p) \/ Dies(p)

-----------------------------------------------------------------------------
(* foreign_gpu_processes.                                                  *)

\* os.kill(getpid, SIGINT) and the thread returns.
Interrupt(why) ==
  /\ outcome' = why
  /\ pc' = "done"

\* gpu_recovery_health at the start of the sample.
BeginSample ==
  /\ pc = "wait"
  /\ pc' = "smi"
  /\ UNCHANGED <<worldVars, sampleVars, owned, previous, outcome, verified>>

\* An unhealthy GPU only interrupts a strict run.  The sample before the
\* decision is complete by then, and ends here.
Unhealthy ==
  /\ pc = "decide" /\ Strict
  /\ Interrupt("health")
  /\ UNCHANGED <<worldVars, sampleVars, owned, previous, verified>>

\* Any exception interrupts the run, strict or not.
SampleFails ==
  /\ QueriesMayFail /\ pc \in {"smi", "top", "each"}
  /\ Interrupt("error")
  /\ UNCHANGED <<worldVars, sampleVars, owned, previous, verified>>

\* nvidia-smi --query-compute-apps=pid.
QueryGpu ==
  /\ pc = "smi"
  /\ gpuPids' = {p \in Pids : Alive(p)}
  /\ pc' = "top"
  /\ UNCHANGED <<worldVars, topPids, todo, foreign, owned, previous, outcome,
        verified>>

InContainer == {p \in Pids : Alive(p) /\ procs[p].owner = "battery"}

\* A container of the battery is listed and docker top shows its processes; or
\* none is listed, or docker top fails and contributes no pid.
TopReports(pids) ==
  \/ listed /\ pids = InContainer
  \/ (~listed \/ QueriesMayFail) /\ pids = {}

\* docker ps and docker top; then identities of pids that hold no GPU any more
\* are forgotten.
QueryDocker ==
  /\ pc = "top"
  /\ TopReports(topPids')
  /\ owned' = [p \in Pids |-> IF p \in gpuPids THEN owned[p] ELSE 0]
  /\ todo' = gpuPids
  /\ foreign' = {}
  /\ pc' = "each"
  /\ UNCHANGED <<worldVars, gpuPids, previous, outcome, verified>>

\* Mutant: the pid alone is the identity.
Mutant_PidIsIdentity(p) ==
  /\ pc = "each" /\ p \in todo
  /\ todo' = todo \ {p}
  /\ \/ /\ ~Alive(p)
        /\ owned' = [owned EXCEPT ![p] = 0]
        /\ UNCHANGED <<foreign, verified>>
     \/ /\ Alive(p) /\ procs[p].zombie
        /\ UNCHANGED <<owned, foreign, verified>>
     \/ /\ Alive(p) /\ ~procs[p].zombie
        /\ \/ /\ p \in topPids \/ owned[p] # 0
              /\ owned' = [owned EXCEPT ![p] = procs[p].birth]
              /\ verified' = verified \cup {<<p, procs[p].birth>>}
              /\ UNCHANGED foreign
           \/ /\ p \notin topPids /\ owned[p] = 0
              /\ foreign' = foreign \cup {<<p, procs[p].birth>>}
              /\ UNCHANGED <<owned, verified>>
  /\ UNCHANGED <<worldVars, pc, gpuPids, topPids, previous, outcome>>

\* One round of the loop: psutil is asked about the pid now.
Examine(p) ==
  /\ pc = "each" /\ p \in todo
  /\ todo' = todo \ {p}
  /\ \/ /\ ~Alive(p)                                   \* NoSuchProcess
        /\ owned' = [owned EXCEPT ![p] = 0]
        /\ UNCHANGED <<foreign, verified>>
     \/ /\ Alive(p) /\ procs[p].zombie
        /\ UNCHANGED <<owned, foreign, verified>>
     \/ /\ Alive(p) /\ ~procs[p].zombie /\ p \in topPids
        /\ owned' = [owned EXCEPT ![p] = procs[p].birth]
        /\ verified' = verified \cup {<<p, procs[p].birth>>}
        /\ UNCHANGED foreign
     \/ /\ Alive(p) /\ ~procs[p].zombie /\ p \notin topPids
        /\ owned[p] = procs[p].birth
        /\ UNCHANGED <<owned, foreign, verified>>
     \/ /\ Alive(p) /\ ~procs[p].zombie /\ p \notin topPids
        /\ owned[p] # procs[p].birth
        /\ owned' = [owned EXCEPT ![p] = 0]
        /\ foreign' = foreign \cup {<<p, procs[p].birth>>}
        /\ UNCHANGED verified
  /\ UNCHANGED <<worldVars, pc, gpuPids, topPids, previous, outcome>>

SampleComplete ==
  /\ pc = "each" /\ todo = {}
  /\ pc' = "decide"
  /\ UNCHANGED <<worldVars, sampleVars, owned, previous, outcome, verified>>

-----------------------------------------------------------------------------
(* watch_gpu_isolation: what a sample leads to.                            *)

Current == {row[1] : row \in foreign}

IsolationLost ==
  /\ pc = "decide" /\ Strict /\ Current \cap previous # {}
  /\ Interrupt("isolation")
  /\ UNCHANGED <<worldVars, sampleVars, owned, previous, verified>>

\* Mutant: what this sample found is not remembered.
Mutant_ForgetSample ==
  /\ pc = "decide" /\ ~(Strict /\ Current \cap previous # {})
  /\ pc' = "wait"
  /\ gpuPids' = {} /\ topPids' = {} /\ todo' = {} /\ foreign' = {}
  /\ UNCHANGED <<worldVars, owned, previous, outcome, verified>>

NextSample ==
  /\ pc = "decide" /\ ~(Strict /\ Current \cap previous # {})
  /\ previous' = Current
  /\ pc' = "wait"
  /\ gpuPids' = {} /\ topPids' = {} /\ todo' = {} /\ foreign' = {}
  /\ UNCHANGED <<worldVars, owned, outcome, verified>>

\* guard_stop is set: seen at the next stopped.wait(2).
Stopped ==
  /\ pc = "wait"
  /\ pc' = "done"
  /\ UNCHANGED <<worldVars, sampleVars, owned, previous, outcome, verified>>

Monitor == \/ BeginSample \/ QueryGpu \/ QueryDocker \/ SampleComplete
           \/ IsolationLost \/ NextSample
           \/ \E p \in Pids : Examine(p)

Next == World \/ Monitor \/ Unhealthy \/ SampleFails \/ Stopped

Spec == Init /\ [][Next]_vars

\* The thread keeps sampling: nothing stops it but itself or guard_stop.
FairSpec == Spec /\ WF_vars(Monitor)

-----------------------------------------------------------------------------

\* "Only previously verified ownership with the same birth time survives": an
\* identity on the list is never that of a process from outside the battery,
\* whatever pids are reused.
AdoptedAreOurs ==
  \A p \in Pids :
    Alive(p) /\ owned[p] = procs[p].birth => procs[p].owner = "battery"

\* A worker the monitor has once seen in docker top is not reported as foreign
\* while it still holds the GPU, even after its container left docker's list.
VerifiedNotForeign == foreign \cap verified = {}

Outsider(p) == procs[p].owner = "other" /\ ~procs[p].zombie

\* In a strict run a process from outside that keeps its GPU is noticed, also
\* when its pid was a worker's before: the monitor interrupts the run, unless
\* the run was over.
ForeignCaught ==
  Strict => \A p \in Pids : <>[]Outsider(p) => <>(pc = "done")
=============================================================================
