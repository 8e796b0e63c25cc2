--------------------------- MODULE EngineScheduler ---------------------------
(***************************************************************************)
(* The engine's scheduler as the laboratory patched it                     *)
(* (results/scheduler-r18-patched.py): asynchronous scheduling with a KV   *)
(* connector, first come first served, text only.                          *)
(*                                                                         *)
(* schedule() hands out a budget of tokens, first to the running requests, *)
(* then to the waiting ones, and preempts the last running request when    *)
(* the pool of KV blocks is empty.  Its output joins the steps in flight;  *)
(* the model runner executes them in order and update_from_output() takes  *)
(* back the oldest.  In between requests are preempted, aborted or         *)
(* scheduled again, and blocks are freed that a step in flight still       *)
(* writes.  One action is one turn of a loop of schedule(), which nothing   *)
(* interrupts: what the runner and the connector do meanwhile is read by   *)
(* update_from_output() only.                                              *)
(***************************************************************************)
EXTENDS Naturals, Sequences, FiniteSets

CONSTANTS
  Reqs,         \* the requests
  Prompt,       \* the prompt tokens of each
  MaxOut,       \* max_tokens of each
  BlockSize, Blocks,
  Budget,       \* max_num_scheduled_tokens
  MaxRunning,   \* max_num_running_reqs
  Depth,        \* steps in flight, max_concurrent_batches
  Guard,        \* VLLM_STARVATION_GUARD_CHUNK, 0 disables it
  SpecTokens,   \* draft tokens of a decode
  DropStale,    \* requires_kv_delivery of the connector
  Impatient,    \* the requests whose client may go
  Recompute,    \* failed loads are recomputed, not failed
  MaxFailures   \* bound: transfers that fail

ASSUME RequestsAssumption ==
  /\ Reqs \subseteq Nat /\ IsFiniteSet(Reqs)
  /\ Prompt \in [Reqs -> Nat \ {0}] /\ MaxOut \in Nat \ {0}
  /\ Impatient \subseteq Reqs
ASSUME PoolAssumption == Blocks \subseteq Nat /\ IsFiniteSet(Blocks) /\ BlockSize \in Nat \ {0}
ASSUME LimitsAssumption ==
  /\ Budget \in Nat \ {0} /\ MaxRunning \in Nat \ {0} /\ Depth \in Nat \ {0}
  /\ Guard \in Nat /\ SpecTokens \in Nat /\ MaxFailures \in Nat
  /\ DropStale \in BOOLEAN /\ Recompute \in BOOLEAN

Statuses == {"new", "waiting", "loading", "running", "aborted", "done"}

VARIABLES
  status,     \* "aborted": finished, kept until its transfer has ended
  waiting, skipped, running,
  out,        \* output tokens of each request
  computed, inFlight, stale, placeholders,  \* num_..._tokens of a request
  drop,       \* drop_stale_output
  chunk,      \* is_prefill_chunk
  fence,      \* steps in flight until the request's last one is processed
  prefilling, \* _inflight_prefills
  blocks, free,  \* the blocks of each request, and the pool
  deferred,   \* deferred_frees; a fence counts the steps still to be processed
  received, failed,  \* finished_recving_kv_req_ids, failed_recving_kv_req_ids
  steps,      \* scheduler outputs in flight
  known,      \* model runner: the tokens it has of each request
  transfer,   \* connector: the load of each request
  good,       \* connector: tokens of that load whose blocks are valid
  failures,   \* transfers that failed so far
  pc, index, budget, want, tokens, pad, base, preempted, passed
              \* the locals of schedule()

counters == <<out, computed, inFlight, stale, placeholders, drop, chunk, fence>>
queues   == <<waiting, skipped, running>>
pool     == <<blocks, free, deferred>>
loads    == <<received, failed, transfer, good, failures>>
locals   == <<index, budget, want, tokens, pad, base, preempted, passed>>
vars == <<status, queues, counters, prefilling, pool, loads, steps, known, pc, locals>>

Nothing == [r \in Reqs |-> 0]
Least(a, b) == IF a <= b THEN a ELSE b
Ceil(n) == (n + BlockSize - 1) \div BlockSize
Elements(s) == {s[i] : i \in DOMAIN s}
Without(s, S) ==  \* SelectSeq, as a function: remove_all, remove_requests
  LET rest[i \in 0 .. Len(s)] ==
        IF i = 0 THEN <<>>
        ELSE IF s[i] \in S THEN rest[i - 1] ELSE Append(rest[i - 1], s[i])
  IN rest[Len(s)]
NumTokens(r) == Prompt[r] + out[r]
Scheduled(step) == {r \in Reqs : step.tokens[r] > 0}
MaxTokens == CHOOSE n \in {Prompt[r] + MaxOut : r \in Reqs} :
  \A q \in Reqs : Prompt[q] + MaxOut <= n
\* A request is at most every draft of every step in flight ahead of its tokens.
MaxAhead == MaxTokens + (Depth + 1) * (SpecTokens + 1)

Step == [tokens : [Reqs -> 0 .. Budget],      \* num_scheduled_tokens
         drafts : [Reqs -> 0 .. SpecTokens],        \* scheduled_spec_decode_tokens
         samples : SUBSET Reqs,               \* the chunk reaches the end
         base : [Reqs -> 0 .. MaxTokens],     \* tokens handed to the runner anew
         writes : [Reqs -> SUBSET Blocks],    \* the block table
         loads : SUBSET Reqs]                 \* the loads it starts

TypeOK ==
  /\ status \in [Reqs -> Statuses]
  /\ waiting \in Seq(Reqs) /\ skipped \in Seq(Reqs) /\ running \in Seq(Reqs)
  /\ out \in [Reqs -> 0 .. MaxOut] /\ computed \in [Reqs -> 0 .. MaxAhead]
  /\ inFlight \in [Reqs -> 0 .. Depth * Budget] /\ stale \in [Reqs -> 0 .. Depth * Budget]
  /\ placeholders \in [Reqs -> 0 .. Depth * (SpecTokens + 1)]
  /\ drop \in [Reqs -> BOOLEAN] /\ chunk \in [Reqs -> BOOLEAN]
  /\ fence \in [Reqs -> 0 .. Depth] /\ prefilling \subseteq Reqs
  /\ blocks \in [Reqs -> SUBSET Blocks] /\ free \subseteq Blocks
  /\ deferred \in Seq([fence : 1 .. Depth, blocks : SUBSET Blocks])
  /\ received \subseteq Reqs /\ failed \subseteq Reqs
  /\ steps \in Seq(Step) /\ Len(steps) <= Depth
  /\ known \in [Reqs -> 0 .. MaxAhead]
  /\ transfer \in [Reqs -> {"none", "asked", "going", "ended"}]
  /\ good \in [Reqs -> 0 .. MaxTokens] /\ failures \in 0 .. MaxFailures
  /\ pc \in {"idle", "running", "waiting", "dispatch"} /\ index \in Nat \ {0}
  /\ budget \in 0 .. Budget /\ want \in 0 .. Budget
  /\ tokens \in [Reqs -> 0 .. Budget] /\ pad \subseteq Reqs
  /\ base \in [Reqs -> 0 .. MaxTokens] /\ preempted \in BOOLEAN /\ passed \in Seq(Reqs)

Init ==
  /\ status = [r \in Reqs |-> "new"]
  /\ waiting = <<>> /\ skipped = <<>> /\ running = <<>>
  /\ out = Nothing /\ computed = Nothing /\ inFlight = Nothing /\ stale = Nothing
  /\ placeholders = Nothing /\ fence = Nothing /\ known = Nothing /\ good = Nothing
  /\ drop = [r \in Reqs |-> FALSE] /\ chunk = [r \in Reqs |-> FALSE]
  /\ prefilling = {} /\ blocks = [r \in Reqs |-> {}] /\ free = Blocks /\ deferred = <<>>
  /\ received = {} /\ failed = {} /\ steps = <<>> /\ failures = 0
  /\ transfer = [r \in Reqs |-> "none"]
  /\ pc = "idle" /\ index = 1 /\ budget = 0 /\ want = 0 /\ tokens = Nothing /\ pad = {}
  /\ base = Nothing /\ preempted = FALSE /\ passed = <<>>

-----------------------------------------------------------------------------
(* The pool of blocks, and the frees that wait for a step in flight.       *)

\* What allocate_slots lacks to hold n tokens of r, and the pool's lowest blocks.
Lacking(r, n) == IF Ceil(n) > Cardinality(blocks[r]) THEN Ceil(n) - Cardinality(blocks[r]) ELSE 0
Lowest(n) == {b \in free : Cardinality({c \in free : c < b}) < n}
Fits(r, n) == Lacking(r, n) <= Cardinality(free)
Take(r, n) ==
  /\ blocks' = [blocks EXCEPT ![r] = @ \cup Lowest(Lacking(r, n))]
  /\ free' = free \ Lowest(Lacking(r, n))

\* sched_step_seq, as the steps that are to be processed until then.
FenceNow == Cardinality({i \in 1 .. Len(steps) : Scheduled(steps[i]) # {}})

\* (mutant) every block returns to the pool at once
Mutant_ReleaseNow(S, pool0, later0, f, now) ==
  /\ free' = pool0 \cup UNION {blocks[r] : r \in S} /\ deferred' = later0
  /\ blocks' = [r \in Reqs |-> IF r \in S THEN {} ELSE blocks[r]]

\* (mutant) the request keeps the blocks that wait
Mutant_ReleaseKeeps(S, pool0, later0, f, now) ==
  LET late == UNION {blocks[r] : r \in {r \in S : f[r] > 0}}
  IN /\ free' = pool0 \cup UNION {blocks[r] : r \in {r \in S : f[r] = 0}}
     /\ deferred' = IF late = {} THEN later0
                    ELSE Append(later0, [fence |-> now, blocks |-> late])
     /\ blocks' = [r \in Reqs |-> IF r \in S /\ f[r] = 0 THEN {} ELSE blocks[r]]

\* (mutant) a free waits for a step that may never come
Mutant_ReleaseLate(S, pool0, later0, f, now) ==
  LET late == UNION {blocks[r] : r \in {r \in S : f[r] > 0}}
  IN /\ free' = pool0 \cup UNION {blocks[r] : r \in {r \in S : f[r] = 0}}
     /\ deferred' = IF late = {} THEN later0
                    ELSE Append(later0, [fence |-> now + 1, blocks |-> late])
     /\ blocks' = [r \in Reqs |-> IF r \in S THEN {} ELSE blocks[r]]

\* The blocks of the requests in S return to the pool, or wait behind the latest
\* step when a step of the request is still in flight.
Release(S, pool0, later0, f, now) ==
  LET done == UNION {blocks[r] : r \in {r \in S : f[r] = 0}}
      late == UNION {blocks[r] : r \in {r \in S : f[r] > 0}}
  IN /\ free' = pool0 \cup done
     /\ deferred' = IF late = {} THEN later0
                    ELSE Append(later0, [fence |-> now, blocks |-> late])
     /\ blocks' = [r \in Reqs |-> IF r \in S THEN {} ELSE blocks[r]]

-----------------------------------------------------------------------------
(* Requests come and go.                                                   *)

AddRequest(r) ==
  /\ pc = "idle" /\ status[r] = "new"
  /\ status' = [status EXCEPT ![r] = "waiting"] /\ waiting' = Append(waiting, r)
  /\ UNCHANGED <<skipped, running, counters, prefilling, pool, loads, steps, known, pc,
                 locals>>

\* A client that goes: finish_requests.  The blocks of a load still under way
\* are kept for it.
Abort(r) ==
  /\ pc = "idle" /\ status[r] \in {"waiting", "loading", "running"} /\ r \in Impatient
  /\ waiting' = Without(waiting, {r}) /\ skipped' = Without(skipped, {r})
  /\ running' = Without(running, {r})
  /\ prefilling' = prefilling \ {r} /\ received' = received \ {r}
  /\ IF status[r] = "loading" /\ r \notin received
       THEN status' = [status EXCEPT ![r] = "aborted"] /\ UNCHANGED pool
       ELSE /\ status' = [status EXCEPT ![r] = "done"]
            /\ Release({r}, free, deferred, fence, FenceNow)
  /\ failed' = IF status[r] = "loading" THEN failed \ {r} ELSE failed
  /\ UNCHANGED <<counters, transfer, good, failures, steps, known, pc, locals>>

-----------------------------------------------------------------------------
(* schedule(): the running requests.                                       *)

Begin ==
  /\ pc = "idle" /\ Len(steps) < Depth
  /\ \E r \in Reqs : status[r] \in {"waiting", "loading", "running", "aborted"}
  /\ pc' = "running" /\ index' = 1 /\ budget' = Budget /\ tokens' = Nothing
  /\ pad' = {} /\ base' = Nothing /\ preempted' = FALSE /\ passed' = <<>> /\ want' = 0
  /\ UNCHANGED <<status, queues, counters, prefilling, pool, loads, steps, known>>

\* The drafts a decode carries; a chunk of a prefill has none.
Drafts(r) == IF chunk[r] \/ placeholders[r] = 0 THEN 0 ELSE SpecTokens

\* What a request lacks, its drafts included.
Behind(r) == NumTokens(r) + Drafts(r) + placeholders[r] - computed[r]

\* Its last step is in flight already.
Exhausted(r) ==
  /\ placeholders[r] > 0
  /\ computed[r] + 2 - placeholders[r] >= Prompt[r] + MaxOut

\* (mutant) the guard looks at the decodes that have their tokens already
Mutant_NewTokensScheduled(r) ==
  LET n == Least(Behind(r), budget)
      decode == \E q \in Elements(running) \ {r} : ~chunk[q] /\ tokens[q] > 0
  IN IF Guard > 0 /\ chunk[r] /\ n > Guard /\ decode THEN Guard ELSE n

\* (mutant) a chunk is not cut to what is left of the budget
Mutant_NewTokensUncut(r) ==
  LET decode == \E q \in Elements(running) \ {r} : ~chunk[q] /\ Behind(q) > 0
  IN IF Guard > 0 /\ chunk[r] /\ Behind(r) > Guard /\ decode THEN Guard ELSE Behind(r)

\* The starvation guard: a chunk leaves room for the decodes behind it.
NewTokens(r) ==
  LET n == Least(Behind(r), budget)
      decode == \E q \in Elements(running) \ {r} : ~chunk[q] /\ Behind(q) > 0
  IN IF Guard > 0 /\ chunk[r] /\ n > Guard /\ decode THEN Guard ELSE n

Turn == pc = "running" /\ index <= Len(running) /\ budget > 0
Current == running[index]

Pass ==
  /\ Turn /\ want = 0 /\ (Exhausted(Current) \/ NewTokens(Current) = 0)
  /\ index' = index + 1
  /\ UNCHANGED <<status, queues, counters, prefilling, pool, loads, steps, known, pc,
                 budget, tokens, pad, base, preempted, passed, want>>

Consider ==
  /\ Turn /\ want = 0 /\ ~Exhausted(Current) /\ NewTokens(Current) > 0
  /\ want' = NewTokens(Current)
  /\ UNCHANGED <<status, queues, counters, prefilling, pool, loads, steps, known, pc,
                 index, budget, tokens, pad, base, preempted, passed>>

Allocate ==
  /\ Turn /\ want > 0 /\ Fits(Current, computed[Current] + want + SpecTokens)
  /\ Take(Current, computed[Current] + want + SpecTokens)
  /\ tokens' = [tokens EXCEPT ![Current] = want]
  /\ budget' = budget - want /\ index' = index + 1 /\ want' = 0
  /\ UNCHANGED <<status, queues, counters, prefilling, deferred, loads, steps, known, pc,
                 pad, base, preempted, passed>>

\* _preempt_request of the last running request, and the end of the turn when
\* that is the one whose turn it is.
Preempt == \E v \in Reqs :
  /\ Turn /\ want > 0 /\ ~Fits(Current, computed[Current] + want + SpecTokens)
  /\ v = running[Len(running)]
  /\ running' = SubSeq(running, 1, Len(running) - 1) /\ waiting' = <<v>> \o waiting
  /\ status' = [status EXCEPT ![v] = "waiting"]
  /\ computed' = [computed EXCEPT ![v] = 0]
  /\ drop' = [drop EXCEPT ![v] = DropStale \/ (@ /\ stale[v] > 0)]
  /\ stale' = [stale EXCEPT ![v] = inFlight[v]]
  /\ placeholders' = [placeholders EXCEPT ![v] = 0]
  /\ prefilling' = prefilling \ {v}
  /\ Release({v}, free, deferred, fence, FenceNow)
  /\ preempted' = TRUE
  /\ IF v = Current THEN pc' = "dispatch" /\ want' = 0 ELSE UNCHANGED <<pc, want>>
  /\ UNCHANGED <<skipped, out, inFlight, chunk, fence, loads, steps, known, index,
                 budget, tokens, pad, base, passed>>

RunningDone ==
  /\ pc = "running" /\ (index > Len(running) \/ budget = 0)
  /\ pc' = IF preempted THEN "dispatch" ELSE "waiting"
  /\ UNCHANGED <<status, queues, counters, prefilling, pool, loads, steps, known, locals>>

-----------------------------------------------------------------------------
(* schedule(): the waiting requests.                                       *)

Admitting ==
  /\ pc = "waiting" /\ skipped \o waiting # <<>> /\ budget > 0
  /\ Len(running) < MaxRunning

\* The skipped ones come first; peek_request.
Head1 == Head(skipped \o waiting)
PopHead ==
  IF skipped # <<>> THEN skipped' = Tail(skipped) /\ UNCHANGED waiting
                    ELSE waiting' = Tail(waiting) /\ UNCHANGED skipped

Blocked(r) == status[r] = "loading" /\ r \notin received

\* (mutant) a preempted request resumes before its output has returned
Mutant_Undrained(r) == FALSE

\* Output in flight will still be delivered: resuming could sample it again.
Undrained(r) == stale[r] > 0 /\ ~drop[r]

PassOver ==
  /\ Admitting /\ (Blocked(Head1) \/ (status[Head1] = "waiting" /\ Undrained(Head1)))
  /\ PopHead /\ passed' = Append(passed, Head1)
  /\ UNCHANGED <<status, running, counters, prefilling, pool, loads, steps, known, pc,
                 index, budget, tokens, pad, base, preempted, want>>

\* _update_waiting_for_remote_kv: a load that has ended, whole or in part.
Promote ==
  LET r == Head1 IN
  /\ Admitting /\ status[r] = "loading" /\ r \in received
  /\ status' = [status EXCEPT ![r] = "waiting"]
  /\ received' = received \ {r} /\ failed' = failed \ {r}
  /\ IF r \in failed
       THEN /\ IF computed[r] = 0
                 THEN /\ free' = free \cup blocks[r]
                      /\ blocks' = [blocks EXCEPT ![r] = {}]
                 ELSE UNCHANGED <<free, blocks>>
            /\ UNCHANGED computed
       ELSE /\ computed' = [computed EXCEPT ![r] = Least(@, NumTokens(r) - 1)]
            /\ UNCHANGED <<free, blocks>>
  /\ UNCHANGED <<queues, out, inFlight, stale, placeholders, drop, chunk, fence,
                 prefilling, deferred, transfer, good, failures, steps, known, pc, locals>>

Ready(r) == status[r] = "waiting" /\ ~Undrained(r)

\* full_sequence_must_fit
WholeFits(r) == Fits(r, NumTokens(r))

\* What the prefills under way still need.
Sum(f, S) == LET sum[T \in SUBSET S] == IF T = {} THEN 0
                   ELSE LET x == CHOOSE x \in T : TRUE IN f[x] + sum[T \ {x}]
             IN sum[S]
Reserved == Sum([r \in Reqs |-> Lacking(r, NumTokens(r))], prefilling)

\* Blocks the connector may find elsewhere, in tokens.
Matches(r) == {BlockSize * k : k \in 1 .. NumTokens(r) \div BlockSize}

LoadFits(r, n) ==
  /\ WholeFits(r) /\ Lacking(r, n) + Reserved <= Cardinality(free)

\* The connector loads the first n tokens; until then the request waits with
\* its blocks.
Load(n) ==
  LET r == Head1 IN
  /\ Admitting /\ Ready(r) /\ computed[r] = 0 /\ n \in Matches(r) /\ LoadFits(r, n)
  /\ PopHead /\ passed' = Append(passed, r)
  /\ Take(r, n)
  /\ status' = [status EXCEPT ![r] = "loading"]
  /\ computed' = [computed EXCEPT ![r] = n]
  /\ prefilling' = prefilling \cup {r}
  /\ transfer' = [transfer EXCEPT ![r] = "asked"] /\ good' = [good EXCEPT ![r] = n]
  /\ UNCHANGED <<running, out, inFlight, stale, placeholders, drop, chunk, fence,
                 deferred, received, failed, failures, steps, known, pc, index, budget,
                 tokens, pad, base, preempted, want>>

\* A single token of a new decode is padded to the size of the running ones.
Padded(r) ==
  /\ SpecTokens > 0 /\ NumTokens(r) - computed[r] = 1
  /\ \E q \in Reqs : tokens[q] > 0 /\ base[q] = 0
  /\ \A q \in Reqs : tokens[q] > 0 /\ base[q] = 0 => ~chunk[q]

FirstTokens(r) ==
  IF Padded(r) THEN 1 + SpecTokens ELSE Least(NumTokens(r) - computed[r], budget)

\* The request can start with what is left of the budget and of the pool.
Admissible(r) ==
  /\ FirstTokens(r) <= budget /\ WholeFits(r)
  /\ Fits(r, computed[r] + FirstTokens(r) + SpecTokens)

Admit ==
  LET r == Head1 n == FirstTokens(Head1) IN
  /\ Admitting /\ Ready(r) /\ Admissible(r)
  /\ PopHead /\ running' = Append(running, r)
  /\ Take(r, computed[r] + n + SpecTokens)
  /\ status' = [status EXCEPT ![r] = "running"]
  /\ tokens' = [tokens EXCEPT ![r] = n] /\ budget' = budget - n
  /\ base' = [base EXCEPT ![r] = NumTokens(r)]
  /\ pad' = IF Padded(r) THEN pad \cup {r} ELSE pad
  /\ prefilling' = IF computed[r] + n < NumTokens(r) THEN prefilling \cup {r} ELSE prefilling
  /\ UNCHANGED <<counters, deferred, loads, steps, known, pc, index, preempted, passed,
                 want>>

\* The loop ends with nobody left, or at the first one that does not fit.
WaitingDone ==
  /\ pc = "waiting"
  /\ \/ ~Admitting
     \/ Admitting /\ Ready(Head1) /\ (\E n \in {0} \cup Matches(Head1) :
          IF n = 0 \/ computed[Head1] > 0 THEN ~Admissible(Head1) ELSE ~LoadFits(Head1, n))
  /\ pc' = "dispatch" /\ skipped' = passed \o skipped
  /\ UNCHANGED <<status, waiting, running, counters, prefilling, pool, loads, steps,
                 known, locals>>

-----------------------------------------------------------------------------
(* schedule(): its output.                                                 *)

DraftsOf(r) ==
  IF r \in pad THEN SpecTokens
  ELSE IF base[r] > 0 \/ Drafts(r) = 0 THEN 0
  ELSE LET n == tokens[r] + computed[r] IN
         IF n > NumTokens(r) + placeholders[r] THEN n - NumTokens(r) - placeholders[r] ELSE 0

\* _update_after_schedule, and what the asynchronous scheduler adds to it:
\* placeholders for the tokens and the drafts of the step.
Dispatch ==
  LET S == {r \in Reqs : tokens[r] > 0}
      after == [r \in Reqs |-> computed[r] + tokens[r]]
      whole == {r \in S : after[r] >= NumTokens(r) + placeholders[r]}
      step == [tokens |-> tokens, drafts |-> [r \in Reqs |-> IF r \in S THEN DraftsOf(r) ELSE 0],
               samples |-> whole, base |-> base,
               writes |-> [r \in Reqs |-> IF r \in S THEN blocks[r] ELSE {}],
               loads |-> {r \in Reqs : transfer[r] = "asked"}]
  IN /\ pc = "dispatch" /\ pc' = "idle"
     /\ steps' = IF S = {} /\ \A r \in Reqs : transfer[r] = "none" THEN steps
                 ELSE Append(steps, step)
     /\ computed' = after
     /\ inFlight' = [r \in Reqs |-> inFlight[r] + tokens[r]]
     /\ fence' = [r \in Reqs |-> IF r \in S THEN FenceNow + 1 ELSE fence[r]]
     /\ chunk' = [r \in Reqs |-> IF r \in S THEN r \notin whole ELSE chunk[r]]
     /\ placeholders' = [r \in Reqs |-> IF r \in whole
                           THEN placeholders[r] + 1 + step.drafts[r] ELSE placeholders[r]]
     /\ prefilling' = prefilling \ whole
     /\ transfer' = [r \in Reqs |-> IF transfer[r] = "asked" THEN "going" ELSE transfer[r]]
     /\ index' = 1 /\ budget' = 0 /\ tokens' = Nothing /\ pad' = {} /\ base' = Nothing
     /\ preempted' = FALSE /\ passed' = <<>> /\ want' = 0
     /\ UNCHANGED <<status, queues, out, stale, drop, pool, received, failed, good, failures,
                    known>>

-----------------------------------------------------------------------------
(* The model runner and the connector.                                     *)

\* A load ends, with its first n tokens valid: in time for the output of the step
\* that started it, or later.
EndTransfer(r, n) ==
  /\ pc = "idle" /\ \A i \in 2 .. Len(steps) : r \notin steps[i].loads
  /\ transfer[r] = "going" /\ n % BlockSize = 0 /\ n <= good[r]
  /\ n < good[r] => failures < MaxFailures
  /\ failures' = IF n < good[r] THEN failures + 1 ELSE failures
  /\ transfer' = [transfer EXCEPT ![r] = "ended"] /\ good' = [good EXCEPT ![r] = n]
  /\ UNCHANGED <<status, queues, counters, prefilling, pool, received, failed, steps,
                 known, pc, locals>>

\* _drain_deferred_frees: from the front, the frees whose fence has passed.
PastFence(n) ==
  CHOOSE k \in 0 .. Len(deferred) :
    /\ \A i \in 1 .. k : deferred[i].fence <= n
    /\ k < Len(deferred) => ~(deferred[k + 1].fence <= n)
Drained(k) == UNION {deferred[i].blocks : i \in 1 .. k}
StillDeferred(k, one) == [i \in 1 .. Len(deferred) - k |->
  [fence |-> deferred[i + k].fence - one, blocks |-> deferred[i + k].blocks]]

\* What the runner knows of a request before it samples the oldest step.
RunnerBase(r) == IF Head(steps).base[r] > 0 THEN Head(steps).base[r] ELSE known[r]

\* (mutant) a load is looked at only when part of it is valid
Mutant_Invalid ==
  {r \in Reqs : /\ status[r] = "loading" /\ transfer[r] = "ended" /\ good[r] > 0
                /\ good[r] < computed[r] - Head(steps).tokens[r]}

\* Loads whose end this step reports with a block that is not valid.  Only the
\* blocks below the computed tokens are looked at, less the tokens of the step.
Invalid ==
  {r \in Reqs : /\ status[r] = "loading" /\ transfer[r] = "ended"
                /\ good[r] < computed[r] - Head(steps).tokens[r]}

IsStale(r) == stale[r] > 0

\* update_from_output of the oldest step: `accepted` drafts of each request,
\* and the requests in `eos` stop with their last token.
Update(accepted, eos) ==
  LET step == Head(steps)
      S == Scheduled(step)
      present == {r \in S : status[r] \notin {"new", "done"}}
      alive == {r \in S : status[r] \in {"waiting", "loading", "running"}}
      heard == {r \in alive \cap step.samples : ~(IsStale(r) /\ drop[r])}
      rejected == [r \in Reqs |-> step.drafts[r] - accepted[r]]
      new == [r \in Reqs |-> IF r \in heard THEN Least(1 + accepted[r], MaxOut - out[r]) ELSE 0]
      stopped == {r \in heard : r \in eos \/ out[r] + new[r] = MaxOut}
      ended == {r \in Reqs : transfer[r] = "ended"}
      refused == IF Recompute THEN {} ELSE Invalid
      released == stopped \cup refused \cup {r \in ended : status[r] = "aborted"}
      one == IF S = {} THEN 0 ELSE 1
      past == PastFence(one)
      fence1 == [r \in Reqs |-> IF fence[r] > 0 THEN fence[r] - one ELSE 0]
      gone == stopped \cup refused
  IN /\ pc = "idle" /\ steps # <<>> /\ steps' = Tail(steps)
     /\ inFlight' = [r \in Reqs |-> inFlight[r] - (IF r \in present THEN step.tokens[r] ELSE 0)]
     /\ stale' = [r \in Reqs |-> stale[r] - (IF r \in present /\ IsStale(r) THEN step.tokens[r] ELSE 0)]
     /\ out' = [r \in Reqs |-> out[r] + new[r]]
     /\ computed' = [r \in Reqs |->
          IF r \in Invalid THEN good[r]
          ELSE IF r \in heard /\ ~IsStale(r) /\ computed[r] > 0 THEN computed[r] - rejected[r]
          ELSE computed[r]]
     /\ placeholders' = [r \in Reqs |->
          IF r \in heard /\ ~IsStale(r) /\ placeholders[r] > 0
            THEN placeholders[r] - rejected[r] - new[r] ELSE placeholders[r]]
     /\ known' = [r \in Reqs |-> IF r \in step.samples THEN RunnerBase(r) + 1 + accepted[r]
                                 ELSE IF r \in S THEN RunnerBase(r) ELSE known[r]]
     /\ fence' = fence1
     /\ Release(released, free \cup Drained(past), StillDeferred(past, one), fence1, FenceNow - one)
     /\ status' = [r \in Reqs |-> IF r \in released THEN "done" ELSE status[r]]
     /\ running' = Without(running, gone)
     /\ waiting' = Without(waiting, gone)
     /\ skipped' = Without(skipped, gone)
     /\ prefilling' = prefilling \ gone
     /\ received' = received \cup {r \in ended \ refused : status[r] = "loading"}
     /\ failed' = failed \cup (Invalid \ refused)
     /\ transfer' = [r \in Reqs |-> IF r \in ended THEN "none" ELSE transfer[r]]
     /\ UNCHANGED <<drop, chunk, good, failures, pc, locals>>

Updates == steps # <<>> /\
  \E accepted \in [Reqs -> 0 .. SpecTokens], eos \in SUBSET Head(steps).samples :
    /\ \A r \in Reqs : accepted[r] <= Head(steps).drafts[r]
    /\ Update(accepted, eos)

Schedule ==
  \/ Begin \/ Pass \/ Consider \/ Allocate \/ Preempt \/ RunningDone
  \/ PassOver \/ Promote \/ Admit \/ WaitingDone \/ Dispatch
  \/ \E r \in Reqs : \E n \in Matches(r) : Load(n)

TransferOf(r) == \E n \in 0 .. MaxTokens : EndTransfer(r, n)

Next ==
  \/ Schedule \/ Updates
  \/ \E r \in Reqs : AddRequest(r) \/ Abort(r) \/ TransferOf(r)

Spec == Init /\ [][Next]_vars

\* The engine's loop turns, the runner answers, transfers end.
FairSpec == Spec /\ WF_vars(Schedule) /\ SF_vars(Updates) /\ \A r \in Reqs : SF_vars(TransferOf(r))

-----------------------------------------------------------------------------
(* Properties.                                                             *)

\* Blocks of the pool, of the requests and of the deferred frees are distinct.
Deferred == UNION {d.blocks : d \in Elements(deferred)}
BlocksAreHeldOnce ==
  /\ \A r, q \in Reqs : r # q => blocks[r] \cap blocks[q] = {}
  /\ \A r \in Reqs : blocks[r] \cap (free \cup Deferred) = {}
  /\ free \cap Deferred = {}

\* What a step in flight still writes stays with its request or out of the pool.
StepWritesKept ==
  \A s \in Elements(steps), r \in Reqs : s.writes[r] \subseteq blocks[r] \cup Deferred

\* A load under way has a request that waits for it, with its blocks.
LoadsKept ==
  \A r \in Reqs : transfer[r] # "none" =>
    status[r] \in {"loading", "aborted"} /\ Cardinality(blocks[r]) >= Ceil(good[r])

\* What a step in flight or a load still writes is given to nobody else, whoever
\* was preempted, aborted or finished meanwhile.
InFlightWritesKept == StepWritesKept /\ LoadsKept

\* A token is delivered at the position it was sampled for.
DeliveredInPlace ==
  [][\A r \in Reqs : out'[r] > out[r] => NumTokens(r) = RunnerBase(r)]_vars

\* A decode that could run is not left out of a step by prefills.
GuardedDecodes ==
  [][Dispatch /\ ~preempted => \A r \in Reqs :
       status[r] = "running" /\ ~chunk[r] /\ ~Exhausted(r) /\ Behind(r) > 0 => tokens[r] > 0]_vars

\* After a load that failed in part only the valid tokens count as computed.
InvalidIsRecomputed ==
  [][\A r \in Reqs : status[r] = "loading" /\ status'[r] = "waiting" =>
       computed'[r] <= good[r]]_vars

\* Every request that is not aborted is finished.
EveryRequestEnds ==
  <>[](failures > 0 \/ \A r \in Reqs : status[r] \in {"new", "done"})
=============================================================================
