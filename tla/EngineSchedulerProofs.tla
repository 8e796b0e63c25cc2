------------------------- MODULE EngineSchedulerProofs -------------------------
(* What the engine's scheduler keeps for every number of requests, blocks and *)
(* steps in flight: a KV block has one owner, what a step in flight or a load *)
(* still writes is not given to somebody else, an invalid load is computed    *)
(* again, what reaches a request was sampled behind its last token, no        *)
(* counter leaves its range, and the guard leaves no decode out of a step.    *)
EXTENDS EngineScheduler, SequenceTheorems, FiniteSetTheorems, WellFoundedInduction, TLAPS

-----------------------------------------------------------------------------
(* Least elements, queues and counts.                                         *)

\* A set of numbers has a least one.
LEMMA LeastIn ==
  ASSUME NEW S, S \subseteq Nat, S # {}
  PROVE  \E x \in S : \A y \in S : x <= y
<1>1. PICK x \in S : \A y \in S : ~ (<<y, x>> \in OpToRel(<, Nat))
  BY NatLessThanWellFounded, WFMin
<1>2. \A y \in S : ~ (y < x)
  BY <1>1, Zenon DEF OpToRel
<1> QED
  BY <1>2

\* s without the requests of S, up to place i.
Rest(s, S, f) ==
  f = [i \in 0 .. Len(s) |->
         IF i = 0 THEN <<>> ELSE IF s[i] \in S THEN f[i - 1] ELSE Append(f[i - 1], s[i])]

\* The recursive function of Without exists: were it not, there would be a first
\* place up to which it cannot be built.
LEMMA RestExists ==
  ASSUME NEW T, NEW s \in Seq(T), NEW S
  PROVE  \E f : Rest(s, S, f)
<1> DEFINE Next1(f, i) == IF s[i] \in S THEN f[i - 1] ELSE Append(f[i - 1], s[i])
           UpTo(f, n) == /\ f = [i \in 0 .. n |-> f[i]]
                         /\ f[0] = <<>>
                         /\ \A i \in 1 .. n : f[i] = Next1(f, i)
           Bad == {n \in Nat : n <= Len(s) /\ ~ \E f : UpTo(f, n)}
<1>1. Len(s) \in Nat
  BY LenProperties
<1>2. Bad = {}
  <2> SUFFICES ASSUME Bad # {} PROVE FALSE
    OBVIOUS
  <2>1. PICK n \in Bad : \A m \in Bad : n <= m
    BY LeastIn
  <2>2. n # 0
    <3> DEFINE g == [i \in 0 .. 0 |-> <<>>]
    <3>1. UpTo(g, 0)
      OBVIOUS
    <3> QED
      BY <3>1
  <2>3. n - 1 \in Nat /\ n - 1 <= Len(s) /\ n - 1 \notin Bad
    BY <1>1, <2>1, <2>2
  <2>4. PICK f : UpTo(f, n - 1)
    BY <2>3
  <2> DEFINE g == [i \in 0 .. n |-> IF i = n THEN Next1(f, n) ELSE f[i]]
  <2>5. g[0] = <<>> /\ g = [i \in 0 .. n |-> g[i]]
    BY <2>2, <2>3, <2>4
  <2>6. \A i \in 1 .. n : g[i] = Next1(g, i)
    <3> SUFFICES ASSUME NEW i \in 1 .. n PROVE g[i] = Next1(g, i)
      OBVIOUS
    <3>1. g[i - 1] = f[i - 1]
      BY <2>3
    <3>2. CASE i = n
      BY <3>1, <3>2, <2>3
    <3>3. CASE i # n
      <4>1. i \in 1 .. n - 1 /\ i \in 0 .. n
        BY <3>3, <2>3
      <4>2. f[i] = Next1(f, i)
        BY <4>1, <2>4
      <4> QED
        BY <4>1, <4>2, <3>1, <3>3
    <3> QED
      BY <3>2, <3>3
  <2>7. UpTo(g, n)
    BY <2>5, <2>6
  <2> QED
    BY <2>1, <2>7
<1>3. PICK f : UpTo(f, Len(s))
  BY <1>1, <1>2
<1>4. \A i \in 0 .. Len(s) : f[i] = IF i = 0 THEN <<>> ELSE Next1(f, i)
  BY <1>1, <1>3
<1>5. f = [i \in 0 .. Len(s) |-> IF i = 0 THEN <<>> ELSE Next1(f, i)]
  BY <1>3, <1>4
<1> QED
  BY <1>5 DEF Rest

\* Without keeps requests of the queue that are not in S, each at most as often.
LEMMA WithoutKeeps ==
  ASSUME NEW T, NEW s \in Seq(T), NEW S
  PROVE  /\ Without(s, S) \in Seq(T)
         /\ \A k \in 1 .. Len(Without(s, S)) :
              \E i \in 1 .. Len(s) : Without(s, S)[k] = s[i] /\ s[i] \notin S
         /\ (\A i, j \in 1 .. Len(s) : s[i] = s[j] => i = j)
              => \A i, j \in 1 .. Len(Without(s, S)) :
                   Without(s, S)[i] = Without(s, S)[j] => i = j
<1> DEFINE f == CHOOSE g : Rest(s, S, g)
           Once == \A i, j \in 1 .. Len(s) : s[i] = s[j] => i = j
           Good(n) == /\ f[n] \in Seq(T)
                      /\ \A k \in 1 .. Len(f[n]) :
                           \E i \in 1 .. n : f[n][k] = s[i] /\ s[i] \notin S
                      /\ Once => \A i, j \in 1 .. Len(f[n]) : f[n][i] = f[n][j] => i = j
           Bad == {n \in Nat : n <= Len(s) /\ ~Good(n)}
<1>1. Len(s) \in Nat /\ \A i \in 1 .. Len(s) : s[i] \in T
  BY LenProperties
<1>2. Rest(s, S, f)
  BY RestExists, Zenon
<1>4. Without(s, S) = f[Len(s)]
  BY Zenon DEF Without, Rest
<1> HIDE DEF f
<1>3. f[0] = <<>> /\ \A i \in 1 .. Len(s) :
        f[i] = IF s[i] \in S THEN f[i - 1] ELSE Append(f[i - 1], s[i])
  <2>1. \A i \in 0 .. Len(s) :
          f[i] = IF i = 0 THEN <<>> ELSE IF s[i] \in S THEN f[i - 1] ELSE Append(f[i - 1], s[i])
    BY <1>2, Zenon DEF Rest
  <2>2. 0 \in 0 .. Len(s) /\ \A i \in 1 .. Len(s) : i \in 0 .. Len(s) /\ i # 0
    BY <1>1
  <2> QED
    BY <2>1, <2>2, Zenon
<1>5. Bad = {}
  <2> SUFFICES ASSUME Bad # {} PROVE FALSE
    OBVIOUS
  <2>1. PICK n \in Bad : \A m \in Bad : n <= m
    BY LeastIn
  <2>2. n # 0
    <3>1. Good(0)
      <4>1. <<>> \in Seq(T) /\ Len(<<>>) = 0
        OBVIOUS
      <4> QED
        BY <1>3, <4>1
    <3> HIDE DEF Good
    <3> QED
      BY <3>1, <2>1
  <2>3. n \in 1 .. Len(s) /\ Good(n - 1) /\ ~Good(n)
    <3> HIDE DEF Good
    <3>1. n \in 1 .. Len(s) /\ ~Good(n)
      BY <1>1, <2>1, <2>2
    <3>2. n - 1 \in Nat /\ n - 1 <= Len(s) /\ n - 1 \notin Bad
      BY <1>1, <2>1, <3>1
    <3> QED
      BY <3>1, <3>2
  <2>4. CASE s[n] \in S
    <3>1. f[n] = f[n - 1]
      BY <1>3, <2>3, <2>4
    <3>2. \A k \in 1 .. Len(f[n]) : \E i \in 1 .. n : f[n][k] = s[i] /\ s[i] \notin S
      <4>1. \A i \in 1 .. n - 1 : i \in 1 .. n
        BY <2>3, <1>1
      <4> QED
        BY <4>1, <3>1, <2>3, Zenon
    <3> QED
      BY <3>1, <3>2, <2>3, Zenon
  <2>5. CASE s[n] \notin S
    <3> DEFINE r == f[n - 1]
    <3>1. f[n] = Append(r, s[n]) /\ s[n] \in T /\ r \in Seq(T)
      BY <1>1, <1>3, <2>3, <2>5
    <3>2. /\ f[n] \in Seq(T) /\ Len(f[n]) = Len(r) + 1 /\ Len(r) \in Nat
          /\ \A i \in 1 .. Len(r) : f[n][i] = r[i]
          /\ f[n][Len(r) + 1] = s[n]
      BY <3>1, AppendProperties, LenProperties
    <3>3. \A k \in 1 .. Len(r) : \E i \in 1 .. n - 1 : r[k] = s[i] /\ s[i] \notin S
      BY <2>3
    <3>4. Once => \A i, j \in 1 .. Len(r) : r[i] = r[j] => i = j
      BY <2>3
    <3> HIDE DEF r
    <3>5. \A k \in 1 .. Len(f[n]) : \E i \in 1 .. n : f[n][k] = s[i] /\ s[i] \notin S
      <4> SUFFICES ASSUME NEW k \in 1 .. Len(f[n])
                   PROVE  \E i \in 1 .. n : f[n][k] = s[i] /\ s[i] \notin S
        OBVIOUS
      <4>1. CASE k = Len(r) + 1
        BY <4>1, <3>2, <2>5, <2>3
      <4>2. CASE k \in 1 .. Len(r)
        BY <4>2, <3>2, <3>3, <2>3
      <4> QED
        BY <3>2, <4>1, <4>2
    <3>6. ASSUME Once, NEW i \in 1 .. Len(f[n]), NEW j \in 1 .. Len(f[n]), f[n][i] = f[n][j]
          PROVE  i = j
      <4>1. \A k \in 1 .. Len(r) : r[k] # s[n]
        <5> SUFFICES ASSUME NEW k \in 1 .. Len(r), r[k] = s[n] PROVE FALSE
          OBVIOUS
        <5>1. PICK h \in 1 .. n - 1 : r[k] = s[h]
          BY <3>3
        <5>2. n \in 1 .. Len(s)
          BY <2>3
        <5>3. h \in 1 .. Len(s) /\ h # n /\ s[h] = s[n]
          <6> HIDE DEF Good, Once
          <6> QED
            BY <5>1, <5>2, <1>1
        <5> QED
          BY <5>2, <5>3, <3>6
      <4> HIDE DEF Good
      <4>2. \A k \in 1 .. Len(f[n]) : k \in 1 .. Len(r) \/ k = Len(r) + 1
        BY <3>2
      <4>3. CASE i \in 1 .. Len(r) /\ j \in 1 .. Len(r)
        BY <4>3, <3>2, <3>4, <3>6
      <4>4. CASE i \in 1 .. Len(r) /\ j = Len(r) + 1
        BY <4>1, <4>4, <3>2, <3>6
      <4>5. CASE i = Len(r) + 1 /\ j \in 1 .. Len(r)
        BY <4>1, <4>5, <3>2, <3>6
      <4> QED
        BY <4>2, <4>3, <4>4, <4>5
    <3> QED
      BY <3>2, <3>5, <3>6, <2>3, Zenon
  <2> QED
    BY <2>4, <2>5
<1>6. Good(Len(s))
  <2> HIDE DEF Good
  <2>1. Len(s) \notin Bad /\ Len(s) <= Len(s)
    BY <1>1, <1>5
  <2> QED
    BY <1>1, <2>1
<1> QED
  BY <1>4, <1>6

\* How many of the first i of some steps have a token: a step without is not
\* executed, and no fence counts it.
Count(ss, i) == Cardinality({k \in 1 .. i : Scheduled(ss[k]) # {}})

\* It is a number.
LEMMA CountType ==
  ASSUME NEW ss, NEW i \in Nat
  PROVE  IsFiniteSet({k \in 1 .. i : Scheduled(ss[k]) # {}}) /\ Count(ss, i) \in Nat
<1>1. IsFiniteSet(1 .. i)
  BY FS_Interval
<1>2. IsFiniteSet({k \in 1 .. i : Scheduled(ss[k]) # {}})
  BY <1>1, FS_Subset
<1> QED
  BY <1>2, FS_CardinalityType DEF Count

\* More steps count no less.
LEMMA CountGrows ==
  ASSUME NEW ss, NEW j \in Nat, NEW i \in 0 .. j
  PROVE  Count(ss, i) <= Count(ss, j)
<1>1. {k \in 1 .. i : Scheduled(ss[k]) # {}} \in SUBSET {k \in 1 .. j : Scheduled(ss[k]) # {}}
  OBVIOUS
<1> QED
  BY <1>1, CountType, FS_Subset DEF Count

\* One more step counts one more, if it has a token.
LEMMA CountNext ==
  ASSUME NEW ss, NEW i \in Nat
  PROVE  Count(ss, i + 1) = Count(ss, i) + (IF Scheduled(ss[i + 1]) = {} THEN 0 ELSE 1)
<1> DEFINE A == {k \in 1 .. i : Scheduled(ss[k]) # {}}
           B == {k \in 1 .. i + 1 : Scheduled(ss[k]) # {}}
<1>0. Count(ss, i) = Cardinality(A) /\ Count(ss, i + 1) = Cardinality(B)
  BY DEF Count
<1>1. IsFiniteSet(A) /\ i + 1 \notin A /\ Cardinality(A) \in Nat
  <2>1. i + 1 \notin 1 .. i
    OBVIOUS
  <2>2. IsFiniteSet(A)
    BY CountType
  <2> QED
    BY <2>1, <2>2, FS_CardinalityType
<1>2. CASE Scheduled(ss[i + 1]) = {}
  <2>1. B = A
    BY <1>2
  <2> HIDE DEF A, B
  <2> QED
    BY <1>0, <1>1, <1>2, <2>1
<1>3. CASE Scheduled(ss[i + 1]) # {}
  <2>1. B = A \cup {i + 1}
    BY <1>3
  <2> HIDE DEF A, B
  <2> QED
    BY <1>0, <1>1, <1>3, <2>1, FS_AddElement
<1> QED
  BY <1>2, <1>3

\* Equal steps count the same.
LEMMA CountOfSame ==
  ASSUME NEW ss, NEW tt, NEW i \in Nat, \A k \in 1 .. i : ss[k] = tt[k]
  PROVE  Count(ss, i) = Count(tt, i)
<1>1. {k \in 1 .. i : Scheduled(ss[k]) # {}} = {k \in 1 .. i : Scheduled(tt[k]) # {}}
  OBVIOUS
<1> QED
  BY <1>1 DEF Count

\* A step with a token counts itself.
LEMMA CountPositive ==
  ASSUME NEW ss, NEW i \in Nat \ {0}, Scheduled(ss[i]) # {}
  PROVE  Count(ss, i) \in Nat /\ Count(ss, i) >= 1
<1>1. i - 1 \in Nat /\ (i - 1) + 1 = i
  OBVIOUS
<1>2. Count(ss, (i - 1) + 1) = Count(ss, i - 1) + (IF Scheduled(ss[(i - 1) + 1]) = {} THEN 0 ELSE 1)
  BY <1>1, CountNext
<1>3. Count(ss, i - 1) \in Nat
  BY <1>1, CountType
<1> QED
  BY <1>1, <1>2, <1>3

\* The first n steps of tt are those of ss behind its first.
Follows(ss, tt, n) == \A k \in 1 .. n : tt[k] = ss[k + 1]

\* Without its first step a sequence counts one less, or as much.
LEMMA CountTail ==
  ASSUME NEW ss, NEW tt, NEW n \in Nat, Follows(ss, tt, n)
  PROVE  \A i \in 0 .. n :
           Count(ss, i + 1) = Count(tt, i) + (IF Scheduled(ss[1]) = {} THEN 0 ELSE 1)
<1> DEFINE one == IF Scheduled(ss[1]) = {} THEN 0 ELSE 1
           Bad == {i \in 0 .. n : Count(ss, i + 1) # Count(tt, i) + one}
<1>1. Bad = {}
  <2> SUFFICES ASSUME Bad # {} PROVE FALSE
    OBVIOUS
  <2>1. PICK i \in Bad : \A j \in Bad : i <= j
    <3>1. Bad \subseteq Nat
      OBVIOUS
    <3> HIDE DEF Bad
    <3> QED
      BY <3>1, LeastIn
  <2>2. i \in 0 .. n /\ Count(ss, i + 1) # Count(tt, i) + one
    BY <2>1
  <2>3. CASE i = 0
    <3>1. {k \in 1 .. 0 : Scheduled(ss[k]) # {}} = {} /\ {k \in 1 .. 0 : Scheduled(tt[k]) # {}} = {}
      OBVIOUS
    <3>2. Count(ss, 0) = 0 /\ Count(tt, 0) = 0
      BY <3>1, FS_EmptySet DEF Count
    <3>3. Count(ss, 0 + 1) = Count(ss, 0) + (IF Scheduled(ss[0 + 1]) = {} THEN 0 ELSE 1)
      BY CountNext
    <3> QED
      BY <3>2, <3>3, <2>2, <2>3
  <2>4. CASE i # 0
    <3>1. i - 1 \in Nat /\ i - 1 \in 0 .. n /\ i - 1 \notin Bad
      BY <2>1, <2>2, <2>4
    <3>2. Count(ss, i) = Count(tt, i - 1) + one
      BY <3>1, <2>2
    <3>3. Count(ss, i + 1) = Count(ss, i) + (IF Scheduled(ss[i + 1]) = {} THEN 0 ELSE 1)
      <4>1. i \in Nat
        BY <2>2
      <4> QED
        BY <4>1, CountNext
    <3>4. Count(tt, (i - 1) + 1) = Count(tt, i - 1) + (IF Scheduled(tt[(i - 1) + 1]) = {} THEN 0 ELSE 1)
      BY <3>1, CountNext
    <3>5. tt[i] = ss[i + 1] /\ (i - 1) + 1 = i
      BY <2>2, <2>4 DEF Follows
    <3>6. Count(tt, i - 1) \in Nat /\ one \in Nat
      BY <3>1, CountType
    <3> HIDE DEF one
    <3> QED
      BY <3>2, <3>3, <3>4, <3>5, <3>6, <2>2
  <2> QED
    BY <2>3, <2>4
<1> QED
  BY <1>1

-----------------------------------------------------------------------------
(* The invariant.                                                             *)

Freed == [fence : Int, blocks : SUBSET Blocks]

Output == [tokens : [Reqs -> Int], drafts : [Reqs -> Int], samples : SUBSET Reqs,
           base : [Reqs -> Int], writes : [Reqs -> SUBSET Blocks], loads : SUBSET Reqs]

\* Types that need no account of how many tokens are in flight.
Types ==
  /\ status \in [Reqs -> Statuses]
  /\ waiting \in Seq(Reqs) /\ skipped \in Seq(Reqs) /\ running \in Seq(Reqs)
  /\ passed \in Seq(Reqs)
  /\ out \in [Reqs -> Int] /\ computed \in [Reqs -> Int] /\ placeholders \in [Reqs -> Int]
  /\ good \in [Reqs -> Int] /\ fence \in [Reqs -> Nat]
  /\ blocks \in [Reqs -> SUBSET Blocks] /\ free \subseteq Blocks /\ deferred \in Seq(Freed)
  /\ received \subseteq Reqs /\ steps \in Seq(Output)
  /\ transfer \in [Reqs -> {"none", "asked", "going", "ended"}]
  /\ pc \in {"idle", "running", "waiting", "dispatch"} /\ index \in Nat \ {0}
  /\ budget \in Int /\ want \in Int /\ tokens \in [Reqs -> Int] /\ base \in [Reqs -> Int]

\* The running queue holds running requests, each of them once.
Queue ==
  /\ \A i \in 1 .. Len(running) : status[running[i]] = "running"
  /\ \A i, j \in 1 .. Len(running) : running[i] = running[j] => i = j

\* Tokens go to running requests, in the first loop to those it has passed.
Given ==
  \A r \in Reqs : tokens[r] # 0 =>
    /\ status[r] = "running" /\ pc # "idle"
    /\ pc = "running" => \E i \in 1 .. Len(running) : i < index /\ running[i] = r

\* The blocks of requests b, of the pool f and of the deferred frees d are distinct.
Distinct(b, f, d) ==
  /\ \A r, q \in Reqs : r # q => b[r] \cap b[q] = {}
  /\ \A r \in Reqs : b[r] \cap f = {}
  /\ \A r \in Reqs : \A i \in 1 .. Len(d) : b[r] \cap d[i].blocks = {}
  /\ \A i \in 1 .. Len(d) : d[i].blocks \cap f = {}
  /\ \A i, j \in 1 .. Len(d) : i # j => d[i].blocks \cap d[j].blocks = {}

Held == Distinct(blocks, free, deferred)

\* A block that step i writes for r is its request's, which cannot leave it to the
\* pool before that step, or is deferred until then.
Fenced(i, r, b) ==
  \/ b \in blocks[r] /\ status[r] = "running" /\ fence[r] >= Count(steps, i)
  \/ \E k \in 1 .. Len(deferred) : b \in deferred[k].blocks /\ deferred[k].fence >= Count(steps, i)

Writes ==
  \A i \in 1 .. Len(steps) : \A r \in Reqs : \A b \in steps[i].writes[r] :
    steps[i].tokens[r] > 0 /\ Fenced(i, r, b)

\* No step from place i on has a token for r.
QuietFrom(ss, i, r) == \A j \in i .. Len(ss) : ss[j].tokens[r] = 0

\* A request whose load is under way has no token behind the step that started
\* it, none at all once the load has ended.
Loading ==
  \A r \in Reqs :
    /\ transfer[r] # "none" => status[r] \in {"loading", "aborted", "done"}
    /\ transfer[r] = "going" => \/ QuietFrom(steps, 1, r)
                                \/ \E i \in 1 .. Len(steps) :
                                     r \in steps[i].loads /\ QuietFrom(steps, i, r)
    /\ transfer[r] = "ended" => QuietFrom(steps, 1, r)

\* A request told that its load has ended counts valid tokens only.
Received ==
  \A r \in received : /\ status[r] = "loading" /\ transfer[r] = "none"
                      /\ computed[r] <= good[r] /\ QuietFrom(steps, 1, r)

IInv == Types /\ Queue /\ Given /\ Held /\ Writes /\ Loading /\ Received

-----------------------------------------------------------------------------
(* What the operations on the pool do.                                        *)

\* Blocks taken for r leave the pool and join r's.
LEMMA TakeHolds ==
  ASSUME Types, Held, NEW r, NEW n, Take(r, n)
  PROVE  /\ blocks' \in [Reqs -> SUBSET Blocks] /\ free' \subseteq Blocks
         /\ Distinct(blocks', free', deferred)
         /\ \A q \in Reqs : blocks[q] \subseteq blocks'[q]
<1> DEFINE L == Lowest(Lacking(r, n))
<1>1. L \subseteq free /\ L \subseteq Blocks
  BY DEF Lowest, Types
<1>2. /\ blocks \in [Reqs -> SUBSET Blocks] /\ free \subseteq Blocks
      /\ blocks' = [blocks EXCEPT ![r] = @ \cup L] /\ free' = free \ L
  BY DEF Take, Types
<1> HIDE DEF L
<1>3. \A q \in Reqs : blocks'[q] = IF q = r THEN blocks[q] \cup L ELSE blocks[q]
  BY <1>2
<1>4. blocks' \in [Reqs -> SUBSET Blocks] /\ free' \subseteq Blocks
  BY <1>1, <1>2
<1>5. \A p, q \in Reqs : p # q => blocks'[p] \cap blocks'[q] = {}
  BY <1>1, <1>3 DEF Held, Distinct
<1>6. \A q \in Reqs : blocks'[q] \cap free' = {}
  BY <1>1, <1>2, <1>3 DEF Held, Distinct
<1>7. \A q \in Reqs : \A i \in 1 .. Len(deferred) : blocks'[q] \cap deferred[i].blocks = {}
  BY <1>1, <1>3 DEF Held, Distinct
<1>8. \A i \in 1 .. Len(deferred) : deferred[i].blocks \cap free' = {}
  BY <1>2 DEF Held, Distinct
<1> QED
  BY <1>3, <1>4, <1>5, <1>6, <1>7, <1>8 DEF Held, Distinct

\* The requests of S have released their blocks, those with a fence to a further
\* deferred free.
Released(S, later0, f, now) ==
  /\ \A r \in Reqs : blocks'[r] = IF r \in S THEN {} ELSE blocks[r]
  /\ Len(later0) <= Len(deferred') /\ \A i \in 1 .. Len(later0) : deferred'[i] = later0[i]
  /\ \A r \in S : f[r] > 0 => \A b \in blocks[r] :
       \E k \in 1 .. Len(deferred') : b \in deferred'[k].blocks /\ deferred'[k].fence = now

\* Blocks that are released join the pool or one more deferred free, which holds
\* those of the requests with a fence.
LEMMA ReleaseHolds ==
  ASSUME Types, NEW S \in SUBSET Reqs, NEW pool0 \in SUBSET Blocks, NEW later0 \in Seq(Freed),
         NEW f \in [Reqs -> Nat], NEW now \in Int,
         Distinct(blocks, pool0, later0), Release(S, pool0, later0, f, now)
  PROVE  /\ blocks' \in [Reqs -> SUBSET Blocks] /\ free' \subseteq Blocks
         /\ deferred' \in Seq(Freed)
         /\ Distinct(blocks', free', deferred')
         /\ Released(S, later0, f, now)
<1> DEFINE done == UNION {blocks[r] : r \in {r \in S : f[r] = 0}}
           late == UNION {blocks[r] : r \in {r \in S : f[r] > 0}}
           e == [fence |-> now, blocks |-> late]
<1>1. blocks \in [Reqs -> SUBSET Blocks]
  BY DEF Types
<1>2. /\ free' = pool0 \cup done
      /\ deferred' = IF late = {} THEN later0 ELSE Append(later0, e)
      /\ blocks' = [r \in Reqs |-> IF r \in S THEN {} ELSE blocks[r]]
  BY Zenon DEF Release
<1>3. late \subseteq Blocks /\ done \subseteq Blocks
  BY <1>1
<1>4. /\ \A r, q \in Reqs : r # q => blocks[r] \cap blocks[q] = {}
      /\ \A r \in Reqs : blocks[r] \cap pool0 = {}
      /\ \A r \in Reqs : \A i \in 1 .. Len(later0) : blocks[r] \cap later0[i].blocks = {}
      /\ \A i \in 1 .. Len(later0) : later0[i].blocks \cap pool0 = {}
      /\ \A i, j \in 1 .. Len(later0) : i # j => later0[i].blocks \cap later0[j].blocks = {}
  BY DEF Distinct
<1>5. late \cap done = {} /\ late \cap pool0 = {}
  <2>1. \A r, q \in S : f[r] = 0 /\ f[q] > 0 => r # q
    OBVIOUS
  <2> QED
    BY <1>4, <2>1
<1>6. \A r \in Reqs \ S : blocks[r] \cap late = {} /\ blocks[r] \cap done = {}
  BY <1>4
<1>7. \A i \in 1 .. Len(later0) : later0[i].blocks \cap late = {} /\ later0[i].blocks \cap done = {}
  BY <1>4
<1>8. \A r \in S : f[r] > 0 => blocks[r] \subseteq late
  OBVIOUS
<1>9. Len(later0) \in Nat /\ \A i \in 1 .. Len(later0) : later0[i] \in Freed
  BY LenProperties
<1> HIDE DEF done, late
<1>10. e \in Freed /\ e.blocks = late /\ e.fence = now
  BY <1>3 DEF Freed
<1>11. \A r \in Reqs : blocks'[r] = IF r \in S THEN {} ELSE blocks[r]
  BY <1>2
<1>12. blocks' \in [Reqs -> SUBSET Blocks] /\ free' \subseteq Blocks
  BY <1>1, <1>2, <1>3
<1>13. \A r, q \in Reqs : r # q => blocks'[r] \cap blocks'[q] = {}
  BY <1>4, <1>11
<1>14. \A r \in Reqs : blocks'[r] \cap free' = {}
  BY <1>2, <1>4, <1>6, <1>11
<1> HIDE DEF e
<1>15. CASE late = {}
  <2>1. deferred' = later0
    BY <1>2, <1>15
  <2>2. \A i \in 1 .. Len(later0) : later0[i].blocks \cap free' = {}
    BY <1>2, <1>4, <1>7
  <2>3. \A r \in Reqs : \A i \in 1 .. Len(later0) : blocks'[r] \cap later0[i].blocks = {}
    BY <1>4, <1>11
  <2>4. Distinct(blocks', free', deferred')
    BY <1>4, <1>13, <1>14, <2>1, <2>2, <2>3 DEF Distinct
  <2>5. \A r \in S : f[r] > 0 => blocks[r] = {}
    BY <1>8, <1>15
  <2> QED
    BY <1>9, <1>11, <1>12, <2>1, <2>4, <2>5 DEF Released
<1>16. CASE late # {}
  <2> DEFINE d == Append(later0, e)
  <2>1. /\ d \in Seq(Freed) /\ Len(d) = Len(later0) + 1
        /\ \A i \in 1 .. Len(later0) : d[i] = later0[i]
        /\ d[Len(later0) + 1] = e
    BY <1>10, AppendProperties
  <2>2. deferred' = d
    BY <1>2, <1>16
  <2> HIDE DEF d
  <2>3. \A i \in 1 .. Len(d) : \/ i \in 1 .. Len(later0) /\ d[i] = later0[i]
                               \/ i = Len(later0) + 1 /\ d[i] = e
    <3> SUFFICES ASSUME NEW i \in 1 .. Len(d)
                 PROVE  \/ i \in 1 .. Len(later0) /\ d[i] = later0[i]
                        \/ i = Len(later0) + 1 /\ d[i] = e
      OBVIOUS
    <3>1. i \in 1 .. Len(later0) \/ i = Len(later0) + 1
      BY <1>9, <2>1
    <3> QED
      BY <3>1, <2>1
  <2>4. \A i \in 1 .. Len(d) : d[i].blocks \cap free' = {}
    BY <1>2, <1>4, <1>5, <1>7, <1>10, <2>3
  <2>5. \A r \in Reqs : \A i \in 1 .. Len(d) : blocks'[r] \cap d[i].blocks = {}
    BY <1>4, <1>6, <1>10, <1>11, <2>3
  <2>6. \A i, j \in 1 .. Len(d) : i # j => d[i].blocks \cap d[j].blocks = {}
    BY <1>4, <1>7, <1>10, <2>3
  <2>7. Distinct(blocks', free', deferred')
    BY <1>13, <1>14, <2>2, <2>4, <2>5, <2>6 DEF Distinct
  <2>8. \A r \in S : f[r] > 0 => \A b \in blocks[r] :
          \E k \in 1 .. Len(d) : b \in d[k].blocks /\ d[k].fence = now
    <3>1. Len(later0) + 1 \in 1 .. Len(d) /\ d[Len(later0) + 1].blocks = late
          /\ d[Len(later0) + 1].fence = now
      BY <1>9, <1>10, <2>1
    <3> QED
      BY <1>8, <3>1
  <2> QED
    BY <1>9, <1>11, <1>12, <2>1, <2>2, <2>7, <2>8 DEF Released
<1> QED
  BY <1>15, <1>16

\* Deferred frees are drained from the front, and as far as their fences allow.
LEMMA PastFenceIn ==
  ASSUME Types, NEW n
  PROVE  /\ PastFence(n) \in 0 .. Len(deferred)
         /\ \A i \in 1 .. PastFence(n) : deferred[i].fence <= n
         /\ PastFence(n) < Len(deferred) => ~(deferred[PastFence(n) + 1].fence <= n)
<1> DEFINE P(k) == \A i \in 1 .. k : deferred[i].fence <= n
           Ends == {k \in Nat : k <= Len(deferred) /\ ~P(k)}
           Stop(k) == P(k) /\ (k < Len(deferred) => ~(deferred[k + 1].fence <= n))
<1>1. Len(deferred) \in Nat
  BY LenProperties DEF Types
<1>2. \E k \in 0 .. Len(deferred) : Stop(k)
  <2>1. CASE Ends = {}
    <3>1. P(Len(deferred))
      BY <1>1, <2>1
    <3>2. Len(deferred) \in 0 .. Len(deferred) /\ ~(Len(deferred) < Len(deferred))
      BY <1>1
    <3> QED
      BY <3>1, <3>2
  <2>2. CASE Ends # {}
    <3>1. PICK k \in Ends : \A m \in Ends : k <= m
      <4>1. Ends \subseteq Nat
        OBVIOUS
      <4> HIDE DEF Ends
      <4> QED
        BY <2>2, <4>1, LeastIn
    <3>2. k \in Nat /\ k <= Len(deferred) /\ ~P(k)
      BY <3>1
    <3>3. k # 0
      BY <3>2
    <3>4. k - 1 \in Nat /\ k - 1 <= Len(deferred) /\ k - 1 \notin Ends
      <4> HIDE DEF P
      <4> QED
        BY <1>1, <3>1, <3>2, <3>3
    <3>5. P(k - 1)
      BY <3>4
    <3>6. PICK i \in 1 .. k : ~(deferred[i].fence <= n)
      BY <3>2
    <3>7. i = k
      BY <3>2, <3>5, <3>6
    <3>8. k - 1 \in 0 .. Len(deferred) /\ ~(deferred[(k - 1) + 1].fence <= n)
      BY <1>1, <3>2, <3>3, <3>6, <3>7
    <3> QED
      BY <3>5, <3>8
  <2> QED
    BY <2>1, <2>2
<1>3. PastFence(n) = CHOOSE k \in 0 .. Len(deferred) : Stop(k)
  BY DEF PastFence
<1> HIDE DEF Stop
<1>4. PastFence(n) \in 0 .. Len(deferred) /\ Stop(PastFence(n))
  BY <1>2, <1>3, Zenon
<1> QED
  BY <1>4 DEF Stop

-----------------------------------------------------------------------------
(* What an output taken back does.                                            *)

\* Whether the oldest step counts for the fences, and what a fence becomes.
One == IF Scheduled(steps[1]) = {} THEN 0 ELSE 1
FenceAfter == [r \in Reqs |-> IF fence[r] > 0 THEN fence[r] - One ELSE 0]

\* update_from_output with the data left out that no invariant is about: the
\* requests of S end, those of gone leave the queues.
Taken(S, gone) ==
  /\ gone \subseteq S
  /\ pc = "idle" /\ steps # <<>> /\ steps' = Tail(steps) /\ fence' = FenceAfter
  /\ Release(S, free \cup Drained(PastFence(One)), StillDeferred(PastFence(One), One),
             FenceAfter, FenceNow - One)
  /\ status' = [r \in Reqs |-> IF r \in S THEN "done" ELSE status[r]]
  /\ running' = Without(running, gone) /\ waiting' = Without(waiting, gone)
  /\ skipped' = Without(skipped, gone)
  /\ transfer' = [r \in Reqs |-> IF transfer[r] = "ended" THEN "none" ELSE transfer[r]]
  /\ \A r \in S : status[r] = "running" => r \in gone
  /\ \A r \in S : transfer[r] = "ended" \/ steps[1].tokens[r] > 0
  /\ received \subseteq received'
  /\ \A r \in received' \ received :
       r \in Reqs /\ transfer[r] = "ended" /\ status[r] = "loading"
  /\ \A r \in received' \ received : r \in S => steps[1].tokens[r] > 0
  /\ \A r \in Reqs : transfer[r] = "ended" /\ status[r] = "loading" /\ steps[1].tokens[r] = 0
       => computed'[r] <= good[r]
  /\ \A r \in Reqs : transfer[r] # "ended" /\ steps[1].tokens[r] = 0 => computed'[r] = computed[r]
  /\ UNCHANGED <<good, pc, index, budget, want, tokens, base, passed>>

\* Every output taken back does that, for some S and gone.
LEMMA UpdateTakes ==
  ASSUME Types, steps # <<>>, NEW accepted \in [Reqs -> 0 .. SpecTokens],
         NEW eos \in SUBSET Head(steps).samples, Update(accepted, eos)
  PROVE  /\ \E S \in SUBSET Reqs, gone \in SUBSET Reqs : Taken(S, gone)
         /\ out' \in [Reqs -> Int] /\ computed' \in [Reqs -> Int] /\ placeholders' \in [Reqs -> Int]
         /\ good' \in [Reqs -> Int]
<1> DEFINE step == Head(steps)
           present == {r \in Scheduled(step) : status[r] \notin {"new", "done"}}
           alive == {r \in Scheduled(step) : status[r] \in {"waiting", "loading", "running"}}
           heard == {r \in alive \cap step.samples : ~(IsStale(r) /\ drop[r])}
           rejected == [r \in Reqs |-> step.drafts[r] - accepted[r]]
           new == [r \in Reqs |-> IF r \in heard THEN Least(1 + accepted[r], MaxOut - out[r]) ELSE 0]
           stopped == {r \in heard : r \in eos \/ out[r] + new[r] = MaxOut}
           ended == {r \in Reqs : transfer[r] = "ended"}
           refused == IF Recompute THEN {} ELSE Invalid
           released == stopped \cup refused \cup {r \in ended : status[r] = "aborted"}
           gone == stopped \cup refused
<1>1. step = steps[1] /\ step \in Output
  BY HeadTailProperties, LenProperties DEF Types
<1>2. Scheduled(step) = {r \in Reqs : step.tokens[r] > 0}
  BY Zenon DEF Scheduled
<1>3. heard \subseteq Scheduled(step) /\ heard \subseteq Reqs
  BY <1>2
<1>4. refused \subseteq Invalid /\ Invalid \subseteq ended /\ \A r \in Invalid : status[r] = "loading"
  BY DEF Invalid
<1>5. released \in SUBSET Reqs /\ gone \in SUBSET Reqs /\ gone \subseteq released
  BY <1>3, <1>4
<1>6. One = IF Scheduled(step) = {} THEN 0 ELSE 1
  BY <1>1 DEF One
<1>7. /\ pc = "idle" /\ steps' = Tail(steps)
      /\ fence' = FenceAfter
      /\ Release(released, free \cup Drained(PastFence(One)), StillDeferred(PastFence(One), One),
                 FenceAfter, FenceNow - One)
      /\ status' = [r \in Reqs |-> IF r \in released THEN "done" ELSE status[r]]
      /\ running' = Without(running, gone) /\ waiting' = Without(waiting, gone)
      /\ skipped' = Without(skipped, gone)
      /\ transfer' = [r \in Reqs |-> IF r \in ended THEN "none" ELSE transfer[r]]
      /\ received' = received \cup {r \in ended \ refused : status[r] = "loading"}
      /\ UNCHANGED <<good, pc, locals>>
  BY <1>1, <1>6, Zenon DEF Update, FenceAfter
<1>8. /\ out' = [r \in Reqs |-> out[r] + new[r]]
      /\ computed' = [r \in Reqs |->
           IF r \in Invalid THEN good[r]
           ELSE IF r \in heard /\ ~IsStale(r) /\ computed[r] > 0 THEN computed[r] - rejected[r]
           ELSE computed[r]]
      /\ placeholders' = [r \in Reqs |->
           IF r \in heard /\ ~IsStale(r) /\ placeholders[r] > 0
             THEN placeholders[r] - rejected[r] - new[r] ELSE placeholders[r]]
  BY Zenon DEF Update
<1>9. \A r \in Reqs : rejected[r] \in Int /\ new[r] \in Int
  <2>1. \A r \in Reqs : step.drafts[r] \in Int /\ accepted[r] \in Int /\ out[r] \in Int
    <3>1. step.drafts \in [Reqs -> Int]
      <4> HIDE DEF step
      <4> QED
        BY <1>1 DEF Output
    <3>2. \A r \in Reqs : accepted[r] \in Int
      BY LimitsAssumption
    <3>3. \A r \in Reqs : out[r] \in Int
      BY DEF Types
    <3> HIDE DEF step
    <3> QED
      BY <3>1, <3>2, <3>3
  <2>2. MaxOut \in Int
    BY RequestsAssumption
  <2> HIDE DEF step, heard
  <2> QED
    BY <2>1, <2>2 DEF Least
<1>10. \A r \in Reqs : r \in heard => steps[1].tokens[r] > 0
  BY <1>1, <1>2, <1>3
<1>11. \A r \in Reqs : steps[1].tokens[r] \in Int
  BY <1>1 DEF Output
<1>12. \A r \in Invalid : transfer[r] = "ended"
  BY <1>4
<1>13. \A r \in Reqs : r \in Invalid <=>
         status[r] = "loading" /\ transfer[r] = "ended" /\ good[r] < computed[r] - steps[1].tokens[r]
  BY <1>1 DEF Invalid
<1>14. \A r \in Reqs : r \in released =>
         r \in heard \/ r \in refused \/ (transfer[r] = "ended" /\ status[r] = "aborted")
  OBVIOUS
<1>15. stopped \subseteq heard
  OBVIOUS
<1> HIDE DEF step, rejected, new, heard, refused
<1>16. out' \in [Reqs -> Int] /\ computed' \in [Reqs -> Int] /\ placeholders' \in [Reqs -> Int]
       /\ good' \in [Reqs -> Int]
  <2>1. \A r \in Reqs : /\ out[r] \in Int /\ computed[r] \in Int
                         /\ placeholders[r] \in Int /\ good[r] \in Int
    BY DEF Types
  <2>2. out' \in [Reqs -> Int]
    BY <1>8, <1>9, <2>1
  <2>3. computed' \in [Reqs -> Int]
    BY <1>8, <1>9, <2>1
  <2>4. placeholders' \in [Reqs -> Int]
    BY <1>8, <1>9, <2>1
  <2> QED
    BY <1>7, <2>2, <2>3, <2>4 DEF Types
<1>17. /\ \A r \in released : status[r] = "running" => r \in gone
       /\ \A r \in released : transfer[r] = "ended" \/ steps[1].tokens[r] > 0
  BY <1>4, <1>3, <1>10, <1>15
<1>18. /\ \A r \in received' \ received :
            r \in Reqs /\ transfer[r] = "ended" /\ status[r] = "loading"
       /\ received \subseteq received'
  BY <1>7
<1>19. \A r \in received' \ received : r \in released => steps[1].tokens[r] > 0
  <2>1. \A r \in received' \ received : r \notin refused /\ status[r] = "loading" /\ r \in Reqs
    BY <1>7
  <2> HIDE DEF released
  <2> QED
    BY <1>10, <1>14, <2>1
<1>20. \A r \in Reqs : transfer[r] = "ended" /\ status[r] = "loading" /\ steps[1].tokens[r] = 0
         => computed'[r] <= good[r]
  <2>1. \A r \in Reqs : computed[r] \in Int /\ good[r] \in Int
    BY DEF Types
  <2> QED
    BY <1>8, <1>10, <1>11, <1>13, <2>1
<1>21. \A r \in Reqs : transfer[r] # "ended" /\ steps[1].tokens[r] = 0 => computed'[r] = computed[r]
  BY <1>8, <1>10, <1>12
<1>22. transfer' = [r \in Reqs |-> IF transfer[r] = "ended" THEN "none" ELSE transfer[r]]
  BY <1>7
<1> HIDE DEF ended, gone, released
<1>23. Taken(released, gone)
  BY <1>5, <1>7, <1>17, <1>18, <1>19, <1>20, <1>21, <1>22 DEF Taken, locals
<1> QED
  BY <1>5, <1>16, <1>23

\* The frees that are drained join the pool, the others come nearer.
LEMMA DrainHolds ==
  ASSUME Types, Held, NEW k \in 0 .. Len(deferred), NEW one \in Int
  PROVE  /\ free \cup Drained(k) \in SUBSET Blocks
         /\ StillDeferred(k, one) \in Seq(Freed)
         /\ Len(StillDeferred(k, one)) = Len(deferred) - k
         /\ \A i \in 1 .. Len(deferred) - k :
              /\ StillDeferred(k, one)[i].blocks = deferred[i + k].blocks
              /\ StillDeferred(k, one)[i].fence = deferred[i + k].fence - one
         /\ Distinct(blocks, free \cup Drained(k), StillDeferred(k, one))
<1> DEFINE n == Len(deferred) - k
           d == StillDeferred(k, one)
           f == free \cup Drained(k)
<1>1. Len(deferred) \in Nat /\ \A i \in 1 .. Len(deferred) : deferred[i] \in Freed
  BY LenProperties DEF Types
<1>2. n \in Nat /\ k \in Nat
  BY <1>1
<1>3. d = [i \in 1 .. n |->
             [fence |-> deferred[i + k].fence - one, blocks |-> deferred[i + k].blocks]]
  BY DEF StillDeferred
<1>4. \A i \in 1 .. n : i + k \in 1 .. Len(deferred) /\ ~(i + k \in 1 .. k)
  BY <1>1, <1>2
<1>5. \A i \in 1 .. n : /\ d[i].blocks = deferred[i + k].blocks
                        /\ d[i].fence = deferred[i + k].fence - one
                        /\ d[i] \in Freed
  <2> HIDE DEF n
  <2> QED
    BY <1>1, <1>3, <1>4 DEF Freed
<1>6. d \in Seq(Freed) /\ Len(d) = n
  <2>1. d \in [1 .. n -> Freed]
    <3> HIDE DEF n
    <3> QED
      BY <1>3, <1>5
  <2> HIDE DEF d, n
  <2> QED
    BY <1>2, <2>1
<1>7. \A b \in Drained(k) : \E i \in 1 .. Len(deferred) : i \in 1 .. k /\ b \in deferred[i].blocks
  BY <1>1 DEF Drained
<1>8. f \in SUBSET Blocks
  BY <1>1, <1>7 DEF Types, Freed
<1> HIDE DEF d, n
<1>9. \A r \in Reqs : blocks[r] \cap f = {}
  BY <1>7 DEF Held, Distinct
<1>10. \A r \in Reqs : \A i \in 1 .. Len(d) : blocks[r] \cap d[i].blocks = {}
  BY <1>4, <1>5, <1>6 DEF Held, Distinct
<1>11. \A i \in 1 .. Len(d) : d[i].blocks \cap f = {}
  <2> SUFFICES ASSUME NEW i \in 1 .. Len(d), NEW b \in d[i].blocks, b \in f PROVE FALSE
    OBVIOUS
  <2>1. i \in 1 .. n /\ i + k \in 1 .. Len(deferred) /\ b \in deferred[i + k].blocks
    BY <1>4, <1>5, <1>6
  <2>2. CASE b \in free
    BY <2>1, <2>2 DEF Held, Distinct
  <2>3. CASE b \in Drained(k)
    <3>1. PICK j \in 1 .. Len(deferred) : j \in 1 .. k /\ b \in deferred[j].blocks
      BY <1>7, <2>3
    <3>2. j # i + k
      BY <1>4, <2>1, <3>1
    <3> QED
      BY <2>1, <3>1, <3>2 DEF Held, Distinct
  <2> QED
    BY <2>2, <2>3
<1>12. \A i, j \in 1 .. Len(d) : i # j => d[i].blocks \cap d[j].blocks = {}
  <2> SUFFICES ASSUME NEW i \in 1 .. Len(d), NEW j \in 1 .. Len(d), i # j
               PROVE  d[i].blocks \cap d[j].blocks = {}
    OBVIOUS
  <2>1. i + k \in 1 .. Len(deferred) /\ j + k \in 1 .. Len(deferred) /\ i + k # j + k
    BY <1>2, <1>4, <1>6
  <2>2. d[i].blocks = deferred[i + k].blocks /\ d[j].blocks = deferred[j + k].blocks
    BY <1>5, <1>6
  <2> QED
    BY <2>1, <2>2 DEF Held, Distinct
<1>13. \A r, q \in Reqs : r # q => blocks[r] \cap blocks[q] = {}
  BY DEF Held, Distinct
<1>14. Distinct(blocks, f, d)
  <2> HIDE DEF f
  <2> QED
    BY <1>9, <1>10, <1>11, <1>12, <1>13 DEF Distinct
<1> QED
  BY <1>5, <1>6, <1>8, <1>14 DEF n, d

-----------------------------------------------------------------------------
(* Every step keeps the invariant.                                            *)

\* A free that waits now waits for every step in flight that is executed.
LEMMA FenceNowType ==
  ASSUME Types
  PROVE  FenceNow = Count(steps, Len(steps)) /\ FenceNow \in Nat
<1>1. Len(steps) \in Nat
  BY LenProperties DEF Types
<1>2. FenceNow = Count(steps, Len(steps))
  BY DEF FenceNow, Count
<1> QED
  BY <1>1, <1>2, CountType

\* The pool's frees, fences and queues are what the lemmas about them ask for.
LEMMA PoolType ==
  ASSUME Types
  PROVE  /\ free \in SUBSET Blocks /\ deferred \in Seq(Freed) /\ fence \in [Reqs -> Nat]
         /\ FenceNow \in Int
         /\ Len(running) \in Nat /\ \A i \in 1 .. Len(running) : running[i] \in Reqs
<1>1. FenceNow \in Int
  BY FenceNowType
<1>2. running \in Seq(Reqs)
  BY Zenon DEF Types
<1>3. Len(running) \in Nat /\ \A i \in 1 .. Len(running) : running[i] \in Reqs
  BY <1>2, LenProperties
<1>4. free \subseteq Blocks /\ deferred \in Seq(Freed) /\ fence \in [Reqs -> Nat]
  BY Zenon DEF Types
<1> QED
  BY <1>1, <1>3, <1>4

\* The head of the waiting requests is one, and what taking it leaves.
LEMMA HeadType ==
  ASSUME Types, Admitting
  PROVE  /\ Head1 \in Reqs
         /\ PopHead => waiting' \in Seq(Reqs) /\ skipped' \in Seq(Reqs)
<1>1. skipped \in Seq(Reqs) /\ waiting \in Seq(Reqs) /\ skipped \o waiting # <<>>
  BY DEF Types, Admitting
<1>2. skipped \o waiting \in Seq(Reqs)
  BY <1>1, ConcatProperties
<1>3. Head1 \in Reqs
  BY <1>1, <1>2, HeadTailProperties DEF Head1
<1>4. skipped = <<>> => waiting # <<>>
  BY <1>1, ConcatEmptySeq
<1>5. ASSUME PopHead PROVE waiting' \in Seq(Reqs) /\ skipped' \in Seq(Reqs)
  BY <1>1, <1>4, <1>5, HeadTailProperties DEF PopHead
<1> QED
  BY <1>3, <1>5

\* A request's tokens are a number.
LEMMA NumTokensType ==
  ASSUME Types, NEW r \in Reqs
  PROVE  NumTokens(r) \in Int
BY RequestsAssumption DEF Types, NumTokens

\* A turn of schedule() that is sent out joins the steps in flight, or nobody has a
\* token in it and no load is under way.
LEMMA DispatchOutput ==
  ASSUME Types, Dispatch
  PROVE  \/ /\ steps' = steps /\ \A r \in Reqs : ~(tokens[r] > 0) /\ transfer[r] = "none"
         \/ \E step \in Output :
              /\ steps' = Append(steps, step)
              /\ step.tokens = tokens /\ step.loads = {r \in Reqs : transfer[r] = "asked"}
              /\ step.base = base
              /\ \A r \in Reqs : step.writes[r] = IF tokens[r] > 0 THEN blocks[r] ELSE {}
              /\ \A r \in Reqs : step.drafts[r] = IF tokens[r] > 0 THEN DraftsOf(r) ELSE 0
              /\ \A r \in Reqs : r \in step.samples <=>
                   tokens[r] > 0 /\ computed[r] + tokens[r] >= NumTokens(r) + placeholders[r]
<1> DEFINE S == {r \in Reqs : tokens[r] > 0}
           drafts == [r \in Reqs |-> IF r \in S THEN DraftsOf(r) ELSE 0]
           whole == {r \in S : computed[r] + tokens[r] >= NumTokens(r) + placeholders[r]}
           writes == [r \in Reqs |-> IF r \in S THEN blocks[r] ELSE {}]
           asked == {r \in Reqs : transfer[r] = "asked"}
           step == [tokens |-> tokens, drafts |-> drafts, samples |-> whole, base |-> base,
                    writes |-> writes, loads |-> asked]
<1>1. \A r \in Reqs : /\ tokens[r] \in Int /\ computed[r] \in Int /\ placeholders[r] \in Int
                      /\ base[r] \in Int /\ NumTokens(r) \in Int /\ blocks[r] \in SUBSET Blocks
  BY NumTokensType DEF Types
<1>2. drafts \in [Reqs -> Int]
  BY <1>1, LimitsAssumption DEF DraftsOf
<1>3. steps' = IF S = {} /\ \A r \in Reqs : transfer[r] = "none" THEN steps
               ELSE Append(steps, step)
  <2>1. \A r \in Reqs : [q \in Reqs |-> computed[q] + tokens[q]][r] = computed[r] + tokens[r]
    OBVIOUS
  <2>2. whole = {r \in S : [q \in Reqs |-> computed[q] + tokens[q]][r] >= NumTokens(r) + placeholders[r]}
    BY <2>1
  <2> HIDE DEF whole
  <2> QED
    BY <2>2, Zenon DEF Dispatch
<1>4. step \in Output
  <2>1. whole \in SUBSET Reqs /\ asked \in SUBSET Reqs
    OBVIOUS
  <2>2. writes \in [Reqs -> SUBSET Blocks]
    BY <1>1
  <2>3. tokens \in [Reqs -> Int] /\ base \in [Reqs -> Int]
    BY DEF Types
  <2> HIDE DEF whole, drafts, S, writes, asked
  <2> QED
    BY <1>2, <2>1, <2>2, <2>3 DEF Output
<1>5. /\ step.tokens = tokens /\ step.loads = asked /\ step.writes = writes /\ step.base = base
      /\ step.drafts = drafts /\ step.samples = whole
  OBVIOUS
<1>6. \A r \in Reqs : writes[r] = IF tokens[r] > 0 THEN blocks[r] ELSE {}
  OBVIOUS
<1>7. \A r \in Reqs : drafts[r] = IF tokens[r] > 0 THEN DraftsOf(r) ELSE 0
  OBVIOUS
<1>8. \A r \in Reqs : r \in whole <=>
        tokens[r] > 0 /\ computed[r] + tokens[r] >= NumTokens(r) + placeholders[r]
  OBVIOUS
<1> HIDE DEF step, writes, drafts, whole
<1> QED
  BY <1>3, <1>4, <1>5, <1>6, <1>7, <1>8

\* Of that output, what the memory of a step in flight needs.
LEMMA DispatchAppends ==
  ASSUME Types, Dispatch
  PROVE  \/ /\ steps' = steps /\ \A r \in Reqs : ~(tokens[r] > 0) /\ transfer[r] = "none"
         \/ \E step \in Output :
              /\ steps' = Append(steps, step)
              /\ step.tokens = tokens /\ step.loads = {r \in Reqs : transfer[r] = "asked"}
              /\ \A r \in Reqs : step.writes[r] = IF tokens[r] > 0 THEN blocks[r] ELSE {}
BY DispatchOutput, Zenon

\* Every step keeps the types.
LEMMA TypesStep ==
  ASSUME Types, Held, [Next]_vars
  PROVE  Types'
<1>1. CASE Begin
  <2>1. /\ pc' = "running" /\ index' = 1 /\ budget' = Budget /\ tokens' = Nothing /\ base' = Nothing
        /\ passed' = <<>> /\ want' = 0
        /\ UNCHANGED <<status, waiting, skipped, running, out, computed, placeholders, fence,
                       blocks, free, deferred, received, steps, transfer, good>>
    BY <1>1 DEF Begin, queues, counters, pool, loads
  <2>2. Budget \in Int /\ Nothing \in [Reqs -> Int] /\ <<>> \in Seq(Reqs)
    BY LimitsAssumption, EmptySeq DEF Nothing
  <2> QED
    BY <2>1, <2>2 DEF Types
<1>2. CASE Pass
  BY <1>2 DEF Pass, Types, queues, counters, pool, loads, locals
<1>3. CASE Consider
  <2>1. want' \in Int
    <3>1. Current \in Reqs
      BY <1>3, ElementOfSeq DEF Consider, Turn, Current, Types
    <3>2. Behind(Current) \in Int
      <4>1. NumTokens(Current) \in Int /\ placeholders[Current] \in Int /\ computed[Current] \in Int
        BY <3>1, NumTokensType DEF Types
      <4>2. Drafts(Current) \in Int
        BY LimitsAssumption DEF Drafts
      <4> QED
        BY <4>1, <4>2 DEF Behind
    <3>3. NewTokens(Current) \in Int
      BY <3>2, LimitsAssumption DEF NewTokens, Least, Types
    <3> QED
      BY <1>3, <3>3 DEF Consider
  <2> QED
    BY <1>3, <2>1 DEF Consider, Types, queues, counters, pool, loads, locals
<1>4. CASE Allocate
  <2>1. blocks' \in [Reqs -> SUBSET Blocks] /\ free' \subseteq Blocks
    BY <1>4, TakeHolds DEF Allocate
  <2>2. /\ tokens \in [Reqs -> Int] /\ want \in Int /\ budget \in Int /\ index \in Nat \ {0}
    BY DEF Types
  <2>3. /\ tokens' \in [Reqs -> Int] /\ want' \in Int /\ budget' \in Int /\ index' \in Nat \ {0}
    <3>1. /\ tokens' = [tokens EXCEPT ![Current] = want] /\ want' = 0
          /\ budget' = budget - want /\ index' = index + 1
      BY <1>4 DEF Allocate
    <3>2. tokens' \in [Reqs -> Int]
      BY <2>2, <3>1
    <3>3. want' \in Int /\ budget' \in Int /\ index' \in Nat \ {0}
      BY <2>2, <3>1
    <3> QED
      BY <3>2, <3>3
  <2> QED
    BY <1>4, <2>1, <2>3 DEF Allocate, Types, queues, counters, pool, loads, locals
<1>5. CASE Preempt
  <2>1. PICK v \in Reqs :
          /\ running' = SubSeq(running, 1, Len(running) - 1) /\ waiting' = <<v>> \o waiting
          /\ status' = [status EXCEPT ![v] = "waiting"] /\ computed' = [computed EXCEPT ![v] = 0]
          /\ placeholders' = [placeholders EXCEPT ![v] = 0]
          /\ Release({v}, free, deferred, fence, FenceNow)
          /\ IF v = Current THEN pc' = "dispatch" /\ want' = 0 ELSE UNCHANGED <<pc, want>>
          /\ UNCHANGED <<skipped, passed, out, good, fence, received, steps, transfer, index,
                         budget, tokens, base>>
    BY <1>5 DEF Preempt, loads
  <2>2. running' \in Seq(Reqs)
    <3>1. Len(running) \in Nat /\ \A i \in 1 .. Len(running) : running[i] \in Reqs
      BY LenProperties DEF Types
    <3>2. \A i \in 1 .. Len(running) - 1 : running[i] \in Reqs
      BY <3>1
    <3> QED
      BY <2>1, <3>1, <3>2, SubSeqProperties
  <2>3. waiting' \in Seq(Reqs)
    <3>1. <<v>> \in Seq(Reqs)
      OBVIOUS
    <3> QED
      BY <2>1, <3>1, ConcatProperties DEF Types
  <2>4. /\ blocks' \in [Reqs -> SUBSET Blocks] /\ free' \subseteq Blocks
        /\ deferred' \in Seq(Freed)
    <3>1. {v} \in SUBSET Reqs /\ free \in SUBSET Blocks /\ deferred \in Seq(Freed)
          /\ fence \in [Reqs -> Nat] /\ FenceNow \in Int
      BY PoolType
    <3> QED
      BY <2>1, <3>1, ReleaseHolds DEF Held
  <2>5. /\ status' \in [Reqs -> Statuses] /\ computed' \in [Reqs -> Int]
        /\ placeholders' \in [Reqs -> Int]
    <3>1. /\ status \in [Reqs -> Statuses] /\ computed \in [Reqs -> Int]
          /\ placeholders \in [Reqs -> Int]
      BY Zenon DEF Types
    <3>2. "waiting" \in Statuses /\ 0 \in Int
      BY DEF Statuses
    <3> QED
      BY <2>1, <3>1, <3>2
  <2>6. pc' \in {"idle", "running", "waiting", "dispatch"} /\ want' \in Int
    <3>1. pc \in {"idle", "running", "waiting", "dispatch"} /\ want \in Int
      BY Zenon DEF Types
    <3> QED
      BY <2>1, <3>1
  <2> QED
    BY <2>1, <2>2, <2>3, <2>4, <2>5, <2>6 DEF Types
<1>6. CASE RunningDone
  BY <1>6 DEF RunningDone, Types, queues, counters, pool, loads, locals
<1>7. CASE PassOver
  <2>1. Head1 \in Reqs /\ waiting' \in Seq(Reqs) /\ skipped' \in Seq(Reqs)
    BY <1>7, HeadType DEF PassOver
  <2>2. passed' \in Seq(Reqs)
    BY <1>7, <2>1, AppendProperties DEF PassOver, Types
  <2> QED
    BY <1>7, <2>1, <2>2 DEF PassOver, Types, queues, counters, pool, loads, locals
<1>8. CASE Promote
  <2>1. Head1 \in Reqs /\ blocks[Head1] \subseteq Blocks /\ free \subseteq Blocks
    BY <1>8, HeadType DEF Promote, Types
  <2>2. NumTokens(Head1) \in Int
    BY <2>1, NumTokensType
  <2>3. computed' \in [Reqs -> Int]
    <3>1. \/ computed' = computed
          \/ computed' = [computed EXCEPT ![Head1] = Least(computed[Head1], NumTokens(Head1) - 1)]
      BY <1>8 DEF Promote
    <3>2. computed \in [Reqs -> Int]
      BY Zenon DEF Types
    <3> HIDE DEF Head1
    <3>3. Least(computed[Head1], NumTokens(Head1) - 1) \in Int
      BY <2>1, <2>2, <3>2 DEF Least
    <3> QED
      BY <3>1, <3>2, <3>3
  <2>4. blocks' \in [Reqs -> SUBSET Blocks] /\ free' \subseteq Blocks
    BY <1>8, <2>1 DEF Promote, Types
  <2>5. status' \in [Reqs -> Statuses] /\ received' \subseteq Reqs
    BY <1>8 DEF Promote, Types, Statuses
  <2> QED
    BY <1>8, <2>3, <2>4, <2>5 DEF Promote, Types, queues, counters, pool, loads, locals
<1>9. CASE Admit
  <2>1. Head1 \in Reqs /\ waiting' \in Seq(Reqs) /\ skipped' \in Seq(Reqs)
    BY <1>9, HeadType DEF Admit
  <2>2. running' \in Seq(Reqs)
    BY <1>9, <2>1, AppendProperties DEF Admit, Types
  <2>3. blocks' \in [Reqs -> SUBSET Blocks] /\ free' \subseteq Blocks
    BY <1>9, TakeHolds DEF Admit
  <2>4. NumTokens(Head1) \in Int /\ computed[Head1] \in Int /\ budget \in Int /\ SpecTokens \in Int
    <3>1. computed \in [Reqs -> Int] /\ budget \in Int
      BY Zenon DEF Types
    <3>2. SpecTokens \in Int
      BY LimitsAssumption
    <3> HIDE DEF Head1
    <3> QED
      BY <2>1, <3>1, <3>2, NumTokensType
  <2>5. FirstTokens(Head1) \in Int
    BY <2>4 DEF FirstTokens, Least
  <2>6. /\ status' \in [Reqs -> Statuses] /\ tokens' \in [Reqs -> Int] /\ budget' \in Int
        /\ base' \in [Reqs -> Int]
    <3>1. /\ status' = [status EXCEPT ![Head1] = "running"]
          /\ tokens' = [tokens EXCEPT ![Head1] = FirstTokens(Head1)]
          /\ budget' = budget - FirstTokens(Head1) /\ base' = [base EXCEPT ![Head1] = NumTokens(Head1)]
      BY <1>9 DEF Admit
    <3>2. /\ status \in [Reqs -> Statuses] /\ tokens \in [Reqs -> Int] /\ base \in [Reqs -> Int]
      BY DEF Types
    <3> HIDE DEF Head1
    <3>3. status' \in [Reqs -> Statuses]
      BY <3>1, <3>2 DEF Statuses
    <3>4. tokens' \in [Reqs -> Int]
      BY <3>1, <3>2, <2>5
    <3>5. base' \in [Reqs -> Int]
      BY <3>1, <3>2, <2>4
    <3>6. budget' \in Int
      BY <3>1, <2>4, <2>5
    <3> QED
      BY <3>3, <3>4, <3>5, <3>6
  <2> QED
    BY <1>9, <2>1, <2>2, <2>3, <2>6 DEF Admit, Types, queues, counters, pool, loads, locals
<1>10. CASE WaitingDone
  <2>1. skipped' \in Seq(Reqs)
    BY <1>10, ConcatProperties DEF WaitingDone, Types
  <2> QED
    BY <1>10, <2>1 DEF WaitingDone, Types, queues, counters, pool, loads, locals
<1>11. CASE Dispatch
  <2> DEFINE S == {r \in Reqs : tokens[r] > 0}
             drafts == [r \in Reqs |-> IF r \in S THEN DraftsOf(r) ELSE 0]
             whole == {r \in S : computed[r] + tokens[r] >= NumTokens(r) + placeholders[r]}
  <2>1. \A r \in Reqs : /\ tokens[r] \in Int /\ computed[r] \in Int /\ placeholders[r] \in Int
                        /\ base[r] \in Int /\ NumTokens(r) \in Int /\ blocks[r] \in SUBSET Blocks
    BY NumTokensType DEF Types
  <2>2. drafts \in [Reqs -> Int]
    BY <2>1, LimitsAssumption DEF DraftsOf
  <2>3. steps' \in Seq(Output)
    <3>1. steps \in Seq(Output)
      BY DEF Types
    <3>2. \A step \in Output : Append(steps, step) \in Seq(Output)
      BY <3>1, AppendProperties
    <3> QED
      BY <1>11, <3>1, <3>2, DispatchAppends
  <2>4. /\ computed' = [r \in Reqs |-> computed[r] + tokens[r]]
        /\ \E T \in SUBSET Reqs : fence' = [r \in Reqs |-> IF r \in T THEN FenceNow + 1 ELSE fence[r]]
        /\ \E T \in SUBSET Reqs : placeholders' = [r \in Reqs |->
              IF r \in T THEN placeholders[r] + 1 + drafts[r] ELSE placeholders[r]]
        /\ transfer' = [r \in Reqs |-> IF transfer[r] = "asked" THEN "going" ELSE transfer[r]]
    <3>1. computed' = [r \in Reqs |-> computed[r] + tokens[r]]
      BY <1>11, Zenon DEF Dispatch
    <3>2. fence' = [r \in Reqs |-> IF r \in S THEN FenceNow + 1 ELSE fence[r]]
      BY <1>11, Zenon DEF Dispatch
    <3>3. \E T \in SUBSET Reqs : placeholders' = [r \in Reqs |->
              IF r \in T THEN placeholders[r] + 1 + drafts[r] ELSE placeholders[r]]
      <4> DEFINE T == {r \in S : [q \in Reqs |-> computed[q] + tokens[q]][r] >= NumTokens(r) + placeholders[r]}
      <4>1. placeholders' = [r \in Reqs |->
              IF r \in T THEN placeholders[r] + 1 + drafts[r] ELSE placeholders[r]]
        BY <1>11 DEF Dispatch
      <4>2. T \in SUBSET Reqs
        OBVIOUS
      <4> HIDE DEF T
      <4> QED
        BY <4>1, <4>2
    <3>4. transfer' = [r \in Reqs |-> IF transfer[r] = "asked" THEN "going" ELSE transfer[r]]
      BY <1>11, Zenon DEF Dispatch
    <3>5. S \in SUBSET Reqs
      OBVIOUS
    <3> HIDE DEF S, drafts
    <3> QED
      BY <3>1, <3>2, <3>3, <3>4, <3>5
  <2> HIDE DEF S, drafts, whole
  <2>5. /\ computed' \in [Reqs -> Int] /\ fence' \in [Reqs -> Nat] /\ placeholders' \in [Reqs -> Int]
        /\ transfer' \in [Reqs -> {"none", "asked", "going", "ended"}]
    <3>1. computed' \in [Reqs -> Int]
      BY <2>1, <2>4
    <3>2. fence \in [Reqs -> Nat] /\ transfer \in [Reqs -> {"none", "asked", "going", "ended"}]
      BY DEF Types
    <3>3. fence' \in [Reqs -> Nat]
      BY <2>4, <3>2, FenceNowType
    <3>4. placeholders' \in [Reqs -> Int]
      BY <2>1, <2>2, <2>4
    <3>5. transfer' \in [Reqs -> {"none", "asked", "going", "ended"}]
      BY <2>4, <3>2
    <3> QED
      BY <3>1, <3>3, <3>4, <3>5
  <2>6. /\ pc' = "idle" /\ index' = 1 /\ budget' = 0 /\ tokens' = Nothing /\ base' = Nothing
        /\ passed' = <<>> /\ want' = 0
        /\ UNCHANGED <<status, waiting, skipped, running, out, blocks, free, deferred, received, good>>
    BY <1>11 DEF Dispatch, queues, pool
  <2> QED
    BY <2>3, <2>5, <2>6, EmptySeq DEF Types, Nothing
<1>12. CASE \E r \in Reqs : \E n \in Matches(r) : Load(n)
  <2>1. PICK q \in Reqs : \E m \in Matches(q) : Load(m)
    BY <1>12
  <2>2. PICK m \in Matches(q) : Load(m)
    BY <2>1
  <2>3. Head1 \in Reqs /\ waiting' \in Seq(Reqs) /\ skipped' \in Seq(Reqs)
    BY <2>2, HeadType DEF Load
  <2>4. passed' \in Seq(Reqs)
    BY <2>2, <2>3, AppendProperties DEF Load, Types
  <2>5. blocks' \in [Reqs -> SUBSET Blocks] /\ free' \subseteq Blocks
    BY <2>2, TakeHolds DEF Load
  <2>6. m \in Int
    <3>1. PICK k \in 1 .. NumTokens(q) \div BlockSize : m = BlockSize * k
      BY DEF Matches
    <3>2. k \in Int /\ BlockSize \in Int
      BY PoolAssumption
    <3> QED
      BY <3>1, <3>2
  <2> QED
    BY <2>2, <2>3, <2>4, <2>5, <2>6 DEF Load, Types, Statuses, queues, counters, pool, loads,
       locals
<1>13. CASE Updates
  <2>1. PICK accepted \in [Reqs -> 0 .. SpecTokens], eos \in SUBSET Head(steps).samples :
          steps # <<>> /\ Update(accepted, eos)
    BY <1>13 DEF Updates
  <2>2. /\ out' \in [Reqs -> Int] /\ computed' \in [Reqs -> Int] /\ placeholders' \in [Reqs -> Int]
        /\ good' \in [Reqs -> Int]
    BY <2>1, UpdateTakes
  <2>3. PICK S \in SUBSET Reqs, gone \in SUBSET Reqs : Taken(S, gone)
    BY <2>1, UpdateTakes
  <2>4. running' \in Seq(Reqs) /\ waiting' \in Seq(Reqs) /\ skipped' \in Seq(Reqs)
    BY <2>3, WithoutKeeps DEF Taken, Types
  <2>5. FenceAfter \in [Reqs -> Nat] /\ One \in Int
    <3>1. One \in {0, 1} /\ fence \in [Reqs -> Nat]
      BY DEF Types, One
    <3> QED
      BY <3>1 DEF FenceAfter
  <2>6. blocks' \in [Reqs -> SUBSET Blocks] /\ free' \subseteq Blocks /\ deferred' \in Seq(Freed)
    <3> DEFINE k == PastFence(One)
    <3>1. k \in 0 .. Len(deferred)
      BY PastFenceIn
    <3> HIDE DEF k
    <3>2. /\ free \cup Drained(k) \in SUBSET Blocks /\ StillDeferred(k, One) \in Seq(Freed)
          /\ Distinct(blocks, free \cup Drained(k), StillDeferred(k, One))
      BY <2>5, <3>1, DrainHolds
    <3>3. FenceNow - One \in Int
      BY <2>5, FenceNowType
    <3>4. Release(S, free \cup Drained(k), StillDeferred(k, One), FenceAfter, FenceNow - One)
      BY <2>3 DEF Taken, k
    <3> QED
      BY <2>5, <3>2, <3>3, <3>4, ReleaseHolds
  <2>7. /\ status' \in [Reqs -> Statuses] /\ fence' \in [Reqs -> Nat]
        /\ transfer' \in [Reqs -> {"none", "asked", "going", "ended"}]
    BY <2>3, <2>5 DEF Taken, Types, Statuses
  <2>8. received' \subseteq Reqs
    BY <2>3 DEF Taken, Types
  <2>9. steps' \in Seq(Output)
    BY <2>1, <2>3, HeadTailProperties DEF Taken, Types
  <2> QED
    BY <2>2, <2>3, <2>4, <2>6, <2>7, <2>8, <2>9 DEF Taken, Types
<1>14. CASE \E r \in Reqs : AddRequest(r)
  <2>1. PICK q \in Reqs : AddRequest(q)
    BY <1>14
  <2>2. waiting' \in Seq(Reqs)
    BY <2>1, AppendProperties DEF AddRequest, Types
  <2> QED
    BY <2>1, <2>2 DEF AddRequest, Types, Statuses, queues, counters, pool, loads, locals
<1>15. CASE \E r \in Reqs : Abort(r)
  <2>1. PICK q \in Reqs : Abort(q)
    BY <1>15
  <2>2. running' \in Seq(Reqs) /\ waiting' \in Seq(Reqs) /\ skipped' \in Seq(Reqs)
    BY <2>1, WithoutKeeps DEF Abort, Types
  <2>3. blocks' \in [Reqs -> SUBSET Blocks] /\ free' \subseteq Blocks /\ deferred' \in Seq(Freed)
    <3>1. CASE UNCHANGED pool
      BY <3>1 DEF Types, pool
    <3>2. CASE Release({q}, free, deferred, fence, FenceNow)
      <4>1. {q} \in SUBSET Reqs /\ free \in SUBSET Blocks /\ deferred \in Seq(Freed)
            /\ fence \in [Reqs -> Nat] /\ FenceNow \in Int
        BY PoolType
      <4> QED
        BY <3>2, <4>1, ReleaseHolds DEF Held
    <3> QED
      BY <2>1, <3>1, <3>2 DEF Abort
  <2>4. status' \in [Reqs -> Statuses] /\ received' \subseteq Reqs
    BY <2>1 DEF Abort, Types, Statuses
  <2> QED
    BY <2>1, <2>2, <2>3, <2>4 DEF Abort, Types, counters, locals
<1>16. CASE \E r \in Reqs : TransferOf(r)
  <2>1. PICK q \in Reqs : TransferOf(q)
    BY <1>16
  <2>2. PICK n \in 0 .. MaxTokens : EndTransfer(q, n)
    BY <2>1 DEF TransferOf
  <2>3. /\ transfer' = [transfer EXCEPT ![q] = "ended"] /\ good' = [good EXCEPT ![q] = n]
        /\ UNCHANGED <<status, waiting, skipped, running, passed, out, computed, placeholders, fence,
                       blocks, free, deferred, received, steps, pc, index, budget, want, tokens, base>>
    BY <2>2 DEF EndTransfer, queues, counters, pool, locals
  <2>4. transfer' \in [Reqs -> {"none", "asked", "going", "ended"}] /\ good' \in [Reqs -> Int]
    <3>1. transfer \in [Reqs -> {"none", "asked", "going", "ended"}] /\ good \in [Reqs -> Int]
      BY Zenon DEF Types
    <3>2. n \in Int
      OBVIOUS
    <3> QED
      BY <2>3, <3>1, <3>2
  <2> QED
    BY <2>3, <2>4 DEF Types
<1>17. CASE UNCHANGED vars
  BY <1>17 DEF vars, Types, queues, counters, pool, loads, locals
<1> QED
  BY <1>1, <1>2, <1>3, <1>4, <1>5, <1>6, <1>7, <1>8, <1>9, <1>10, <1>11, <1>12, <1>13, <1>14,
     <1>15, <1>16, <1>17 DEF Next, Schedule

\* A queue without its last request.
LEMMA FrontOfQueue ==
  ASSUME NEW s \in Seq(Reqs), Len(s) >= 1
  PROVE  /\ Len(SubSeq(s, 1, Len(s) - 1)) = Len(s) - 1
         /\ \A i \in 1 .. Len(s) - 1 : SubSeq(s, 1, Len(s) - 1)[i] = s[i]
<1> DEFINE n == Len(s) - 1
<1>1. n \in Nat /\ \A i \in 1 .. n : s[i] \in Reqs
  BY LenProperties
<1> HIDE DEF n
<1>2. /\ Len(SubSeq(s, 1, n)) = IF 1 <= n THEN n - 1 + 1 ELSE 0
      /\ \A i \in 1 .. n - 1 + 1 : SubSeq(s, 1, n)[i] = s[1 + i - 1]
  BY <1>1, SubSeqProperties
<1>3. Len(SubSeq(s, 1, n)) = n
  BY <1>1, <1>2
<1>4. \A i \in 1 .. n : SubSeq(s, 1, n)[i] = s[i]
  <2>1. \A i \in 1 .. n : i \in 1 .. n - 1 + 1 /\ 1 + i - 1 = i
    BY <1>1
  <2> QED
    BY <1>2, <2>1
<1> QED
  BY <1>3, <1>4 DEF n

\* The running queue keeps running requests, each once.
LEMMA QueueStep ==
  ASSUME Types, Types', Queue, [Next]_vars
  PROVE  Queue'
<1>0. Len(running) \in Nat /\ \A i \in 1 .. Len(running) : running[i] \in Reqs
  BY PoolType
<1> DEFINE Same == /\ running' = running
                   /\ \A r \in Reqs : status[r] = "running" => status'[r] = "running"
<1>a. ASSUME Same PROVE Queue'
  BY <1>0, <1>a DEF Queue
<1>1. CASE Begin
  <2>1. Same
    BY <1>1 DEF Begin, queues, counters, pool, loads, locals
  <2> QED
    BY <2>1, <1>a
<1>2. CASE Pass
  <2>1. Same
    BY <1>2 DEF Pass, queues, counters, pool, loads, locals
  <2> QED
    BY <2>1, <1>a
<1>3. CASE Consider
  <2>1. Same
    BY <1>3 DEF Consider, queues, counters, pool, loads, locals
  <2> QED
    BY <2>1, <1>a
<1>4. CASE Allocate
  <2>1. Same
    BY <1>4 DEF Allocate, queues, counters, pool, loads, locals
  <2> QED
    BY <2>1, <1>a
<1>5. CASE Preempt
  <2>1. PICK v \in Reqs :
          /\ running' = SubSeq(running, 1, Len(running) - 1) /\ v = running[Len(running)]
          /\ status' = [status EXCEPT ![v] = "waiting"] /\ index <= Len(running)
    BY <1>5 DEF Preempt, Turn
  <2>2. Len(running) \in 1 .. Len(running)
    BY <1>0, <2>1 DEF Types
  <2>3. Len(running') = Len(running) - 1 /\ \A i \in 1 .. Len(running) - 1 : running'[i] = running[i]
    <3>1. running \in Seq(Reqs) /\ Len(running) >= 1
      BY <1>0, <2>2 DEF Types
    <3> QED
      BY <2>1, <3>1, FrontOfQueue
  <2>4. \A i \in 1 .. Len(running) - 1 :
          i \in 1 .. Len(running) /\ running[i] # v /\ running[i] \in Reqs
    BY <1>0, <2>1, <2>2 DEF Queue
  <2>5. \A i \in 1 .. Len(running) - 1 : status'[running[i]] = "running"
    BY <2>1, <2>4 DEF Queue, Types
  <2>6. \A i, j \in 1 .. Len(running) - 1 : running[i] = running[j] => i = j
    BY <2>4 DEF Queue
  <2> QED
    BY <2>3, <2>5, <2>6 DEF Queue
<1>6. CASE RunningDone
  <2>1. Same
    BY <1>6 DEF RunningDone, queues, counters, pool, loads, locals
  <2> QED
    BY <2>1, <1>a
<1>7. CASE PassOver
  <2>1. Same
    BY <1>7 DEF PassOver, queues, counters, pool, loads, locals
  <2> QED
    BY <2>1, <1>a
<1>8. CASE Promote
  <2>1. Same
    BY <1>8 DEF Promote, Ready, Types, queues, counters, pool, loads, locals
  <2> QED
    BY <2>1, <1>a
<1>9. CASE Admit
  <2>1. /\ running' = Append(running, Head1) /\ status' = [status EXCEPT ![Head1] = "running"]
        /\ status[Head1] = "waiting" /\ Head1 \in Reqs
    BY <1>9, HeadType DEF Admit, Ready
  <2>2. /\ Len(running') = Len(running) + 1
        /\ \A i \in 1 .. Len(running) : running'[i] = running[i]
        /\ running'[Len(running) + 1] = Head1
    BY <2>1, AppendProperties DEF Types
  <2>3. \A i \in 1 .. Len(running) : running[i] # Head1
    BY <2>1 DEF Queue
  <2>4. \A i \in 1 .. Len(running') : i \in 1 .. Len(running) \/ i = Len(running) + 1
    BY <1>0, <2>2
  <2>5. \A i \in 1 .. Len(running') : status'[running'[i]] = "running"
    <3>1. \A i \in 1 .. Len(running) : status'[running[i]] = "running"
      <4> HIDE DEF Head1
      <4> QED
        BY <1>0, <2>1 DEF Queue, Types
    <3>2. status'[Head1] = "running"
      BY <2>1 DEF Types
    <3> QED
      BY <2>2, <2>4, <3>1, <3>2
  <2>6. \A i, j \in 1 .. Len(running') : running'[i] = running'[j] => i = j
    BY <2>2, <2>3, <2>4 DEF Queue
  <2> QED
    BY <2>5, <2>6 DEF Queue
<1>10. CASE WaitingDone
  <2>1. Same
    BY <1>10 DEF WaitingDone, queues, counters, pool, loads, locals
  <2> QED
    BY <2>1, <1>a
<1>11. CASE Dispatch
  <2>1. Same
    BY <1>11 DEF Dispatch, queues, counters, pool, loads, locals
  <2> QED
    BY <2>1, <1>a
<1>12. CASE \E r \in Reqs : \E n \in Matches(r) : Load(n)
  <2>0. PICK q \in Reqs : \E m \in Matches(q) : Load(m)
    BY <1>12
  <2>1. Same
    BY <2>0 DEF Load, Ready, Types, queues, counters, pool, loads, locals
  <2> QED
    BY <2>1, <1>a
<1>13. CASE Updates
  <2>0. PICK accepted \in [Reqs -> 0 .. SpecTokens], eos \in SUBSET Head(steps).samples :
          steps # <<>> /\ Update(accepted, eos)
    BY <1>13 DEF Updates
  <2>4. PICK S \in SUBSET Reqs, gone \in SUBSET Reqs : Taken(S, gone)
    BY <2>0, UpdateTakes
  <2>1. /\ running' = Without(running, gone)
        /\ \A r \in Reqs \ gone : status[r] = "running" => status'[r] = "running"
    BY <2>4 DEF Taken
  <2>2. /\ \A k \in 1 .. Len(running') :
             \E i \in 1 .. Len(running) : running'[k] = running[i] /\ running[i] \notin gone
        /\ \A i, j \in 1 .. Len(running') : running'[i] = running'[j] => i = j
    <3>1. running \in Seq(Reqs) /\ \A i, j \in 1 .. Len(running) : running[i] = running[j] => i = j
      BY DEF Types, Queue
    <3> DEFINE w == Without(running, gone)
    <3>2. /\ \A k \in 1 .. Len(w) : \E i \in 1 .. Len(running) : w[k] = running[i] /\ running[i] \notin gone
          /\ \A i, j \in 1 .. Len(w) : w[i] = w[j] => i = j
      BY <3>1, WithoutKeeps, Zenon
    <3> QED
      BY <2>1, <3>2, Zenon
  <2>3. \A i \in 1 .. Len(running) : running[i] \notin gone => status'[running[i]] = "running"
    BY <1>0, <2>1 DEF Queue, Types
  <2>5. \A k \in 1 .. Len(running') : status'[running'[k]] = "running"
    <3> SUFFICES ASSUME NEW k \in 1 .. Len(running') PROVE status'[running'[k]] = "running"
      OBVIOUS
    <3>1. PICK i \in 1 .. Len(running) : running'[k] = running[i] /\ running[i] \notin gone
      BY <2>2
    <3> QED
      BY <2>3, <3>1
  <2> QED
    BY <2>2, <2>5 DEF Queue
<1>14. CASE \E r \in Reqs : AddRequest(r)
  <2>0. PICK q \in Reqs : AddRequest(q)
    BY <1>14
  <2>1. Same
    BY <2>0 DEF AddRequest, Ready, Types, queues, counters, pool, loads, locals
  <2> QED
    BY <2>1, <1>a
<1>15. CASE \E r \in Reqs : Abort(r)
  <2>0. PICK q \in Reqs : Abort(q)
    BY <1>15
  <2>1. running' = Without(running, {q}) /\ \A r \in Reqs \ {q} : status'[r] = status[r]
    BY <2>0 DEF Abort, Types
  <2>2. /\ \A k \in 1 .. Len(running') :
             \E i \in 1 .. Len(running) : running'[k] = running[i] /\ running[i] \notin {q}
        /\ \A i, j \in 1 .. Len(running') : running'[i] = running'[j] => i = j
    <3>1. running \in Seq(Reqs) /\ \A i, j \in 1 .. Len(running) : running[i] = running[j] => i = j
      BY DEF Types, Queue
    <3> DEFINE w == Without(running, {q})
    <3>2. /\ \A k \in 1 .. Len(w) : \E i \in 1 .. Len(running) : w[k] = running[i] /\ running[i] \notin {q}
          /\ \A i, j \in 1 .. Len(w) : w[i] = w[j] => i = j
      BY <3>1, WithoutKeeps, Zenon
    <3> QED
      BY <2>1, <3>2, Zenon
  <2>3. \A i \in 1 .. Len(running) : running[i] \notin {q} => status'[running[i]] = "running"
    BY <1>0, <2>1 DEF Queue, Types
  <2>5. \A k \in 1 .. Len(running') : status'[running'[k]] = "running"
    <3> SUFFICES ASSUME NEW k \in 1 .. Len(running') PROVE status'[running'[k]] = "running"
      OBVIOUS
    <3>1. PICK i \in 1 .. Len(running) : running'[k] = running[i] /\ running[i] \notin {q}
      BY <2>2
    <3> QED
      BY <2>3, <3>1
  <2> QED
    BY <2>2, <2>5 DEF Queue
<1>16. CASE \E r \in Reqs : TransferOf(r)
  <2>1. Same
    BY <1>16 DEF TransferOf, EndTransfer, queues, counters, pool, loads, locals
  <2> QED
    BY <2>1, <1>a
<1>17. CASE UNCHANGED vars
  BY <1>17, <1>a DEF vars, queues
<1> QED
  BY <1>1, <1>2, <1>3, <1>4, <1>5, <1>6, <1>7, <1>8, <1>9, <1>10, <1>11, <1>12, <1>13, <1>14,
     <1>15, <1>16, <1>17 DEF Next, Schedule

\* Tokens stay with running requests, and with those the first loop has passed.
LEMMA GivenStep ==
  ASSUME Types, Types', Queue, Queue', Given, [Next]_vars
  PROVE  Given'
<1>0. /\ Len(running) \in Nat /\ \A i \in 1 .. Len(running) : running[i] \in Reqs
      /\ index \in Nat
  BY PoolType DEF Types
<1> DEFINE Same == /\ tokens' = tokens /\ running' = running /\ index' >= index
                   /\ pc' = pc \/ pc' \in {"waiting", "dispatch"}
                   /\ \A r \in Reqs : status[r] = "running" => status'[r] = "running"
           Idle == pc = "idle" /\ tokens' = tokens /\ pc' = pc
<1>a. ASSUME Same PROVE Given'
  <2> SUFFICES ASSUME NEW r \in Reqs, tokens[r] # 0
               PROVE  /\ status'[r] = "running" /\ pc' # "idle"
                      /\ pc' = "running" => \E i \in 1 .. Len(running) : i < index' /\ running[i] = r
    BY <1>a DEF Given
  <2>1. status'[r] = "running" /\ pc' # "idle"
    BY <1>a DEF Given
  <2>2. ASSUME pc' = "running"
        PROVE  \E i \in 1 .. Len(running) : i < index' /\ running[i] = r
    <3>1. PICK i \in 1 .. Len(running) : i < index /\ running[i] = r
      BY <1>a, <2>2 DEF Given
    <3>2. i < index'
      BY <1>a, <3>1, <1>0 DEF Types
    <3> QED
      BY <3>1, <3>2
  <2> QED
    BY <2>1, <2>2
<1>b. ASSUME Idle PROVE Given'
  BY <1>b DEF Given
<1>c. ASSUME tokens' = Nothing PROVE Given'
  BY <1>c DEF Given, Nothing
<1>1. CASE Begin
  BY <1>1, <1>c DEF Begin
<1>2. CASE Pass
  <2>1. Same
    BY <1>2, <1>0 DEF Pass, queues, counters, pool, loads, locals
  <2> QED
    BY <2>1, <1>a
<1>3. CASE Consider
  <2>1. Same
    BY <1>3, <1>0 DEF Consider, queues, counters, pool, loads, locals
  <2> QED
    BY <2>1, <1>a
<1>4. CASE Allocate
  <2>1. /\ tokens' = [tokens EXCEPT ![Current] = want] /\ index' = index + 1
        /\ Current = running[index] /\ index \in 1 .. Len(running) /\ pc = "running"
        /\ UNCHANGED <<status, running, pc>>
    BY <1>4, <1>0 DEF Allocate, Turn, Current, queues, Types
  <2> SUFFICES ASSUME NEW r \in Reqs, tokens'[r] # 0
               PROVE  /\ status[r] = "running" /\ pc # "idle"
                      /\ \E i \in 1 .. Len(running) : i < index' /\ running[i] = r
    BY <2>1 DEF Given
  <2>2. CASE r = Current
    BY <2>1, <2>2, <1>0 DEF Queue
  <2>3. CASE r # Current
    <3>1. tokens[r] # 0
      BY <2>1, <2>3 DEF Types
    <3>2. PICK i \in 1 .. Len(running) : i < index /\ running[i] = r
      BY <2>1, <3>1 DEF Given
    <3>3. i < index'
      BY <1>0, <2>1, <3>2
    <3> QED
      BY <2>1, <3>1, <3>2, <3>3 DEF Given
  <2> QED
    BY <2>2, <2>3
<1>5. CASE Preempt
  <2>1. PICK v \in Reqs :
          /\ running' = SubSeq(running, 1, Len(running) - 1) /\ v = running[Len(running)]
          /\ status' = [status EXCEPT ![v] = "waiting"] /\ index <= Len(running) /\ pc = "running"
          /\ pc' \in {"running", "dispatch"} /\ UNCHANGED <<tokens, index>>
    BY <1>5 DEF Preempt, Turn
  <2>2. Len(running) \in 1 .. Len(running)
    BY <1>0, <2>1 DEF Types
  <2>3. Len(running') = Len(running) - 1 /\ \A i \in 1 .. Len(running) - 1 : running'[i] = running[i]
    <3>1. running \in Seq(Reqs) /\ Len(running) >= 1
      BY <1>0, <2>2 DEF Types
    <3> QED
      BY <2>1, <3>1, FrontOfQueue
  <2> SUFFICES ASSUME NEW r \in Reqs, tokens[r] # 0
               PROVE  /\ status'[r] = "running"
                      /\ \E i \in 1 .. Len(running') : i < index /\ running'[i] = r
    BY <2>1 DEF Given
  <2>4. PICK i \in 1 .. Len(running) : i < index /\ running[i] = r
    BY <2>1 DEF Given
  <2>5. i \in 1 .. Len(running) - 1 /\ i # Len(running)
    BY <1>0, <2>1, <2>4
  <2>6. r # v
    BY <2>1, <2>2, <2>4, <2>5 DEF Queue
  <2>7. status'[r] = "running"
    BY <2>1, <2>6 DEF Types, Given
  <2> QED
    BY <2>3, <2>4, <2>5, <2>7
<1>6. CASE RunningDone
  <2>1. Same
    BY <1>6, <1>0 DEF RunningDone, queues, counters, pool, loads, locals
  <2> QED
    BY <2>1, <1>a
<1>7. CASE PassOver
  <2>1. Same
    BY <1>7, <1>0 DEF PassOver, queues, counters, pool, loads, locals
  <2> QED
    BY <2>1, <1>a
<1>8. CASE Promote
  <2>1. Same
    BY <1>8, <1>0 DEF Promote, queues, counters, pool, loads, locals, Types
  <2> QED
    BY <2>1, <1>a
<1>9. CASE Admit
  <2>1. /\ Head1 \in Reqs /\ status' = [status EXCEPT ![Head1] = "running"]
        /\ tokens' = [tokens EXCEPT ![Head1] = FirstTokens(Head1)] /\ pc = "waiting" /\ pc' = pc
    BY <1>9, HeadType DEF Admit, Admitting
  <2>2. \A r \in Reqs : tokens'[r] # 0 => status'[r] = "running"
    <3> SUFFICES ASSUME NEW r \in Reqs, tokens'[r] # 0 PROVE status'[r] = "running"
      OBVIOUS
    <3> HIDE DEF Head1
    <3>1. CASE r = Head1
      BY <2>1, <3>1 DEF Types
    <3>2. CASE r # Head1
      BY <2>1, <3>2 DEF Types, Given
    <3> QED
      BY <3>1, <3>2
  <2> QED
    BY <2>1, <2>2 DEF Given
<1>10. CASE WaitingDone
  <2>1. Same
    BY <1>10, <1>0 DEF WaitingDone, queues, counters, pool, loads, locals
  <2> QED
    BY <2>1, <1>a
<1>11. CASE Dispatch
  BY <1>11, <1>c DEF Dispatch
<1>12. CASE \E r \in Reqs : \E n \in Matches(r) : Load(n)
  <2>0. PICK q \in Reqs : \E m \in Matches(q) : Load(m)
    BY <1>12
  <2>1. Same
    BY <2>0, <1>0 DEF Load, queues, counters, pool, loads, locals, Ready, Types
  <2> QED
    BY <2>1, <1>a
<1>13. CASE Updates
  <2>0. PICK accepted \in [Reqs -> 0 .. SpecTokens], eos \in SUBSET Head(steps).samples :
          steps # <<>> /\ Update(accepted, eos)
    BY <1>13 DEF Updates
  <2>1. PICK S \in SUBSET Reqs, gone \in SUBSET Reqs : Taken(S, gone)
    BY <2>0, UpdateTakes
  <2>2. Idle
    BY <2>1 DEF Taken
  <2> QED
    BY <2>2, <1>b
<1>14. CASE \E r \in Reqs : AddRequest(r)
  <2>0. PICK q \in Reqs : AddRequest(q)
    BY <1>14
  <2>1. Idle
    BY <2>0, <1>0 DEF AddRequest, queues, counters, pool, loads, locals
  <2> QED
    BY <2>1, <1>b
<1>15. CASE \E r \in Reqs : Abort(r)
  <2>0. PICK q \in Reqs : Abort(q)
    BY <1>15
  <2>1. Idle
    BY <2>0, <1>0 DEF Abort, queues, counters, pool, loads, locals
  <2> QED
    BY <2>1, <1>b
<1>16. CASE \E r \in Reqs : TransferOf(r)
  <2>1. Same
    BY <1>16, <1>0 DEF TransferOf, EndTransfer, queues, counters, pool, loads, locals
  <2> QED
    BY <2>1, <1>a
<1>17. CASE UNCHANGED vars
  BY <1>17, <1>a, <1>0 DEF vars, queues, locals
<1> QED
  BY <1>1, <1>2, <1>3, <1>4, <1>5, <1>6, <1>7, <1>8, <1>9, <1>10, <1>11, <1>12, <1>13, <1>14,
     <1>15, <1>16, <1>17 DEF Next, Schedule

\* The blocks of requests, pool and deferred frees stay distinct.
LEMMA HeldStep ==
  ASSUME Types, Held, [Next]_vars
  PROVE  Held'
<1>a. ASSUME UNCHANGED <<blocks, free, deferred>> PROVE Held'
  BY <1>a DEF Held
<1>b. ASSUME NEW r, NEW n, Take(r, n), UNCHANGED deferred PROVE Held'
  BY <1>b, TakeHolds DEF Held
<1>c. ASSUME NEW v \in Reqs, Release({v}, free, deferred, fence, FenceNow) PROVE Held'
  <2>1. {v} \in SUBSET Reqs /\ free \in SUBSET Blocks /\ deferred \in Seq(Freed)
        /\ fence \in [Reqs -> Nat] /\ FenceNow \in Int
    BY PoolType
  <2> QED
    BY <1>c, <2>1, ReleaseHolds DEF Held
<1>1. CASE Begin
  BY <1>1, <1>a DEF Begin, pool
<1>2. CASE Pass
  BY <1>2, <1>a DEF Pass, pool
<1>3. CASE Consider
  BY <1>3, <1>a DEF Consider, pool
<1>4. CASE Allocate
  BY <1>4, <1>b DEF Allocate
<1>5. CASE Preempt
  BY <1>5, <1>c DEF Preempt
<1>6. CASE RunningDone
  BY <1>6, <1>a DEF RunningDone, pool
<1>7. CASE PassOver
  BY <1>7, <1>a DEF PassOver, pool
<1>8. CASE Promote
  <2>1. Head1 \in Reqs /\ deferred' = deferred
    BY <1>8, HeadType DEF Promote
  <2>2. CASE UNCHANGED <<free, blocks>>
    BY <2>1, <2>2, <1>a
  <2>3. CASE free' = free \cup blocks[Head1] /\ blocks' = [blocks EXCEPT ![Head1] = {}]
    <3> HIDE DEF Head1
    <3>1. \A q \in Reqs : blocks'[q] = IF q = Head1 THEN {} ELSE blocks[q]
      BY <2>3 DEF Types
    <3>2. /\ \A r, q \in Reqs : r # q => blocks'[r] \cap blocks'[q] = {}
          /\ \A r \in Reqs : blocks'[r] \cap free' = {}
      BY <2>1, <2>3, <3>1 DEF Held, Distinct
    <3>3. \A i \in 1 .. Len(deferred) : deferred[i].blocks \cap free' = {}
      BY <2>1, <2>3 DEF Held, Distinct
    <3>4. \A r \in Reqs : \A i \in 1 .. Len(deferred) : blocks'[r] \cap deferred[i].blocks = {}
      BY <3>1 DEF Held, Distinct
    <3> QED
      BY <2>1, <3>2, <3>3, <3>4 DEF Held, Distinct
  <2> QED
    BY <1>8, <2>2, <2>3 DEF Promote
<1>9. CASE Admit
  BY <1>9, <1>b DEF Admit
<1>10. CASE WaitingDone
  BY <1>10, <1>a DEF WaitingDone, pool
<1>11. CASE Dispatch
  BY <1>11, <1>a DEF Dispatch, pool
<1>12. CASE \E r \in Reqs : \E n \in Matches(r) : Load(n)
  <2>1. PICK m : Load(m)
    BY <1>12
  <2> QED
    BY <2>1, <1>b DEF Load
<1>13. CASE Updates
  <2>0. PICK accepted \in [Reqs -> 0 .. SpecTokens], eos \in SUBSET Head(steps).samples :
          steps # <<>> /\ Update(accepted, eos)
    BY <1>13 DEF Updates
  <2>1. PICK S \in SUBSET Reqs, gone \in SUBSET Reqs : Taken(S, gone)
    BY <2>0, UpdateTakes
  <2>2. FenceAfter \in [Reqs -> Nat] /\ One \in Int
    <3>1. One \in {0, 1} /\ fence \in [Reqs -> Nat]
      BY DEF Types, One
    <3> QED
      BY <3>1 DEF FenceAfter
  <2> DEFINE k == PastFence(One)
  <2>3. k \in 0 .. Len(deferred)
    BY PastFenceIn
  <2>4. Release(S, free \cup Drained(k), StillDeferred(k, One), FenceAfter, FenceNow - One)
    BY <2>1 DEF Taken
  <2> HIDE DEF k
  <2>5. /\ free \cup Drained(k) \in SUBSET Blocks /\ StillDeferred(k, One) \in Seq(Freed)
        /\ Distinct(blocks, free \cup Drained(k), StillDeferred(k, One))
    BY <2>2, <2>3, DrainHolds
  <2>6. FenceNow - One \in Int
    BY <2>2, FenceNowType
  <2> QED
    BY <2>2, <2>4, <2>5, <2>6, ReleaseHolds DEF Held
<1>14. CASE \E r \in Reqs : AddRequest(r)
  BY <1>14, <1>a DEF AddRequest, pool
<1>15. CASE \E r \in Reqs : Abort(r)
  BY <1>15, <1>a, <1>c DEF Abort, pool
<1>16. CASE \E r \in Reqs : TransferOf(r)
  BY <1>16, <1>a DEF TransferOf, EndTransfer, pool
<1>17. CASE UNCHANGED vars
  BY <1>17, <1>a DEF vars, pool
<1> QED
  BY <1>1, <1>2, <1>3, <1>4, <1>5, <1>6, <1>7, <1>8, <1>9, <1>10, <1>11, <1>12, <1>13, <1>14,
     <1>15, <1>16, <1>17 DEF Next, Schedule

\* A step less: the others move up, and so does the place from which they are quiet.
LEMMA TailSteps ==
  ASSUME Types, steps # <<>>, steps' = Tail(steps)
  PROVE  /\ Len(steps) \in Nat \ {0} /\ Len(steps') = Len(steps) - 1
         /\ \A j \in 1 .. Len(steps') : steps'[j] = steps[j + 1]
         /\ \A r : QuietFrom(steps, 1, r) => QuietFrom(steps', 1, r)
         /\ \A r : \A i \in 2 .. Len(steps) : QuietFrom(steps, i, r) => QuietFrom(steps', i - 1, r)
<1>d. Len(steps) \in Nat \ {0}
  BY LenProperties, EmptySeq DEF Types
<1>2. Len(steps') = Len(steps) - 1 /\ \A j \in 1 .. Len(steps') : steps'[j] = steps[j + 1]
  BY <1>d, HeadTailProperties DEF Types
<1>3. \A r : QuietFrom(steps, 1, r) => QuietFrom(steps', 1, r)
  <2>1. \A j \in 1 .. Len(steps') : j + 1 \in 1 .. Len(steps)
    BY <1>d, <1>2
  <2> QED
    BY <1>2, <2>1 DEF QuietFrom
<1>4. ASSUME NEW r, NEW i \in 2 .. Len(steps), QuietFrom(steps, i, r)
      PROVE  QuietFrom(steps', i - 1, r)
  <2>1. \A j \in i - 1 .. Len(steps') : j \in 1 .. Len(steps') /\ j + 1 \in i .. Len(steps)
    BY <1>d, <1>2
  <2> QED
    BY <1>2, <1>4, <2>1 DEF QuietFrom
<1> QED
  BY <1>d, <1>2, <1>3, <1>4

\* A step more.
LEMMA MoreSteps ==
  ASSUME Types, NEW step \in Output, steps' = Append(steps, step)
  PROVE  /\ Len(steps) \in Nat /\ Len(steps') = Len(steps) + 1
         /\ \A j \in 1 .. Len(steps) : steps'[j] = steps[j]
         /\ steps'[Len(steps) + 1] = step
         /\ \A r : step.tokens[r] = 0 =>
              /\ QuietFrom(steps', Len(steps) + 1, r)
              /\ \A i \in Nat \ {0} : QuietFrom(steps, i, r) => QuietFrom(steps', i, r)
<1>d. /\ Len(steps) \in Nat /\ Len(steps') = Len(steps) + 1
      /\ \A j \in 1 .. Len(steps) : steps'[j] = steps[j]
      /\ steps'[Len(steps) + 1] = step
  BY LenProperties, AppendProperties DEF Types
<1>2. ASSUME NEW r, step.tokens[r] = 0
      PROVE  QuietFrom(steps', Len(steps) + 1, r)
  <2>1. \A j \in Len(steps) + 1 .. Len(steps') : j = Len(steps) + 1
    BY <1>d
  <2> QED
    BY <1>d, <1>2, <2>1 DEF QuietFrom
<1>3. ASSUME NEW r, step.tokens[r] = 0, NEW i \in Nat \ {0}, QuietFrom(steps, i, r)
      PROVE  QuietFrom(steps', i, r)
  <2>1. \A j \in i .. Len(steps') :
          j = Len(steps) + 1 \/ (j \in i .. Len(steps) /\ j \in 1 .. Len(steps))
    BY <1>d
  <2> QED
    BY <1>d, <1>3, <2>1 DEF QuietFrom
<1> QED
  BY <1>d, <1>2, <1>3

\* What a step in flight writes stays with its request or waits for the step.
LEMMA WritesStep ==
  ASSUME Types, Given, Held, Writes, [Next]_vars
  PROVE  Writes'
<1>0. /\ Len(steps) \in Nat /\ Len(deferred) \in Nat
      /\ \A r \in Reqs : fence[r] \in Nat
      /\ \A i \in 1 .. Len(steps) : \A r \in Reqs : steps[i].tokens[r] \in Int
      /\ \A k \in 1 .. Len(deferred) : deferred[k].fence \in Int
  <2>1. Len(steps) \in Nat /\ \A i \in 1 .. Len(steps) : steps[i] \in Output
    BY LenProperties DEF Types
  <2>2. Len(deferred) \in Nat /\ \A k \in 1 .. Len(deferred) : deferred[k] \in Freed
    BY LenProperties DEF Types
  <2>3. \A step \in Output, r \in Reqs : step.tokens[r] \in Int
    BY DEF Output
  <2>4. \A e \in Freed : e.fence \in Int
    BY DEF Freed
  <2>5. \A r \in Reqs : fence[r] \in Nat
    BY DEF Types
  <2> QED
    BY <2>1, <2>2, <2>3, <2>4, <2>5
<1>d. \A i \in 1 .. Len(steps) : Count(steps, i) \in Nat /\ Count(steps, i) <= FenceNow
  <2> SUFFICES ASSUME NEW i \in 1 .. Len(steps)
               PROVE  Count(steps, i) \in Nat /\ Count(steps, i) <= FenceNow
    OBVIOUS
  <2>1. i \in Nat /\ i \in 0 .. Len(steps)
    BY <1>0
  <2> QED
    BY <1>0, <2>1, CountType, CountGrows, FenceNowType
<1>a. ASSUME UNCHANGED <<steps, fence, deferred>>,
             \A r \in Reqs : status[r] = "running" =>
               status'[r] = "running" /\ blocks[r] \subseteq blocks'[r]
      PROVE  Writes'
  <2> SUFFICES ASSUME NEW i \in 1 .. Len(steps), NEW r \in Reqs, NEW b \in steps[i].writes[r]
               PROVE  steps[i].tokens[r] > 0 /\ Fenced(i, r, b)'
    BY <1>a DEF Writes
  <2>1. steps[i].tokens[r] > 0 /\ Fenced(i, r, b)
    BY DEF Writes
  <2>2. CASE b \in blocks[r] /\ status[r] = "running" /\ fence[r] >= Count(steps, i)
    BY <1>a, <2>1, <2>2 DEF Fenced
  <2>3. CASE \E k \in 1 .. Len(deferred) : b \in deferred[k].blocks /\ deferred[k].fence >= Count(steps, i)
    BY <1>a, <2>1, <2>3 DEF Fenced
  <2> QED
    BY <2>1, <2>2, <2>3 DEF Fenced
<1>b. ASSUME NEW q, NEW n, Take(q, n), UNCHANGED <<steps, fence, deferred>>,
             \A r \in Reqs : status[r] = "running" => status'[r] = "running"
      PROVE  Writes'
  <2>1. \A r \in Reqs : blocks[r] \subseteq blocks'[r]
    BY <1>b, TakeHolds
  <2> QED
    BY <1>a, <1>b, <2>1
<1>c. ASSUME NEW v \in Reqs, Release({v}, free, deferred, fence, FenceNow),
             UNCHANGED <<steps, fence>>, \A r \in Reqs \ {v} : status'[r] = status[r]
      PROVE  Writes'
  <2>1. {v} \in SUBSET Reqs /\ free \in SUBSET Blocks /\ deferred \in Seq(Freed)
        /\ fence \in [Reqs -> Nat] /\ FenceNow \in Int
    BY PoolType
  <2>2. /\ \A r \in Reqs : blocks'[r] = IF r \in {v} THEN {} ELSE blocks[r]
        /\ Len(deferred) <= Len(deferred')
        /\ \A i \in 1 .. Len(deferred) : deferred'[i] = deferred[i]
        /\ fence[v] > 0 => \A b \in blocks[v] :
             \E k \in 1 .. Len(deferred') : b \in deferred'[k].blocks /\ deferred'[k].fence = FenceNow
        /\ deferred' \in Seq(Freed)
    <3>1. deferred' \in Seq(Freed) /\ Released({v}, deferred, fence, FenceNow)
      <4>1. Distinct(blocks, free, deferred)
        BY DEF Held
      <4> QED
        BY <1>c, <2>1, <4>1, ReleaseHolds
    <3> QED
      BY <3>1 DEF Released
  <2>3. Len(deferred') \in Nat
    BY <2>2, LenProperties
  <2> SUFFICES ASSUME NEW i \in 1 .. Len(steps), NEW r \in Reqs, NEW b \in steps[i].writes[r]
               PROVE  steps[i].tokens[r] > 0 /\ Fenced(i, r, b)'
    BY <1>c DEF Writes
  <2>4. steps[i].tokens[r] > 0 /\ Fenced(i, r, b)
    BY DEF Writes
  <2>5. ASSUME NEW k \in 1 .. Len(deferred), b \in deferred[k].blocks,
               deferred[k].fence >= Count(steps, i)
        PROVE  Fenced(i, r, b)'
    <3>1. k \in 1 .. Len(deferred') /\ deferred'[k] = deferred[k]
      BY <1>0, <2>2, <2>3
    <3> QED
      BY <1>c, <2>5, <3>1 DEF Fenced
  <2>6. ASSUME b \in blocks[r], status[r] = "running", fence[r] >= Count(steps, i)
        PROVE  Fenced(i, r, b)'
    <3>1. CASE r # v
      BY <1>c, <2>2, <2>6, <3>1 DEF Fenced
    <3>2. CASE r = v
      <4>1. Scheduled(steps[i]) # {} /\ i \in Nat \ {0}
        BY <1>0, <2>4 DEF Scheduled
      <4>2. Count(steps, i) >= 1
        BY <4>1, CountPositive
      <4>3. fence[v] > 0
        BY <1>0, <1>d, <2>6, <3>2, <4>2
      <4>4. PICK k \in 1 .. Len(deferred') : b \in deferred'[k].blocks /\ deferred'[k].fence = FenceNow
        BY <2>2, <2>6, <3>2, <4>3
      <4>5. deferred'[k].fence >= Count(steps, i)
        BY <1>d, <2>1, <4>4
      <4> QED
        BY <1>c, <4>4, <4>5 DEF Fenced
    <3> QED
      BY <3>1, <3>2
  <2> QED
    BY <2>4, <2>5, <2>6 DEF Fenced
<1>1. CASE Begin
  BY <1>1, <1>a DEF Begin, queues, counters, pool, loads, locals
<1>2. CASE Pass
  BY <1>2, <1>a DEF Pass, queues, counters, pool, loads, locals
<1>3. CASE Consider
  BY <1>3, <1>a DEF Consider, queues, counters, pool, loads, locals
<1>4. CASE Allocate
  BY <1>4, <1>b DEF Allocate, queues, counters, pool, loads, locals
<1>5. CASE Preempt
  <2>1. PICK v \in Reqs :
          /\ status' = [status EXCEPT ![v] = "waiting"]
          /\ Release({v}, free, deferred, fence, FenceNow) /\ UNCHANGED <<steps, fence>>
    BY <1>5 DEF Preempt
  <2>2. \A r \in Reqs \ {v} : status'[r] = status[r]
    BY <2>1 DEF Types
  <2> QED
    BY <2>1, <2>2, <1>c
<1>6. CASE RunningDone
  BY <1>6, <1>a DEF RunningDone, queues, counters, pool, loads, locals
<1>7. CASE PassOver
  BY <1>7, <1>a DEF PassOver, queues, counters, pool, loads, locals
<1>8. CASE Promote
  <2>1. /\ status' = [status EXCEPT ![Head1] = "waiting"] /\ status[Head1] = "loading"
        /\ status \in [Reqs -> Statuses] /\ blocks \in [Reqs -> SUBSET Blocks]
        /\ blocks' = blocks \/ blocks' = [blocks EXCEPT ![Head1] = {}]
    BY <1>8 DEF Promote, Types
  <2>2. \A r \in Reqs : status[r] = "running" => status'[r] = "running" /\ blocks[r] \subseteq blocks'[r]
    <3> HIDE DEF Head1
    <3> QED
      BY <2>1
  <2> QED
    BY <1>8, <2>2, <1>a DEF Promote, queues, counters, pool, loads, locals
<1>9. CASE Admit
  <2>1. status' = [status EXCEPT ![Head1] = "running"] /\ status \in [Reqs -> Statuses]
    BY <1>9 DEF Admit, Types
  <2>2. \A r \in Reqs : status[r] = "running" => status'[r] = "running"
    <3> HIDE DEF Head1
    <3> QED
      BY <2>1
  <2> QED
    BY <1>9, <2>2, <1>b DEF Admit, queues, counters, pool, loads, locals
<1>10. CASE WaitingDone
  BY <1>10, <1>a DEF WaitingDone, queues, counters, pool, loads, locals
<1>11. CASE Dispatch
  <2>1. /\ fence' = [r \in Reqs |-> IF r \in {q \in Reqs : tokens[q] > 0} THEN FenceNow + 1 ELSE fence[r]]
        /\ UNCHANGED <<status, pool>>
    BY <1>11, Zenon DEF Dispatch
  <2>2. UNCHANGED <<status, blocks, free, deferred>>
    BY <2>1 DEF pool
  <2>3. \A r \in Reqs : fence'[r] = IF tokens[r] > 0 THEN FenceNow + 1 ELSE fence[r]
    BY <2>1
  <2>4. FenceNow \in Nat /\ FenceNow = Count(steps, Len(steps))
    BY FenceNowType
  <2>5. CASE steps' = steps /\ \A r \in Reqs : ~(tokens[r] > 0)
    <3>1. fence' = fence
      BY <2>1, <2>5 DEF Types
    <3> QED
      BY <2>2, <2>5, <3>1, <1>a
  <2>6. ASSUME NEW step \in Output, steps' = Append(steps, step),
               \A r \in Reqs : step.writes[r] = IF tokens[r] > 0 THEN blocks[r] ELSE {},
               step.tokens = tokens
        PROVE  Writes'
    <3>1. /\ Len(steps') = Len(steps) + 1 /\ \A j \in 1 .. Len(steps) : steps'[j] = steps[j]
          /\ steps'[Len(steps) + 1] = step
      BY <2>6, MoreSteps
    <3>2. \A i \in 1 .. Len(steps) : Count(steps', i) = Count(steps, i)
      <4> SUFFICES ASSUME NEW i \in 1 .. Len(steps) PROVE Count(steps', i) = Count(steps, i)
        OBVIOUS
      <4>1. i \in Nat /\ \A j \in 1 .. i : steps'[j] = steps[j]
        BY <1>0, <3>1
      <4> QED
        BY <4>1, CountOfSame
    <3>3. Count(steps', Len(steps) + 1) <= FenceNow + 1
      <4>1. Count(steps', Len(steps)) = Count(steps, Len(steps))
        BY <1>0, <3>1, CountOfSame
      <4>2. Count(steps', Len(steps) + 1)
              = Count(steps', Len(steps)) + (IF Scheduled(steps'[Len(steps) + 1]) = {} THEN 0 ELSE 1)
        BY <1>0, CountNext
      <4> QED
        BY <2>4, <4>1, <4>2
    <3> SUFFICES ASSUME NEW i \in 1 .. Len(steps'), NEW r \in Reqs, NEW b \in steps'[i].writes[r]
                 PROVE  steps'[i].tokens[r] > 0 /\ Fenced(i, r, b)'
      BY DEF Writes
    <3>4. CASE i \in 1 .. Len(steps)
      <4>1. steps[i].tokens[r] > 0 /\ Fenced(i, r, b) /\ steps'[i] = steps[i]
        BY <3>1, <3>4 DEF Writes
      <4>2. CASE b \in blocks[r] /\ status[r] = "running" /\ fence[r] >= Count(steps, i)
        <5>1. fence'[r] >= Count(steps, i)
          <6>1. fence'[r] = fence[r] \/ fence'[r] = FenceNow + 1
            BY <2>3
          <6>2. Count(steps, i) \in Nat /\ Count(steps, i) <= FenceNow
            BY <1>d, <3>4
          <6> QED
            BY <2>4, <4>2, <6>1, <6>2
        <5> QED
          BY <2>2, <3>2, <3>4, <4>1, <4>2, <5>1 DEF Fenced
      <4>3. CASE \E k \in 1 .. Len(deferred) : b \in deferred[k].blocks /\ deferred[k].fence >= Count(steps, i)
        BY <2>2, <3>2, <3>4, <4>1, <4>3 DEF Fenced
      <4> QED
        BY <4>1, <4>2, <4>3 DEF Fenced
    <3>5. CASE i = Len(steps) + 1
      <4>1. b \in blocks[r] /\ tokens[r] > 0 /\ steps'[i].tokens[r] > 0
        BY <2>6, <3>1, <3>5
      <4>2. status[r] = "running"
        BY <4>1 DEF Given, Types
      <4>3. fence'[r] >= Count(steps', i)
        <5>1. fence'[r] = FenceNow + 1
          BY <2>3, <4>1
        <5>2. Count(steps', i) \in Nat
          <6>1. i \in Nat
            BY <1>0, <3>5
          <6> QED
            BY <6>1, CountType
        <5> QED
          BY <2>4, <3>3, <3>5, <5>1, <5>2
      <4> QED
        BY <2>2, <4>1, <4>2, <4>3 DEF Fenced
    <3> QED
      BY <1>0, <3>1, <3>4, <3>5
  <2> QED
    BY <1>11, <2>5, <2>6, DispatchAppends
<1>12. CASE \E r \in Reqs : \E n \in Matches(r) : Load(n)
  <2>1. PICK m : Load(m)
    BY <1>12
  <2>2. /\ status' = [status EXCEPT ![Head1] = "loading"] /\ status[Head1] = "waiting"
        /\ status \in [Reqs -> Statuses]
    BY <2>1 DEF Load, Ready, Types
  <2>3. \A r \in Reqs : status[r] = "running" => status'[r] = "running"
    <3> HIDE DEF Head1
    <3> QED
      BY <2>2
  <2> QED
    BY <2>1, <2>3, <1>b DEF Load, queues, counters, pool, loads, locals
<1>13. CASE Updates
  <2>0. PICK accepted \in [Reqs -> 0 .. SpecTokens], eos \in SUBSET Head(steps).samples :
          steps # <<>> /\ Update(accepted, eos)
    BY <1>13 DEF Updates
  <2>1. PICK S \in SUBSET Reqs, gone \in SUBSET Reqs : Taken(S, gone)
    BY <2>0, UpdateTakes
  <2>2. FenceAfter \in [Reqs -> Nat] /\ One \in {0, 1} /\ One \in Int
    <3>1. One \in {0, 1} /\ fence \in [Reqs -> Nat]
      BY DEF Types, One
    <3> QED
      BY <3>1 DEF FenceAfter
  <2> DEFINE k == PastFence(One)
             d == StillDeferred(k, One)
  <2>3. k \in 0 .. Len(deferred) /\ \A j \in 1 .. k : deferred[j].fence <= One
    BY PastFenceIn
  <2>4. /\ Release(S, free \cup Drained(k), d, FenceAfter, FenceNow - One)
        /\ fence' = FenceAfter /\ steps # <<>> /\ steps' = Tail(steps)
        /\ \A r \in Reqs : status'[r] = IF r \in S THEN "done" ELSE status[r]
    BY <2>1 DEF Taken
  <2> HIDE DEF k
  <2>5. /\ free \cup Drained(k) \in SUBSET Blocks /\ d \in Seq(Freed)
        /\ Len(d) = Len(deferred) - k
        /\ \A j \in 1 .. Len(deferred) - k :
             d[j].blocks = deferred[j + k].blocks /\ d[j].fence = deferred[j + k].fence - One
        /\ Distinct(blocks, free \cup Drained(k), d)
    BY <2>2, <2>3, DrainHolds, Zenon
  <2> HIDE DEF d
  <2>6. FenceNow \in Nat /\ FenceNow - One \in Int
    BY <2>2, FenceNowType
  <2>7. /\ deferred' \in Seq(Freed) /\ Len(d) <= Len(deferred')
        /\ \A r \in Reqs : blocks'[r] = IF r \in S THEN {} ELSE blocks[r]
        /\ \A j \in 1 .. Len(d) : deferred'[j] = d[j]
        /\ \A r \in S : FenceAfter[r] > 0 => \A b \in blocks[r] :
             \E j \in 1 .. Len(deferred') : b \in deferred'[j].blocks /\ deferred'[j].fence = FenceNow - One
    <3>1. deferred' \in Seq(Freed) /\ Released(S, d, FenceAfter, FenceNow - One)
      BY <2>2, <2>4, <2>5, <2>6, ReleaseHolds
    <3> QED
      BY <3>1 DEF Released
  <2>8. Len(deferred') \in Nat
    BY <2>7, LenProperties
  <2>9. /\ Len(steps') \in Nat /\ Len(steps) = Len(steps') + 1
        /\ \A j \in 1 .. Len(steps') : steps'[j] = steps[j + 1]
    BY <2>4, TailSteps
  <2>10. \A j \in 0 .. Len(steps') : Count(steps, j + 1) = Count(steps', j) + One
    <3>2. Len(steps') \in Nat /\ Follows(steps, steps', Len(steps'))
      BY <2>9 DEF Follows
    <3>1. \A j \in 0 .. Len(steps') :
            Count(steps, j + 1) = Count(steps', j) + (IF Scheduled(steps[1]) = {} THEN 0 ELSE 1)
      BY <3>2, CountTail
    <3> QED
      BY <3>1 DEF One
  <2>11. \A j \in 1 .. Len(steps') : Count(steps', j) \in Nat /\ Count(steps', j) <= FenceNow - One
    <3> SUFFICES ASSUME NEW j \in 1 .. Len(steps')
                 PROVE  Count(steps', j) \in Nat /\ Count(steps', j) <= FenceNow - One
      OBVIOUS
    <3>1. j \in Nat /\ j \in 0 .. Len(steps') /\ j + 1 \in 1 .. Len(steps)
      BY <2>9
    <3>2. Count(steps', j) \in Nat
      BY <3>1, CountType
    <3>3. Count(steps, j + 1) = Count(steps', j) + One /\ Count(steps, j + 1) <= FenceNow
      BY <1>d, <2>10, <3>1
    <3> QED
      BY <2>2, <2>6, <3>2, <3>3
  <2> SUFFICES ASSUME NEW i \in 1 .. Len(steps'), NEW r \in Reqs, NEW b \in steps'[i].writes[r]
               PROVE  steps'[i].tokens[r] > 0 /\ Fenced(i, r, b)'
    BY DEF Writes
  <2>12. /\ i + 1 \in 1 .. Len(steps) /\ steps'[i] = steps[i + 1] /\ i \in Nat \ {0}
         /\ Count(steps, i + 1) = Count(steps', i) + One
    BY <2>9, <2>10
  <2>13. steps'[i].tokens[r] > 0 /\ Fenced(i + 1, r, b)
    BY <2>12 DEF Writes
  <2>14. Count(steps', i) \in Nat /\ Count(steps', i) >= 1
    <3>1. Scheduled(steps'[i]) # {}
      BY <2>13 DEF Scheduled
    <3> QED
      BY <2>12, <3>1, CountPositive
  <2>15. ASSUME b \in blocks[r], status[r] = "running", fence[r] >= Count(steps, i + 1)
         PROVE  Fenced(i, r, b)'
    <3>1. FenceAfter[r] >= Count(steps', i) /\ FenceAfter[r] > 0
      <4>1. FenceAfter[r] = IF fence[r] > 0 THEN fence[r] - One ELSE 0
        BY DEF FenceAfter
      <4>2. fence[r] \in Nat /\ fence[r] >= Count(steps', i) + One
        BY <1>0, <2>12, <2>15
      <4> QED
        BY <2>2, <2>14, <4>1, <4>2
    <3>2. CASE r \notin S
      BY <2>4, <2>7, <2>15, <3>1, <3>2 DEF Fenced
    <3>3. CASE r \in S
      <4>1. PICK j \in 1 .. Len(deferred') : b \in deferred'[j].blocks /\ deferred'[j].fence = FenceNow - One
        BY <2>7, <2>15, <3>1, <3>3
      <4>2. deferred'[j].fence >= Count(steps', i)
        BY <2>2, <2>6, <2>11, <4>1
      <4> QED
        BY <4>1, <4>2 DEF Fenced
    <3> QED
      BY <3>2, <3>3
  <2>16. ASSUME NEW h \in 1 .. Len(deferred), b \in deferred[h].blocks,
                deferred[h].fence >= Count(steps, i + 1)
         PROVE  Fenced(i, r, b)'
    <3>1. deferred[h].fence \in Int /\ deferred[h].fence >= Count(steps', i) + One
      BY <1>0, <2>12, <2>16
    <3>2. ~(h \in 1 .. k)
      BY <2>2, <2>3, <2>14, <3>1
    <3>3. h - k \in 1 .. Len(deferred) - k /\ (h - k) + k = h
      BY <1>0, <2>3, <3>2
    <3>4. h - k \in 1 .. Len(d) /\ h - k \in 1 .. Len(deferred')
      BY <1>0, <2>3, <2>5, <2>7, <2>8, <3>3
    <3>5. deferred'[h - k].blocks = deferred[h].blocks /\ deferred'[h - k].fence = deferred[h].fence - One
      BY <2>5, <2>7, <3>3, <3>4
    <3>6. deferred'[h - k].fence >= Count(steps', i)
      BY <2>2, <2>14, <3>1, <3>5
    <3> QED
      BY <2>16, <3>4, <3>5, <3>6 DEF Fenced
  <2> QED
    BY <2>13, <2>15, <2>16 DEF Fenced
<1>14. CASE \E r \in Reqs : AddRequest(r)
  <2>1. PICK q \in Reqs : AddRequest(q)
    BY <1>14
  <2>2. \A r \in Reqs : status[r] = "running" => status'[r] = "running" /\ blocks[r] \subseteq blocks'[r]
    BY <2>1 DEF AddRequest, Types, pool
  <2> QED
    BY <2>1, <2>2, <1>a DEF AddRequest, queues, counters, pool, loads, locals
<1>15. CASE \E r \in Reqs : Abort(r)
  <2>1. PICK q \in Reqs : Abort(q)
    BY <1>15
  <2>2. /\ UNCHANGED <<steps, fence>> /\ \A r \in Reqs \ {q} : status'[r] = status[r]
    BY <2>1 DEF Abort, Types, counters
  <2>3. CASE status[q] = "loading" /\ q \notin received
    <3>1. UNCHANGED <<blocks, deferred>>
      BY <2>1, <2>3 DEF Abort, pool
    <3>2. \A r \in Reqs : status[r] = "running" => status'[r] = "running" /\ blocks[r] \subseteq blocks'[r]
      BY <2>2, <2>3, <3>1
    <3> QED
      BY <2>2, <3>1, <3>2, <1>a
  <2>4. CASE ~(status[q] = "loading" /\ q \notin received)
    <3>1. Release({q}, free, deferred, fence, FenceNow)
      BY <2>1, <2>4 DEF Abort
    <3> QED
      BY <2>2, <3>1, <1>c
  <2> QED
    BY <2>3, <2>4
<1>16. CASE \E r \in Reqs : TransferOf(r)
  BY <1>16, <1>a DEF TransferOf, EndTransfer, queues, counters, pool, loads, locals
<1>17. CASE UNCHANGED vars
  BY <1>17, <1>a DEF vars, queues, counters, pool, loads, locals
<1> QED
  BY <1>1, <1>2, <1>3, <1>4, <1>5, <1>6, <1>7, <1>8, <1>9, <1>10, <1>11, <1>12, <1>13, <1>14,
     <1>15, <1>16, <1>17 DEF Next, Schedule

\* Loads under way keep their requests from having tokens.
LEMMA LoadingStep ==
  ASSUME Types, Types', Queue, Given, Loading, Received, [Next]_vars
  PROVE  Loading'
<1> DEFINE Still == {"loading", "aborted", "done"}
<1>a. ASSUME steps' = steps, transfer' = transfer,
             \A r \in Reqs : transfer[r] # "none" => status'[r] \in Still
      PROVE  Loading'
  BY <1>a DEF Loading
<1>b. ASSUME steps' = steps, transfer' = transfer, NEW q \in Reqs, status[q] \notin Still,
             \A r \in Reqs \ {q} : status'[r] = status[r]
      PROVE  Loading'
  <2>1. \A r \in Reqs : transfer[r] # "none" => r # q /\ status[r] \in Still
    BY <1>b DEF Loading
  <2> QED
    BY <1>a, <1>b, <2>1
<1>c. \A r \in Reqs : tokens[r] \in Int /\ (transfer[r] # "none" => tokens[r] = 0)
  BY DEF Types, Loading, Given
<1>1. CASE Begin
  <2>1. UNCHANGED <<steps, transfer, status>>
    BY <1>1 DEF Begin, loads
  <2> QED
    BY <2>1, <1>a DEF Loading
<1>2. CASE Pass
  <2>1. UNCHANGED <<steps, transfer, status>>
    BY <1>2 DEF Pass, loads
  <2> QED
    BY <2>1, <1>a DEF Loading
<1>3. CASE Consider
  <2>1. UNCHANGED <<steps, transfer, status>>
    BY <1>3 DEF Consider, loads
  <2> QED
    BY <2>1, <1>a DEF Loading
<1>4. CASE Allocate
  <2>1. UNCHANGED <<steps, transfer, status>>
    BY <1>4 DEF Allocate, loads
  <2> QED
    BY <2>1, <1>a DEF Loading
<1>5. CASE Preempt
  <2>1. PICK v \in Reqs :
          /\ status' = [status EXCEPT ![v] = "waiting"] /\ v = running[Len(running)]
          /\ index <= Len(running) /\ UNCHANGED <<steps, transfer>>
    BY <1>5 DEF Preempt, Turn, loads
  <2>2. Len(running) \in 1 .. Len(running)
    BY <2>1, LenProperties DEF Types
  <2>3. status[v] = "running"
    BY <2>1, <2>2 DEF Queue
  <2>4. \A r \in Reqs \ {v} : status'[r] = status[r]
    BY <2>1 DEF Types
  <2> QED
    BY <2>1, <2>3, <2>4, <1>b
<1>6. CASE RunningDone
  <2>1. UNCHANGED <<steps, transfer, status>>
    BY <1>6 DEF RunningDone, loads
  <2> QED
    BY <2>1, <1>a DEF Loading
<1>7. CASE PassOver
  <2>1. UNCHANGED <<steps, transfer, status>>
    BY <1>7 DEF PassOver, loads
  <2> QED
    BY <2>1, <1>a DEF Loading
<1>8. CASE Promote
  <2>1. /\ Head1 \in received /\ status' = [status EXCEPT ![Head1] = "waiting"]
        /\ UNCHANGED <<steps, transfer>>
    BY <1>8 DEF Promote
  <2> HIDE DEF Head1
  <2>2. \A r \in Reqs : transfer[r] # "none" => r # Head1 /\ status[r] \in Still
    BY <2>1 DEF Loading, Received
  <2>3. \A r \in Reqs : transfer[r] # "none" => status'[r] \in Still
    BY <2>1, <2>2 DEF Types
  <2> QED
    BY <2>1, <2>3, <1>a
<1>9. CASE Admit
  <2>1. /\ Head1 \in Reqs /\ status[Head1] = "waiting" /\ status' = [status EXCEPT ![Head1] = "running"]
        /\ UNCHANGED <<steps, transfer>>
    BY <1>9, HeadType DEF Admit, Ready, loads
  <2>2. \A r \in Reqs \ {Head1} : status'[r] = status[r]
    <3> HIDE DEF Head1
    <3> QED
      BY <2>1 DEF Types
  <2> QED
    BY <2>1, <2>2, <1>b
<1>10. CASE WaitingDone
  <2>1. UNCHANGED <<steps, transfer, status>>
    BY <1>10 DEF WaitingDone, loads
  <2> QED
    BY <2>1, <1>a DEF Loading
<1>11. CASE Dispatch
  <2>1. /\ \A r \in Reqs : transfer'[r] = IF transfer[r] = "asked" THEN "going" ELSE transfer[r]
        /\ status' = status
    <3>1. transfer' = [r \in Reqs |-> IF transfer[r] = "asked" THEN "going" ELSE transfer[r]]
      BY <1>11, Zenon DEF Dispatch
    <3> QED
      BY <1>11, <3>1 DEF Dispatch
  <2>2. CASE steps' = steps /\ \A r \in Reqs : ~(tokens[r] > 0) /\ transfer[r] = "none"
    BY <2>1, <2>2 DEF Loading
  <2>3. ASSUME NEW step \in Output, steps' = Append(steps, step), step.tokens = tokens,
               step.loads = {r \in Reqs : transfer[r] = "asked"}
        PROVE  Loading'
    <3>1. /\ Len(steps) \in Nat /\ Len(steps') = Len(steps) + 1
          /\ \A j \in 1 .. Len(steps) : steps'[j] = steps[j]
          /\ steps'[Len(steps) + 1] = step
          /\ \A r : step.tokens[r] = 0 =>
               /\ QuietFrom(steps', Len(steps) + 1, r)
               /\ \A i \in Nat \ {0} : QuietFrom(steps, i, r) => QuietFrom(steps', i, r)
      BY <2>3, MoreSteps
    <3>2. \A i \in 1 .. Len(steps) : i \in Nat \ {0} /\ i \in 1 .. Len(steps')
      BY <3>1
    <3>3. Len(steps) + 1 \in 1 .. Len(steps')
      BY <3>1
    <3> SUFFICES ASSUME NEW r \in Reqs, transfer'[r] # "none"
                 PROVE  /\ status'[r] \in Still
                        /\ transfer'[r] = "going" => \/ QuietFrom(steps', 1, r)
                                                     \/ \E i \in 1 .. Len(steps') :
                                                          r \in steps'[i].loads /\ QuietFrom(steps', i, r)
                        /\ transfer'[r] = "ended" => QuietFrom(steps', 1, r)
      BY DEF Loading
    <3>4. transfer[r] # "none"
      BY <2>1
    <3>5. status'[r] \in Still /\ step.tokens[r] = 0
      BY <1>c, <2>1, <2>3, <3>4 DEF Loading
    <3>6. 1 \in Nat \ {0}
      OBVIOUS
    <3>7. \A i \in Nat \ {0} : QuietFrom(steps, i, r) => QuietFrom(steps', i, r)
      BY <3>1, <3>5
    <3>8. CASE transfer[r] = "asked"
      <4>1. transfer'[r] = "going" /\ r \in steps'[Len(steps) + 1].loads
            /\ QuietFrom(steps', Len(steps) + 1, r)
        BY <2>1, <2>3, <3>1, <3>5, <3>8
      <4> QED
        BY <3>3, <3>5, <4>1
    <3>9. CASE transfer[r] = "ended"
      BY <2>1, <3>5, <3>6, <3>7, <3>9 DEF Loading
    <3>10. CASE transfer[r] = "going"
      <4>1. \/ QuietFrom(steps, 1, r)
            \/ \E i \in 1 .. Len(steps) : r \in steps[i].loads /\ QuietFrom(steps, i, r)
        BY <3>10 DEF Loading
      <4>2. \/ QuietFrom(steps', 1, r)
            \/ \E i \in 1 .. Len(steps') : r \in steps'[i].loads /\ QuietFrom(steps', i, r)
        BY <3>1, <3>2, <3>6, <3>7, <4>1
      <4>3. transfer'[r] = "going"
        BY <2>1, <3>10
      <4> QED
        BY <3>5, <4>2, <4>3
    <3> QED
      BY <3>4, <3>8, <3>9, <3>10 DEF Types
  <2> QED
    BY <1>11, <2>2, <2>3, DispatchAppends
<1>12. CASE \E r \in Reqs : \E n \in Matches(r) : Load(n)
  <2>1. PICK m : Load(m)
    BY <1>12
  <2>2. /\ Head1 \in Reqs /\ status' = [status EXCEPT ![Head1] = "loading"]
        /\ transfer' = [transfer EXCEPT ![Head1] = "asked"] /\ steps' = steps
    BY <2>1, HeadType DEF Load
  <2> HIDE DEF Head1
  <2>3. status'[Head1] = "loading" /\ transfer'[Head1] = "asked"
    BY <2>2 DEF Types
  <2>4. \A r \in Reqs \ {Head1} : status'[r] = status[r] /\ transfer'[r] = transfer[r]
    BY <2>2 DEF Types
  <2> QED
    BY <2>2, <2>3, <2>4 DEF Loading
<1>13. CASE Updates
  <2>0. PICK accepted \in [Reqs -> 0 .. SpecTokens], eos \in SUBSET Head(steps).samples :
          steps # <<>> /\ Update(accepted, eos)
    BY <1>13 DEF Updates
  <2>1. PICK S \in SUBSET Reqs, gone \in SUBSET Reqs : Taken(S, gone)
    BY <2>0, UpdateTakes
  <2>2. /\ steps # <<>> /\ steps' = Tail(steps)
        /\ \A r \in Reqs : status'[r] = IF r \in S THEN "done" ELSE status[r]
        /\ \A r \in Reqs : transfer'[r] = IF transfer[r] = "ended" THEN "none" ELSE transfer[r]
    BY <2>1 DEF Taken
  <2>3. /\ Len(steps) \in Nat \ {0} /\ Len(steps') = Len(steps) - 1
        /\ \A j \in 1 .. Len(steps') : steps'[j] = steps[j + 1]
        /\ \A r : QuietFrom(steps, 1, r) => QuietFrom(steps', 1, r)
        /\ \A r : \A i \in 2 .. Len(steps) : QuietFrom(steps, i, r) => QuietFrom(steps', i - 1, r)
    BY <2>2, TailSteps
  <2> SUFFICES ASSUME NEW r \in Reqs, transfer'[r] # "none"
               PROVE  /\ status'[r] \in Still
                      /\ transfer'[r] = "going" => \/ QuietFrom(steps', 1, r)
                                                   \/ \E i \in 1 .. Len(steps') :
                                                        r \in steps'[i].loads /\ QuietFrom(steps', i, r)
                      /\ transfer'[r] # "ended"
    BY DEF Loading
  <2>4. transfer'[r] = transfer[r] /\ transfer[r] # "none" /\ transfer[r] # "ended"
    BY <2>2
  <2>5. status'[r] \in Still
    BY <2>2, <2>4 DEF Loading
  <2>6. ASSUME transfer[r] = "going"
        PROVE  \/ QuietFrom(steps', 1, r)
               \/ \E i \in 1 .. Len(steps') : r \in steps'[i].loads /\ QuietFrom(steps', i, r)
    <3>1. CASE QuietFrom(steps, 1, r)
      BY <2>3, <3>1
    <3>2. ASSUME NEW i \in 1 .. Len(steps), r \in steps[i].loads, QuietFrom(steps, i, r)
          PROVE  \/ QuietFrom(steps', 1, r)
                 \/ \E j \in 1 .. Len(steps') : r \in steps'[j].loads /\ QuietFrom(steps', j, r)
      <4>1. CASE i = 1
        BY <2>3, <3>2, <4>1
      <4>2. CASE i # 1
        <5>1. i \in 2 .. Len(steps) /\ i - 1 \in 1 .. Len(steps') /\ (i - 1) + 1 = i
          BY <2>3, <4>2
        <5>2. steps'[i - 1] = steps[i]
          BY <2>3, <5>1
        <5>3. QuietFrom(steps', i - 1, r)
          BY <2>3, <3>2, <5>1
        <5> QED
          BY <3>2, <5>1, <5>2, <5>3
      <4> QED
        BY <4>1, <4>2
    <3> QED
      BY <2>6, <3>1, <3>2 DEF Loading
  <2> QED
    BY <2>4, <2>5, <2>6
<1>14. CASE \E r \in Reqs : AddRequest(r)
  <2>1. PICK q \in Reqs : AddRequest(q)
    BY <1>14
  <2>2. /\ status[q] = "new" /\ UNCHANGED <<steps, transfer>>
        /\ \A r \in Reqs \ {q} : status'[r] = status[r]
    BY <2>1 DEF AddRequest, Types, loads
  <2> QED
    BY <2>2, <1>b
<1>15. CASE \E r \in Reqs : Abort(r)
  <2>1. PICK q \in Reqs : Abort(q)
    BY <1>15
  <2>2. /\ UNCHANGED <<steps, transfer>> /\ status'[q] \in {"aborted", "done"}
        /\ \A r \in Reqs \ {q} : status'[r] = status[r]
    BY <2>1 DEF Abort, Types
  <2>3. \A r \in Reqs : transfer[r] # "none" => status'[r] \in Still
    BY <2>2 DEF Loading
  <2> QED
    BY <2>2, <2>3, <1>a
<1>16. CASE \E r \in Reqs : TransferOf(r)
  <2>1. PICK q \in Reqs : TransferOf(q)
    BY <1>16
  <2>2. /\ transfer' = [transfer EXCEPT ![q] = "ended"] /\ transfer[q] = "going"
        /\ \A i \in 2 .. Len(steps) : q \notin steps[i].loads
        /\ UNCHANGED <<status, steps>>
    BY <2>1 DEF TransferOf, EndTransfer
  <2>3. QuietFrom(steps, 1, q)
    <3>1. CASE QuietFrom(steps, 1, q)
      BY <3>1
    <3>2. ASSUME NEW i \in 1 .. Len(steps), q \in steps[i].loads, QuietFrom(steps, i, q)
          PROVE  QuietFrom(steps, 1, q)
      <4>1. Len(steps) \in Nat
        BY LenProperties DEF Types
      <4>2. ~(i \in 2 .. Len(steps))
        BY <2>2, <3>2
      <4>3. i = 1
        BY <4>1, <4>2
      <4> QED
        BY <3>2, <4>3
    <3> QED
      BY <2>2, <3>1, <3>2 DEF Loading
  <2>4. transfer'[q] = "ended" /\ \A r \in Reqs \ {q} : transfer'[r] = transfer[r]
    BY <2>2 DEF Types
  <2>5. status[q] \in Still
    BY <2>2 DEF Loading
  <2> QED
    BY <2>2, <2>3, <2>4, <2>5 DEF Loading
<1>17. CASE UNCHANGED vars
  BY <1>17, <1>a DEF vars, loads, Loading
<1> QED
  BY <1>1, <1>2, <1>3, <1>4, <1>5, <1>6, <1>7, <1>8, <1>9, <1>10, <1>11, <1>12, <1>13, <1>14,
     <1>15, <1>16, <1>17 DEF Next, Schedule

\* A request told that its load has ended counts valid tokens only.
LEMMA ReceivedStep ==
  ASSUME Types, Types', Queue, Given, Loading, Received, [Next]_vars
  PROVE  Received'
<1>a. ASSUME steps' = steps, received' \subseteq received,
             \A r \in received' : /\ status'[r] = status[r] /\ transfer'[r] = transfer[r]
                                  /\ computed'[r] = computed[r] /\ good'[r] = good[r]
      PROVE  Received'
  BY <1>a DEF Received
<1>b. ASSUME UNCHANGED <<steps, received, transfer, good>>, NEW q \in Reqs, status[q] # "loading",
             \A r \in Reqs \ {q} : status'[r] = status[r] /\ computed'[r] = computed[r]
      PROVE  Received'
  <2>1. \A r \in received : r \in Reqs \ {q}
    BY <1>b DEF Received, Types
  <2> QED
    BY <1>a, <1>b, <2>1
<1>1. CASE Begin
  <2>1. UNCHANGED <<steps, received, transfer, good, status, computed>>
    BY <1>1 DEF Begin, loads, counters
  <2> QED
    BY <2>1, <1>a
<1>2. CASE Pass
  <2>1. UNCHANGED <<steps, received, transfer, good, status, computed>>
    BY <1>2 DEF Pass, loads, counters
  <2> QED
    BY <2>1, <1>a
<1>3. CASE Consider
  <2>1. UNCHANGED <<steps, received, transfer, good, status, computed>>
    BY <1>3 DEF Consider, loads, counters
  <2> QED
    BY <2>1, <1>a
<1>4. CASE Allocate
  <2>1. UNCHANGED <<steps, received, transfer, good, status, computed>>
    BY <1>4 DEF Allocate, loads, counters
  <2> QED
    BY <2>1, <1>a
<1>5. CASE Preempt
  <2>1. PICK v \in Reqs :
          /\ status' = [status EXCEPT ![v] = "waiting"] /\ v = running[Len(running)]
          /\ computed' = [computed EXCEPT ![v] = 0]
          /\ index <= Len(running) /\ UNCHANGED <<steps, received, transfer, good>>
    BY <1>5 DEF Preempt, Turn, loads
  <2>2. Len(running) \in 1 .. Len(running)
    BY <2>1, LenProperties DEF Types
  <2>3. status[v] = "running"
    BY <2>1, <2>2 DEF Queue
  <2>4. \A r \in Reqs \ {v} : status'[r] = status[r] /\ computed'[r] = computed[r]
    BY <2>1 DEF Types
  <2> QED
    BY <2>1, <2>3, <2>4, <1>b
<1>6. CASE RunningDone
  <2>1. UNCHANGED <<steps, received, transfer, good, status, computed>>
    BY <1>6 DEF RunningDone, loads, counters
  <2> QED
    BY <2>1, <1>a
<1>7. CASE PassOver
  <2>1. UNCHANGED <<steps, received, transfer, good, status, computed>>
    BY <1>7 DEF PassOver, loads, counters
  <2> QED
    BY <2>1, <1>a
<1>8. CASE Promote
  <2>1. /\ received' = received \ {Head1} /\ status' = [status EXCEPT ![Head1] = "waiting"]
        /\ \/ computed' = computed
           \/ computed' = [computed EXCEPT ![Head1] = Least(computed[Head1], NumTokens(Head1) - 1)]
        /\ UNCHANGED <<steps, transfer, good>>
    BY <1>8 DEF Promote
  <2> HIDE DEF Head1
  <2>2. \A r \in received' : r \in Reqs /\ r # Head1
    BY <2>1 DEF Types
  <2>3. \A r \in received' : status'[r] = status[r] /\ computed'[r] = computed[r]
    BY <2>1, <2>2 DEF Types
  <2> QED
    BY <2>1, <2>3, <1>a
<1>9. CASE Admit
  <2>1. /\ Head1 \in Reqs /\ status[Head1] = "waiting" /\ status' = [status EXCEPT ![Head1] = "running"]
        /\ UNCHANGED <<steps, received, transfer, good, computed>>
    BY <1>9, HeadType DEF Admit, Ready, loads, counters
  <2>2. \A r \in Reqs \ {Head1} : status'[r] = status[r]
    <3> HIDE DEF Head1
    <3> QED
      BY <2>1 DEF Types
  <2> QED
    BY <2>1, <2>2, <1>b
<1>10. CASE WaitingDone
  <2>1. UNCHANGED <<steps, received, transfer, good, status, computed>>
    BY <1>10 DEF WaitingDone, loads, counters
  <2> QED
    BY <2>1, <1>a
<1>11. CASE Dispatch
  <2>1. /\ \A r \in Reqs : transfer'[r] = IF transfer[r] = "asked" THEN "going" ELSE transfer[r]
        /\ \A r \in Reqs : computed'[r] = computed[r] + tokens[r]
        /\ UNCHANGED <<status, received, good>>
    <3>1. transfer' = [r \in Reqs |-> IF transfer[r] = "asked" THEN "going" ELSE transfer[r]]
      BY <1>11, Zenon DEF Dispatch
    <3>2. computed' = [r \in Reqs |-> computed[r] + tokens[r]]
      BY <1>11, Zenon DEF Dispatch
    <3> QED
      BY <1>11, <3>1, <3>2 DEF Dispatch
  <2>2. \A r \in received : /\ r \in Reqs /\ status[r] = "loading" /\ transfer[r] = "none"
                            /\ computed[r] <= good[r] /\ QuietFrom(steps, 1, r) /\ tokens[r] = 0
    BY DEF Received, Given, Types
  <2>3. \A r \in received : computed'[r] = computed[r]
    <3>1. \A r \in Reqs : computed[r] \in Int
      BY DEF Types
    <3> QED
      BY <2>1, <2>2, <3>1
  <2>4. \A r \in received : transfer'[r] = transfer[r]
    BY <2>1, <2>2
  <2>5. CASE steps' = steps
    BY <2>1, <2>3, <2>4, <2>5, <1>a
  <2>6. ASSUME NEW step \in Output, steps' = Append(steps, step), step.tokens = tokens
        PROVE  Received'
    <3>1. \A r \in received : QuietFrom(steps', 1, r)
      <4>1. \A r : step.tokens[r] = 0 =>
              \A i \in Nat \ {0} : QuietFrom(steps, i, r) => QuietFrom(steps', i, r)
        BY <2>6, MoreSteps
      <4>2. 1 \in Nat \ {0}
        OBVIOUS
      <4> QED
        BY <2>2, <2>6, <4>1, <4>2
    <3> QED
      BY <2>1, <2>2, <2>3, <2>4, <3>1 DEF Received
  <2> QED
    BY <1>11, <2>5, <2>6, DispatchAppends
<1>12. CASE \E r \in Reqs : \E n \in Matches(r) : Load(n)
  <2>1. PICK m : Load(m)
    BY <1>12
  <2>2. /\ Head1 \in Reqs /\ status[Head1] = "waiting"
        /\ status' = [status EXCEPT ![Head1] = "loading"]
        /\ transfer' = [transfer EXCEPT ![Head1] = "asked"]
        /\ computed' = [computed EXCEPT ![Head1] = m] /\ good' = [good EXCEPT ![Head1] = m]
        /\ UNCHANGED <<steps, received>>
    BY <2>1, HeadType DEF Load, Ready
  <2> HIDE DEF Head1
  <2>3. \A r \in received : r \in Reqs /\ r # Head1
    BY <2>2 DEF Received, Types
  <2>4. \A r \in received : /\ status'[r] = status[r] /\ transfer'[r] = transfer[r]
                            /\ computed'[r] = computed[r] /\ good'[r] = good[r]
    BY <2>2, <2>3 DEF Types
  <2> QED
    BY <2>2, <2>4, <1>a
<1>13. CASE Updates
  <2>0. PICK accepted \in [Reqs -> 0 .. SpecTokens], eos \in SUBSET Head(steps).samples :
          steps # <<>> /\ Update(accepted, eos)
    BY <1>13 DEF Updates
  <2>1. PICK S \in SUBSET Reqs, gone \in SUBSET Reqs : Taken(S, gone)
    BY <2>0, UpdateTakes
  <2>2. /\ steps # <<>> /\ steps' = Tail(steps) /\ good' = good
        /\ \A r \in Reqs : status'[r] = IF r \in S THEN "done" ELSE status[r]
        /\ \A r \in Reqs : transfer'[r] = IF transfer[r] = "ended" THEN "none" ELSE transfer[r]
    BY <2>1 DEF Taken
  <2>3. /\ \A r \in S : transfer[r] = "ended" \/ steps[1].tokens[r] > 0
        /\ \A r \in received' \ received :
             r \in Reqs /\ transfer[r] = "ended" /\ status[r] = "loading"
        /\ \A r \in received' \ received : r \in S => steps[1].tokens[r] > 0
        /\ \A r \in Reqs : transfer[r] = "ended" /\ status[r] = "loading" /\ steps[1].tokens[r] = 0
             => computed'[r] <= good[r]
        /\ \A r \in Reqs : transfer[r] # "ended" /\ steps[1].tokens[r] = 0 => computed'[r] = computed[r]
    BY <2>1 DEF Taken
  <2>4. /\ Len(steps) \in Nat \ {0}
        /\ \A r : QuietFrom(steps, 1, r) => QuietFrom(steps', 1, r)
    BY <2>2, TailSteps
  <2>5. \A r : QuietFrom(steps, 1, r) => steps[1].tokens[r] = 0
    BY <2>4 DEF QuietFrom
  <2> SUFFICES ASSUME NEW r \in received'
               PROVE  /\ status'[r] = "loading" /\ transfer'[r] = "none"
                      /\ computed'[r] <= good'[r] /\ QuietFrom(steps', 1, r)
    BY DEF Received
  <2>6. r \in Reqs
    BY DEF Types
  <2>7. CASE r \in received
    <3>1. /\ status[r] = "loading" /\ transfer[r] = "none" /\ computed[r] <= good[r]
          /\ QuietFrom(steps, 1, r)
      BY <2>7 DEF Received
    <3>2. steps[1].tokens[r] = 0
      BY <2>5, <3>1
    <3>3. r \notin S
      BY <2>3, <3>1, <3>2
    <3> QED
      BY <2>2, <2>3, <2>4, <2>6, <3>1, <3>2, <3>3
  <2>8. CASE r \notin received
    <3>1. transfer[r] = "ended" /\ status[r] = "loading" /\ (r \in S => steps[1].tokens[r] > 0)
      BY <2>3, <2>8
    <3>2. QuietFrom(steps, 1, r)
      BY <2>6, <3>1 DEF Loading
    <3>3. steps[1].tokens[r] = 0 /\ r \notin S
      BY <2>5, <3>1, <3>2
    <3> QED
      BY <2>2, <2>3, <2>4, <2>6, <3>1, <3>2, <3>3
  <2> QED
    BY <2>7, <2>8
<1>14. CASE \E r \in Reqs : AddRequest(r)
  <2>1. PICK q \in Reqs : AddRequest(q)
    BY <1>14
  <2>2. /\ status[q] = "new" /\ UNCHANGED <<steps, received, transfer, good, computed>>
        /\ \A r \in Reqs \ {q} : status'[r] = status[r]
    BY <2>1 DEF AddRequest, Types, loads, counters
  <2> QED
    BY <2>2, <1>b
<1>15. CASE \E r \in Reqs : Abort(r)
  <2>1. PICK q \in Reqs : Abort(q)
    BY <1>15
  <2>2. /\ UNCHANGED <<steps, transfer, good, computed>> /\ received' = received \ {q}
        /\ \A r \in Reqs \ {q} : status'[r] = status[r]
    BY <2>1 DEF Abort, Types, counters
  <2>3. \A r \in received' : r \in Reqs \ {q}
    BY <2>2 DEF Types
  <2> QED
    BY <2>2, <2>3, <1>a
<1>16. CASE \E r \in Reqs : TransferOf(r)
  <2>1. PICK q \in Reqs : TransferOf(q)
    BY <1>16
  <2>2. PICK n : /\ transfer' = [transfer EXCEPT ![q] = "ended"] /\ transfer[q] = "going"
                 /\ good' = [good EXCEPT ![q] = n]
                 /\ UNCHANGED <<status, steps, received, computed>>
    BY <2>1 DEF TransferOf, EndTransfer, counters
  <2>3. \A r \in received : r \in Reqs /\ r # q
    BY <2>2 DEF Received, Types
  <2>4. \A r \in received : transfer'[r] = transfer[r] /\ good'[r] = good[r]
    BY <2>2, <2>3 DEF Types
  <2> QED
    BY <2>2, <2>4, <1>a
<1>17. CASE UNCHANGED vars
  BY <1>17, <1>a DEF vars, loads, counters
<1> QED
  BY <1>1, <1>2, <1>3, <1>4, <1>5, <1>6, <1>7, <1>8, <1>9, <1>10, <1>11, <1>12, <1>13, <1>14,
     <1>15, <1>16, <1>17 DEF Next, Schedule

-----------------------------------------------------------------------------
(* The invariant holds, and what follows from it.                             *)

\* At first there is nothing in flight and the pool has every block.
LEMMA InitHolds == Init => IInv
<1> SUFFICES ASSUME Init PROVE IInv
  OBVIOUS
<1>1. Types
  BY EmptySeq DEF Init, Types, Nothing, Statuses
<1>2. Queue /\ Given /\ Held /\ Writes /\ Loading /\ Received
  <2>1. Len(running) = 0 /\ Len(deferred) = 0 /\ Len(steps) = 0
    BY EmptySeq DEF Init
  <2>2. \A r \in Reqs : tokens[r] = 0 /\ blocks[r] = {} /\ transfer[r] = "none"
    BY DEF Init, Nothing
  <2>3. Queue /\ Given
    BY <2>1, <2>2 DEF Queue, Given
  <2>4. Held /\ Writes
    BY <2>1, <2>2 DEF Held, Distinct, Writes
  <2>5. Loading /\ Received
    BY <2>2 DEF Loading, Received, Init
  <2> QED
    BY <2>3, <2>4, <2>5
<1> QED
  BY <1>1, <1>2 DEF IInv

\* The invariant is inductive.
LEMMA Inductive == IInv /\ [Next]_vars => IInv'
<1> SUFFICES ASSUME Types, Queue, Given, Held, Writes, Loading, Received, [Next]_vars
             PROVE  IInv'
  BY DEF IInv
<1>1. Types'
  BY TypesStep
<1>2. Queue'
  BY <1>1, QueueStep
<1>3. Given'
  BY <1>1, <1>2, GivenStep
<1>4. Held'
  BY HeldStep
<1>5. Writes'
  BY WritesStep
<1>6. Loading'
  BY <1>1, LoadingStep
<1>7. Received'
  BY <1>1, ReceivedStep
<1> QED
  BY <1>1, <1>2, <1>3, <1>4, <1>5, <1>6, <1>7 DEF IInv

\* The invariant holds in every state.
LEMMA IInvHolds == Spec => []IInv
  BY InitHolds, Inductive, PTL DEF Spec

\* A KV block has one owner: the pool, a request, or a free that waits for a step
\* in flight.  What preemptions, aborts, failed loads and the drain of deferred
\* frees do to a block is the same for every number of requests and blocks.
THEOREM BlocksHeldOnce == Spec => []BlocksAreHeldOnce
<1>1. IInv => BlocksAreHeldOnce
  <2> SUFFICES ASSUME Types, Held PROVE BlocksAreHeldOnce
    BY DEF IInv
  <2>1. \A d \in Elements(deferred) : \E i \in 1 .. Len(deferred) : d = deferred[i]
    BY LenProperties DEF Elements, Types
  <2>2. \A b \in Deferred : \E i \in 1 .. Len(deferred) : b \in deferred[i].blocks
    BY <2>1 DEF Deferred
  <2>3. \A r \in Reqs : blocks[r] \cap Deferred = {}
    BY <2>2 DEF Held, Distinct
  <2>4. free \cap Deferred = {}
    BY <2>2 DEF Held, Distinct
  <2>5. \A r, q \in Reqs : r # q => blocks[r] \cap blocks[q] = {}
    BY DEF Held, Distinct
  <2>6. \A r \in Reqs : blocks[r] \cap free = {}
    BY DEF Held, Distinct
  <2> QED
    BY <2>3, <2>4, <2>5, <2>6 DEF BlocksAreHeldOnce
<1> QED
  BY <1>1, IInvHolds, PTL

\* The half of InFlightWritesKept that is about steps: whoever was preempted, aborted or
\* finished meanwhile, no step in flight writes a block that the
\* pool can give to somebody else.
THEOREM WritesKept == Spec => []StepWritesKept
<1>1. IInv => StepWritesKept
  <2> SUFFICES ASSUME Types, Writes PROVE StepWritesKept
    BY DEF IInv
  <2>1. \A i \in 1 .. Len(deferred) : deferred[i].blocks \subseteq Deferred
    <3>1. \A i \in 1 .. Len(deferred) : deferred[i] \in Elements(deferred)
      BY LenProperties DEF Elements, Types
    <3> QED
      BY <3>1 DEF Deferred
  <2>2. \A s \in Elements(steps) : \E i \in 1 .. Len(steps) : s = steps[i]
    BY LenProperties DEF Elements, Types
  <2>3. \A i \in 1 .. Len(steps), r \in Reqs : \A b \in steps[i].writes[r] :
          b \in blocks[r] \cup Deferred
    BY <2>1 DEF Writes, Fenced
  <2> QED
    BY <2>2, <2>3 DEF StepWritesKept
<1> QED
  BY <1>1, IInvHolds, PTL

\* A request whose load ended in part goes back to the waiting ones with the valid
\* tokens at most, however the end of the load, its report and the request's turn
\* fall between the steps in flight.
THEOREM InvalidRecomputed == Spec => InvalidIsRecomputed
<1>1. IInv /\ [Next]_vars =>
        [\A r \in Reqs : status[r] = "loading" /\ status'[r] = "waiting" =>
           computed'[r] <= good[r]]_vars
  <2> SUFFICES ASSUME Types, Queue, Received, [Next]_vars,
                      NEW p \in Reqs, status[p] = "loading", status'[p] = "waiting"
               PROVE  computed'[p] <= good[p]
    BY DEF IInv
  <2>1. CASE Begin
    BY <2>1 DEF Begin
  <2>2. CASE Pass
    BY <2>2 DEF Pass
  <2>3. CASE Consider
    BY <2>3 DEF Consider
  <2>4. CASE Allocate
    BY <2>4 DEF Allocate
  <2>5. CASE Preempt
    <3>1. PICK v \in Reqs :
            /\ status' = [status EXCEPT ![v] = "waiting"] /\ v = running[Len(running)]
            /\ index <= Len(running)
      BY <2>5 DEF Preempt, Turn
    <3>2. Len(running) \in 1 .. Len(running)
      BY <3>1, LenProperties DEF Types
    <3>3. status[v] = "running"
      BY <3>1, <3>2 DEF Queue
    <3> QED
      BY <3>1, <3>3 DEF Types
  <2>6. CASE RunningDone
    BY <2>6 DEF RunningDone
  <2>7. CASE PassOver
    BY <2>7 DEF PassOver
  <2>8. CASE Promote
    <3>1. /\ Head1 \in received /\ status' = [status EXCEPT ![Head1] = "waiting"]
          /\ \/ computed' = computed
             \/ computed' = [computed EXCEPT ![Head1] = Least(computed[Head1], NumTokens(Head1) - 1)]
      BY <2>8 DEF Promote
    <3> HIDE DEF Head1
    <3>2. p = Head1
      BY <3>1 DEF Types
    <3>3. computed[p] \in Int /\ good[p] \in Int /\ computed[p] <= good[p] /\ NumTokens(p) \in Int
      BY <3>1, <3>2, NumTokensType DEF Received, Types
    <3>4. computed'[p] = computed[p] \/ computed'[p] = Least(computed[p], NumTokens(p) - 1)
      BY <3>1, <3>2 DEF Types
    <3> QED
      BY <3>3, <3>4 DEF Least
  <2>9. CASE Admit
    BY <2>9, HeadType DEF Admit, Types
  <2>10. CASE WaitingDone
    BY <2>10 DEF WaitingDone
  <2>11. CASE Dispatch
    BY <2>11 DEF Dispatch
  <2>12. CASE \E r \in Reqs : \E n \in Matches(r) : Load(n)
    BY <2>12, HeadType DEF Load, Types
  <2>13. CASE Updates
    <3>1. PICK accepted \in [Reqs -> 0 .. SpecTokens], eos \in SUBSET Head(steps).samples :
            steps # <<>> /\ Update(accepted, eos)
      BY <2>13 DEF Updates
    <3>2. PICK S \in SUBSET Reqs, gone \in SUBSET Reqs : Taken(S, gone)
      BY <3>1, UpdateTakes
    <3> QED
      BY <3>2 DEF Taken
  <2>14. CASE \E r \in Reqs : AddRequest(r)
    BY <2>14 DEF AddRequest, Types
  <2>15. CASE \E r \in Reqs : Abort(r)
    BY <2>15 DEF Abort, Types
  <2>16. CASE \E r \in Reqs : TransferOf(r)
    BY <2>16 DEF TransferOf, EndTransfer
  <2>17. CASE UNCHANGED vars
    BY <2>17 DEF vars
  <2> QED
    BY <2>1, <2>2, <2>3, <2>4, <2>5, <2>6, <2>7, <2>8, <2>9, <2>10, <2>11, <2>12, <2>13,
       <2>14, <2>15, <2>16, <2>17 DEF Next, Schedule
<1> QED
  BY <1>1, IInvHolds, PTL DEF Spec, InvalidIsRecomputed

-----------------------------------------------------------------------------
(* Sums over the steps in flight.                                             *)

\* What holds of zero and of the successor of each number it holds of, holds of
\* all.
LEMMA AllNumbers ==
  ASSUME NEW S, 0 \in S, \A n \in Nat : n \in S => n + 1 \in S
  PROVE  \A n \in Nat : n \in S
<1> DEFINE Bad == Nat \ S
<1> SUFFICES ASSUME Bad # {} PROVE FALSE
  OBVIOUS
<1>1. PICK n \in Bad : \A m \in Bad : n <= m
  <2>1. Bad \subseteq Nat
    OBVIOUS
  <2> HIDE DEF Bad
  <2> QED
    BY <2>1, LeastIn
<1>2. n # 0 /\ n - 1 \in Nat /\ n - 1 \notin Bad /\ (n - 1) + 1 = n
  BY <1>1
<1> QED
  BY <1>1, <1>2

\* The first n numbers of g, added up.
Total(g, n) == LET t[i \in 0 .. n] == IF i = 0 THEN 0 ELSE t[i - 1] + g[i] IN t[n]

Adds(g, n, t) == t = [i \in 0 .. n |-> IF i = 0 THEN 0 ELSE t[i - 1] + g[i]]

\* The sums exist.
LEMMA AddsExists ==
  ASSUME NEW g
  PROVE  \A n \in Nat : \E t : Adds(g, n, t)
<1> DEFINE S == {n \in Nat : \E t : Adds(g, n, t)}
<1>1. 0 \in S
  <2>1. Adds(g, 0, [i \in 0 .. 0 |-> 0])
    BY DEF Adds
  <2> QED
    BY <2>1
<1>2. ASSUME NEW n \in Nat, n \in S PROVE n + 1 \in S
  <2>1. PICK t : Adds(g, n, t)
    BY <1>2
  <2> DEFINE u == [i \in 0 .. n + 1 |-> IF i = n + 1 THEN t[n] + g[n + 1] ELSE t[i]]
  <2>2. \A i \in 0 .. n : t[i] = IF i = 0 THEN 0 ELSE t[i - 1] + g[i]
    BY <2>1 DEF Adds
  <2>3. ASSUME NEW i \in 0 .. n + 1 PROVE u[i] = IF i = 0 THEN 0 ELSE u[i - 1] + g[i]
    <3>1. CASE i = 0
      BY <2>2, <3>1
    <3>2. CASE i # 0
      <4>1. i - 1 \in 0 .. n /\ u[i - 1] = t[i - 1]
        BY <3>2
      <4>2. CASE i = n + 1
        BY <4>1, <4>2
      <4>3. CASE i # n + 1
        BY <2>2, <3>2, <4>1, <4>3
      <4> QED
        BY <4>2, <4>3
    <3> QED
      BY <3>1, <3>2
  <2>4. u = [i \in 0 .. n + 1 |-> u[i]]
    OBVIOUS
  <2> HIDE DEF u
  <2>5. Adds(g, n + 1, u)
    BY <2>3, <2>4 DEF Adds
  <2> QED
    BY <2>5
<1> HIDE DEF S
<1>3. \A n \in Nat : n \in S
  BY <1>1, <1>2, AllNumbers
<1> QED
  BY <1>3 DEF S

\* One more number adds itself.
LEMMA TotalNext ==
  ASSUME NEW g
  PROVE  Total(g, 0) = 0 /\ \A n \in Nat : Total(g, n + 1) = Total(g, n) + g[n + 1]
<1> DEFINE T(n) == CHOOSE t : Adds(g, n, t)
<1>1. \A n \in Nat : Adds(g, n, T(n))
  BY AddsExists, Zenon
<1>2. \A n \in Nat : Total(g, n) = T(n)[n]
  BY Zenon DEF Total, Adds
<1> HIDE DEF T
<1>3. \A n \in Nat : \A i \in 0 .. n : T(n)[i] = IF i = 0 THEN 0 ELSE T(n)[i - 1] + g[i]
  BY <1>1 DEF Adds
<1>4. Total(g, 0) = 0
  BY <1>2, <1>3
<1>5. ASSUME NEW n \in Nat PROVE Total(g, n + 1) = Total(g, n) + g[n + 1]
  <2> DEFINE S == {i \in Nat : i <= n => T(n)[i] = T(n + 1)[i]}
  <2>0. n + 1 \in Nat
    OBVIOUS
  <2>1. 0 \in S
    BY <1>3, <2>0
  <2>2. ASSUME NEW i \in Nat, i \in S PROVE i + 1 \in S
    <3> SUFFICES ASSUME i + 1 <= n PROVE T(n)[i + 1] = T(n + 1)[i + 1]
      OBVIOUS
    <3>1. i + 1 \in 0 .. n /\ i + 1 \in 0 .. n + 1 /\ (i + 1) - 1 = i /\ i + 1 # 0
      OBVIOUS
    <3>2. T(n)[i + 1] = T(n)[i] + g[i + 1] /\ T(n + 1)[i + 1] = T(n + 1)[i] + g[i + 1]
      BY <1>3, <2>0, <3>1
    <3> QED
      BY <2>2, <3>2
  <2> HIDE DEF S
  <2>3. n \in S
    BY <2>1, <2>2, AllNumbers
  <2>4. T(n + 1)[n + 1] = T(n + 1)[n] + g[n + 1]
    <3>1. n + 1 \in 0 .. n + 1 /\ (n + 1) - 1 = n /\ n + 1 # 0
      OBVIOUS
    <3> QED
      BY <1>3, <2>0, <3>1
  <2> QED
    BY <1>2, <2>0, <2>3, <2>4 DEF S
<1> QED
  BY <1>4, <1>5

\* The first n of g are natural numbers.
Counts(g, n) == \A i \in 1 .. n : g[i] \in Nat

\* Sums of natural numbers are natural numbers, and grow.
LEMMA TotalGrows ==
  ASSUME NEW g, NEW n \in Nat, Counts(g, n)
  PROVE  /\ \A i \in 0 .. n : Total(g, i) \in Nat
         /\ \A i \in 1 .. n : Total(g, i) = Total(g, i - 1) + g[i]
         /\ \A j \in 0 .. n : \A i \in 0 .. j : Total(g, i) <= Total(g, j)
<1>1. \A i \in 1 .. n : Total(g, i) = Total(g, i - 1) + g[i]
  <2> SUFFICES ASSUME NEW i \in 1 .. n PROVE Total(g, i) = Total(g, i - 1) + g[i]
    OBVIOUS
  <2>1. i - 1 \in Nat /\ (i - 1) + 1 = i
    OBVIOUS
  <2> QED
    BY <2>1, TotalNext
<1> DEFINE S == {i \in Nat : i <= n => \A h \in 0 .. i : Total(g, h) \in Nat /\ Total(g, h) <= Total(g, i)}
<1>2. 0 \in S
  BY TotalNext
<1>3. ASSUME NEW i \in Nat, i \in S PROVE i + 1 \in S
  <2> SUFFICES ASSUME i + 1 <= n
               PROVE  \A h \in 0 .. i + 1 : Total(g, h) \in Nat /\ Total(g, h) <= Total(g, i + 1)
    OBVIOUS
  <2>1. \A h \in 0 .. i : Total(g, h) \in Nat /\ Total(g, h) <= Total(g, i)
    BY <1>3
  <2>2. g[i + 1] \in Nat /\ Total(g, i + 1) = Total(g, i) + g[i + 1]
    BY TotalNext DEF Counts
  <2>3. Total(g, i) \in Nat /\ Total(g, i + 1) \in Nat /\ Total(g, i) <= Total(g, i + 1)
    BY <2>1, <2>2
  <2>4. ASSUME NEW h \in 0 .. i + 1 PROVE Total(g, h) \in Nat /\ Total(g, h) <= Total(g, i + 1)
    <3>1. CASE h = i + 1
      BY <2>3, <3>1
    <3>2. CASE h # i + 1
      <4>1. h \in 0 .. i
        BY <3>2
      <4> QED
        BY <2>1, <2>3, <4>1
    <3> QED
      BY <3>1, <3>2
  <2> QED
    BY <2>3, <2>4
<1> HIDE DEF S
<1>4. \A i \in Nat : i \in S
  BY <1>2, <1>3, AllNumbers
<1>5. \A j \in 0 .. n : Total(g, j) \in Nat /\ \A i \in 0 .. j : Total(g, i) <= Total(g, j)
  <2> SUFFICES ASSUME NEW j \in 0 .. n
               PROVE  Total(g, j) \in Nat /\ \A i \in 0 .. j : Total(g, i) <= Total(g, j)
    OBVIOUS
  <2>1. j \in S /\ j <= n
    BY <1>4
  <2> QED
    BY <2>1 DEF S
<1> QED
  BY <1>1, <1>5

\* Equal numbers have equal sums.
LEMMA TotalOfSame ==
  ASSUME NEW g, NEW h, NEW n \in Nat, \A i \in 1 .. n : g[i] = h[i]
  PROVE  \A i \in 0 .. n : Total(g, i) = Total(h, i)
<1> DEFINE S == {i \in Nat : i <= n => Total(g, i) = Total(h, i)}
<1>1. 0 \in S
  BY TotalNext
<1>2. ASSUME NEW i \in Nat, i \in S PROVE i + 1 \in S
  <2> SUFFICES ASSUME i + 1 <= n PROVE Total(g, i + 1) = Total(h, i + 1)
    OBVIOUS
  <2>1. Total(g, i) = Total(h, i) /\ i + 1 \in 1 .. n
    BY <1>2
  <2> QED
    BY <2>1, TotalNext
<1> HIDE DEF S
<1>3. \A i \in Nat : i \in S
  BY <1>1, <1>2, AllNumbers
<1> QED
  BY <1>3 DEF S

\* Without the first number the sums lack it.
LEMMA TotalOfTail ==
  ASSUME NEW g, NEW h, NEW n \in Nat, Counts(g, n + 1), \A i \in 1 .. n : h[i] = g[i + 1]
  PROVE  \A i \in 0 .. n : Total(g, i + 1) = g[1] + Total(h, i)
<1> DEFINE S == {i \in Nat : i <= n => Total(g, i + 1) = g[1] + Total(h, i)}
<1>a. g[1] \in Nat
  BY DEF Counts
<1>b. Counts(h, n)
  <2> SUFFICES ASSUME NEW i \in 1 .. n PROVE h[i] \in Nat
    BY DEF Counts
  <2>1. i + 1 \in 1 .. n + 1
    OBVIOUS
  <2> QED
    BY <2>1 DEF Counts
<1>1. 0 \in S
  <2>1. Total(g, 0 + 1) = Total(g, 0) + g[0 + 1] /\ Total(g, 0) = 0 /\ Total(h, 0) = 0
    BY TotalNext
  <2> QED
    BY <1>a, <2>1
<1>2. ASSUME NEW i \in Nat, i \in S PROVE i + 1 \in S
  <2> SUFFICES ASSUME i + 1 <= n PROVE Total(g, (i + 1) + 1) = g[1] + Total(h, i + 1)
    OBVIOUS
  <2>1. Total(g, i + 1) = g[1] + Total(h, i) /\ i + 1 \in 1 .. n /\ i + 1 \in Nat
    BY <1>2
  <2>2. /\ Total(g, (i + 1) + 1) = Total(g, i + 1) + g[(i + 1) + 1]
        /\ Total(h, i + 1) = Total(h, i) + h[i + 1]
    BY <2>1, TotalNext
  <2>3. h[i + 1] = g[(i + 1) + 1] /\ h[i + 1] \in Nat
    BY <1>b, <2>1 DEF Counts
  <2>4. Total(h, i) \in Nat
    BY <1>b, <2>1, TotalGrows
  <2> QED
    BY <1>a, <2>1, <2>2, <2>3, <2>4
<1> HIDE DEF S
<1>3. \A i \in Nat : i \in S
  BY <1>1, <1>2, AllNumbers
<1> QED
  BY <1>3 DEF S

\* Sums of numbers up to b are bounded.
LEMMA TotalBound ==
  ASSUME NEW g, NEW n \in Nat, NEW b \in Nat, \A i \in 1 .. n : g[i] \in 0 .. b
  PROVE  \A i \in 0 .. n : Total(g, i) \in 0 .. i * b
<1> DEFINE S == {i \in Nat : i <= n => Total(g, i) \in 0 .. i * b}
<1>1. 0 \in S
  BY TotalNext
<1>2. ASSUME NEW i \in Nat, i \in S PROVE i + 1 \in S
  <2> SUFFICES ASSUME i + 1 <= n PROVE Total(g, i + 1) \in 0 .. (i + 1) * b
    OBVIOUS
  <2>1. Total(g, i) \in 0 .. i * b /\ g[i + 1] \in 0 .. b
    BY <1>2
  <2>2. Total(g, i + 1) = Total(g, i) + g[i + 1]
    BY TotalNext
  <2>3. (i + 1) * b = i * b + b /\ i * b \in Nat
    OBVIOUS
  <2> QED
    BY <2>1, <2>2, <2>3
<1> HIDE DEF S
<1>3. \A i \in Nat : i \in S
  BY <1>1, <1>2, AllNumbers
<1> QED
  BY <1>3 DEF S

-----------------------------------------------------------------------------
(* The lowest blocks of the pool.                                             *)

\* As many numbers of F are below one of its n lowest as its place says: of a set
\* with n numbers or more there are n.
LEMMA LowestOf ==
  ASSUME NEW F, F \subseteq Nat, IsFiniteSet(F)
  PROVE  \A n \in Nat : n <= Cardinality(F) =>
           Cardinality({b \in F : Cardinality({c \in F : c < b}) < n}) = n
<1> DEFINE Below(b) == {c \in F : c < b}
           L(n) == {b \in F : Cardinality(Below(b)) < n}
           S == {n \in Nat : n <= Cardinality(F) => Cardinality(L(n)) = n}
<1>1. \A b : IsFiniteSet(Below(b)) /\ Cardinality(Below(b)) \in Nat
  <2> SUFFICES ASSUME NEW b PROVE IsFiniteSet(Below(b)) /\ Cardinality(Below(b)) \in Nat
    OBVIOUS
  <2>1. Below(b) \subseteq F
    OBVIOUS
  <2> HIDE DEF Below
  <2> QED
    BY <2>1, FS_Subset, FS_CardinalityType
<1>2. \A n : IsFiniteSet(L(n))
  <2> SUFFICES ASSUME NEW n PROVE IsFiniteSet(L(n))
    OBVIOUS
  <2>1. L(n) \subseteq F
    OBVIOUS
  <2> HIDE DEF L
  <2> QED
    BY <2>1, FS_Subset
<1>3. Cardinality(F) \in Nat
  BY FS_CardinalityType
<1>4. 0 \in S
  <2>1. L(0) = {}
    BY <1>1
  <2> QED
    BY <2>1, FS_EmptySet
<1>5. ASSUME NEW n \in Nat, n \in S PROVE n + 1 \in S
  <2> SUFFICES ASSUME n + 1 <= Cardinality(F) PROVE Cardinality(L(n + 1)) = n + 1
    OBVIOUS
  <2>1. Cardinality(L(n)) = n
    BY <1>3, <1>5
  <2>2. F \ L(n) # {} /\ F \ L(n) \subseteq Nat /\ L(n) \subseteq F
    <3>1. L(n) # F
      <4> HIDE DEF L
      <4> QED
        BY <1>3, <2>1
    <3>2. L(n) \subseteq F
      OBVIOUS
    <3> HIDE DEF L
    <3> QED
      BY <3>1, <3>2
  <2>3. PICK b \in F \ L(n) : \A c \in F \ L(n) : b <= c
    <3> DEFINE G == F \ L(n)
    <3>1. G # {} /\ G \subseteq Nat
      BY <2>2
    <3> HIDE DEF G
    <3>2. \E b \in G : \A c \in G : b <= c
      BY <3>1, LeastIn
    <3> QED
      BY <3>2 DEF G
  <2>4. b \in F /\ b \in Nat /\ b \notin L(n) /\ ~(Cardinality(Below(b)) < n)
    BY <2>3
  <2>5. Below(b) = L(n)
    <3>1. Below(b) \subseteq L(n)
      <4> SUFFICES ASSUME NEW c \in F, c < b, c \notin L(n) PROVE FALSE
        OBVIOUS
      <4> HIDE DEF L
      <4>1. b <= c
        BY <2>3
      <4> QED
        BY <4>1, <2>4
    <3>2. L(n) \subseteq Below(b)
      <4> SUFFICES ASSUME NEW c \in L(n), ~(c < b) PROVE FALSE
        OBVIOUS
      <4>1. c \in F /\ c \in Nat /\ Cardinality(Below(c)) < n
        OBVIOUS
      <4>2. Below(b) \subseteq Below(c)
        <5> SUFFICES ASSUME NEW x \in F, x < b PROVE x < c
          OBVIOUS
        <5>1. x \in Nat /\ b \in Nat /\ c \in Nat /\ ~(c < b)
          BY <2>4, <4>1
        <5> HIDE DEF L, Below
        <5> QED
          BY <5>1
      <4>3. Cardinality(Below(b)) <= Cardinality(Below(c))
        <5> HIDE DEF Below
        <5> QED
          BY <1>1, <4>2, FS_Subset
      <4> QED
        BY <1>1, <2>4, <4>1, <4>3
    <3> QED
      BY <3>1, <3>2
  <2>6. L(n + 1) = L(n) \cup {b}
    <3>1. L(n) \subseteq L(n + 1) /\ b \in L(n + 1)
      <4>1. Cardinality(Below(b)) = n
        BY <2>1, <2>5
      <4>2. \A c \in F : Cardinality(Below(c)) < n => Cardinality(Below(c)) < n + 1
        <5>1. \A c \in F : Cardinality(Below(c)) \in Nat
          BY <1>1
        <5> HIDE DEF Below
        <5> QED
          BY <5>1
      <4>3. n < n + 1
        OBVIOUS
      <4> HIDE DEF Below
      <4> QED
        BY <2>4, <4>1, <4>2, <4>3
    <3>2. ASSUME NEW c \in L(n + 1), c \notin L(n), c # b PROVE FALSE
      <4>1. c \in F /\ c \in Nat /\ Cardinality(Below(c)) < n + 1
        BY <3>2
      <4>2. b < c
        <5>1. b <= c
          BY <2>3, <3>2, <4>1
        <5> QED
          BY <2>4, <3>2, <4>1, <5>1
      <4>3. L(n) \cup {b} \subseteq Below(c)
        <5>1. Below(b) \subseteq Below(c)
          <6> SUFFICES ASSUME NEW x \in F, x < b PROVE x < c
            OBVIOUS
          <6>1. x \in Nat /\ b \in Nat /\ c \in Nat
            BY <2>4, <4>1
          <6> HIDE DEF L, Below
          <6> QED
            BY <6>1, <4>2
        <5>2. b \in Below(c)
          BY <2>4, <4>2
        <5> HIDE DEF L, Below
        <5> QED
          BY <2>5, <5>1, <5>2
      <4>4. Cardinality(L(n) \cup {b}) = n + 1
        <5> HIDE DEF L
        <5> QED
          BY <1>2, <2>1, <2>4, FS_AddElement
      <4>5. Cardinality(L(n) \cup {b}) <= Cardinality(Below(c))
        <5> HIDE DEF L, Below
        <5> QED
          BY <1>1, <4>3, FS_Subset
      <4> HIDE DEF L, Below
      <4>6. Cardinality(Below(c)) \in Nat
        BY <1>1
      <4>7. n + 1 <= Cardinality(Below(c)) /\ Cardinality(Below(c)) < n + 1
        BY <4>1, <4>4, <4>5
      <4> QED
        BY <4>6, <4>7
    <3> HIDE DEF L
    <3> QED
      BY <3>1, <3>2
  <2> HIDE DEF L
  <2> QED
    BY <1>2, <2>1, <2>4, <2>6, FS_AddElement
<1> HIDE DEF S
<1>6. \A n \in Nat : n \in S
  BY <1>4, <1>5, AllNumbers
<1> QED
  BY <1>6 DEF S

\* More tokens need no fewer blocks.
LEMMA CeilGrows ==
  ASSUME NEW m \in Nat, NEW n \in Nat, m <= n
  PROVE  Ceil(m) \in Nat /\ Ceil(n) \in Nat /\ Ceil(m) <= Ceil(n)
<1> DEFINE B == BlockSize
           x == m + B - 1
           y == n + B - 1
           p == x \div B
           q == y \div B
<1>1. B \in Nat \ {0}
  BY PoolAssumption
<1>2. x \in Nat /\ y \in Nat /\ x <= y
  BY <1>1
<1> HIDE DEF x, y
<1>3. p \in Nat /\ q \in Nat
  BY <1>1, <1>2
<1>4. B * p <= x /\ y < B * (q + 1)
  <2>1. x = B * p + (x % B) /\ x % B \in Nat
    BY <1>1, <1>2
  <2>2. y = B * q + (y % B) /\ y % B \in 0 .. B - 1
    BY <1>1, <1>2
  <2>3. B * (q + 1) = B * q + B
    BY <1>1, <1>3
  <2> QED
    BY <1>1, <1>2, <1>3, <2>1, <2>2, <2>3
<1> HIDE DEF p, q
<1>5. p <= q
  <2> SUFFICES ASSUME q + 1 <= p PROVE FALSE
    BY <1>3
  <2>1. B * (q + 1) <= B * p
    BY <1>1, <1>3
  <2> QED
    BY <1>1, <1>2, <1>3, <1>4, <2>1
<1> QED
  BY <1>3, <1>5 DEF Ceil, p, q, x, y

\* With the blocks taken for them r holds n tokens.
LEMMA TakeEnough ==
  ASSUME Types, Held, NEW r \in Reqs, NEW n \in Nat, Fits(r, n), Take(r, n)
  PROVE  /\ Cardinality(blocks'[r]) \in Nat /\ Cardinality(blocks'[r]) >= Ceil(n)
         /\ \A q \in Reqs \ {r} : blocks'[q] = blocks[q]
<1> DEFINE k == Lacking(r, n)
           L == Lowest(k)
<1>1. /\ IsFiniteSet(free) /\ free \subseteq Nat /\ Cardinality(free) \in Nat
      /\ IsFiniteSet(blocks[r]) /\ Cardinality(blocks[r]) \in Nat
  <2>1. free \subseteq Blocks /\ blocks[r] \subseteq Blocks
    BY DEF Types
  <2> QED
    BY <2>1, PoolAssumption, FS_Subset, FS_CardinalityType
<1>2. Ceil(n) \in Nat
  BY CeilGrows
<1>3. k \in Nat /\ k <= Cardinality(free) /\ Cardinality(blocks[r]) + k >= Ceil(n)
  BY <1>1, <1>2 DEF Lacking, Fits
<1> HIDE DEF k
<1>4. L \subseteq free /\ Cardinality(L) = k
  BY <1>1, <1>3, LowestOf DEF Lowest
<1>5. blocks' = [blocks EXCEPT ![r] = blocks[r] \cup L] /\ blocks \in [Reqs -> SUBSET Blocks]
  BY DEF Take, Types, k
<1> HIDE DEF L
<1>6. IsFiniteSet(L) /\ blocks[r] \cap L = {}
  BY <1>1, <1>4, FS_Subset DEF Held, Distinct
<1>7. Cardinality(blocks[r] \cup L) = Cardinality(blocks[r]) + k
  <2>1. Cardinality(blocks[r] \cup L)
          = Cardinality(blocks[r]) + Cardinality(L) - Cardinality(blocks[r] \cap L)
    BY <1>1, <1>6, FS_Union
  <2>2. Cardinality(blocks[r] \cap L) = 0
    BY <1>6, FS_EmptySet
  <2> QED
    BY <1>1, <1>3, <1>4, <2>1, <2>2
<1>8. blocks'[r] = blocks[r] \cup L /\ \A q \in Reqs \ {r} : blocks'[q] = blocks[q]
  BY <1>5
<1> QED
  BY <1>1, <1>2, <1>3, <1>7, <1>8

-----------------------------------------------------------------------------
(* The tokens in flight, and the outputs they promise.                        *)

\* The tokens that the first i steps have for r.
InSteps(ss, r) == [k \in 1 .. Len(ss) |-> ss[k].tokens[r]]
Ahead(ss, r, i) == Total(InSteps(ss, r), i)

\* The output tokens that the steps behind the first q tokens promise: one for
\* each that samples, and its drafts.
Promises(ss, r, q) ==
  [k \in 1 .. Len(ss) |->
     IF r \in ss[k].samples /\ Ahead(ss, r, k) > q THEN 1 + ss[k].drafts[r] ELSE 0]
Pledged(ss, r, q) == Total(Promises(ss, r, q), Len(ss))

\* What a step says of r is in range; it samples r, or hands its tokens to the
\* runner anew, only with a token for it.
Fine(ss, r) ==
  \A i \in 1 .. Len(ss) :
    /\ ss[i].tokens[r] \in 0 .. Budget /\ ss[i].drafts[r] \in 0 .. SpecTokens
    /\ ss[i].base[r] \in 0 .. MaxTokens
    /\ r \in ss[i].samples \/ ss[i].base[r] > 0 => ss[i].tokens[r] > 0

\* The tokens add up from step to step.
LEMMA AheadFacts ==
  ASSUME NEW ss \in Seq(Output), NEW r, Fine(ss, r)
  PROVE  /\ Len(ss) \in Nat /\ Ahead(ss, r, 0) = 0
         /\ \A i \in 0 .. Len(ss) : Ahead(ss, r, i) \in Nat
         /\ \A i \in 1 .. Len(ss) : Ahead(ss, r, i) = Ahead(ss, r, i - 1) + ss[i].tokens[r]
         /\ \A j \in 0 .. Len(ss) : \A i \in 0 .. j : Ahead(ss, r, i) <= Ahead(ss, r, j)
         /\ \A i \in 1 .. Len(ss) : ss[i].tokens[r] \in Nat
<1> DEFINE g == InSteps(ss, r)
           n == Len(ss)
<1>1. n \in Nat
  BY LenProperties
<1>2. \A i \in 1 .. n : g[i] = ss[i].tokens[r] /\ g[i] \in Nat
  BY LimitsAssumption DEF InSteps, Fine
<1>3. Ahead(ss, r, 0) = Total(g, 0) /\ \A i : Ahead(ss, r, i) = Total(g, i)
  BY DEF Ahead
<1> HIDE DEF g, n
<1>4. Counts(g, n)
  BY <1>2 DEF Counts
<1>5. /\ \A i \in 0 .. n : Total(g, i) \in Nat
      /\ \A i \in 1 .. n : Total(g, i) = Total(g, i - 1) + g[i]
      /\ \A j \in 0 .. n : \A i \in 0 .. j : Total(g, i) <= Total(g, j)
  BY <1>1, <1>4, TotalGrows
<1>6. Total(g, 0) = 0
  BY TotalNext
<1>7. \A i \in 0 .. n : Ahead(ss, r, i) \in Nat
  BY <1>3, <1>5
<1>8. \A i \in 1 .. n : Ahead(ss, r, i) = Ahead(ss, r, i - 1) + ss[i].tokens[r]
  BY <1>2, <1>3, <1>5
<1>9. \A j \in 0 .. n : \A i \in 0 .. j : Ahead(ss, r, i) <= Ahead(ss, r, j)
  BY <1>3, <1>5
<1>10. \A i \in 1 .. n : ss[i].tokens[r] \in Nat
  BY <1>2
<1> QED
  BY <1>1, <1>3, <1>6, <1>7, <1>8, <1>9, <1>10 DEF n

\* A step with a token is ahead of every step before it.
LEMMA AheadStrict ==
  ASSUME NEW ss \in Seq(Output), NEW r, Fine(ss, r), NEW i \in 1 .. Len(ss), ss[i].tokens[r] > 0
  PROVE  \A j \in 0 .. i - 1 : Ahead(ss, r, j) < Ahead(ss, r, i)
<1> SUFFICES ASSUME NEW j \in 0 .. i - 1 PROVE Ahead(ss, r, j) < Ahead(ss, r, i)
  OBVIOUS
<1>1. Len(ss) \in Nat /\ i - 1 \in 0 .. Len(ss) /\ j \in 0 .. Len(ss)
  BY AheadFacts
<1>2. Ahead(ss, r, j) \in Nat /\ Ahead(ss, r, i - 1) \in Nat /\ Ahead(ss, r, j) <= Ahead(ss, r, i - 1)
  BY <1>1, AheadFacts
<1>3. Ahead(ss, r, i) = Ahead(ss, r, i - 1) + ss[i].tokens[r] /\ ss[i].tokens[r] \in Nat
  BY AheadFacts
<1> QED
  BY <1>2, <1>3

\* What the promises are, and that a step promises nothing for stale tokens.
LEMMA PledgedFacts ==
  ASSUME NEW ss \in Seq(Output), NEW r, NEW q, Fine(ss, r)
  PROVE  /\ Counts(Promises(ss, r, q), Len(ss))
         /\ Pledged(ss, r, q) \in 0 .. Len(ss) * (SpecTokens + 1)
         /\ (\A i \in 1 .. Len(ss) : ~(Ahead(ss, r, i) > q)) => Pledged(ss, r, q) = 0
<1> DEFINE p == Promises(ss, r, q)
           n == Len(ss)
<1>1. n \in Nat /\ SpecTokens \in Nat
  BY LenProperties, LimitsAssumption
<1>2. \A i \in 1 .. n : p[i] = IF r \in ss[i].samples /\ Ahead(ss, r, i) > q
                                 THEN 1 + ss[i].drafts[r] ELSE 0
  BY DEF Promises
<1>3. Pledged(ss, r, q) = Total(p, n)
  BY DEF Pledged
<1>4. \A i \in 1 .. n : ss[i].drafts[r] \in 0 .. SpecTokens
  BY DEF Fine
<1> HIDE DEF p, n
<1>5. \A i \in 1 .. n : p[i] \in 0 .. SpecTokens + 1
  <2> SUFFICES ASSUME NEW i \in 1 .. n PROVE p[i] \in 0 .. SpecTokens + 1
    OBVIOUS
  <2>1. ss[i].drafts[r] \in 0 .. SpecTokens
    BY <1>4
  <2>2. p[i] = 1 + ss[i].drafts[r] \/ p[i] = 0
    BY <1>2
  <2> QED
    BY <1>1, <2>1, <2>2
<1>6. n \in 0 .. n /\ SpecTokens + 1 \in Nat
  BY <1>1
<1>7. Total(p, n) \in 0 .. n * (SpecTokens + 1)
  BY <1>1, <1>5, <1>6, TotalBound
<1>8. Counts(p, n)
  BY <1>1, <1>5 DEF Counts
<1>9. ASSUME \A i \in 1 .. n : ~(Ahead(ss, r, i) > q) PROVE Total(p, n) = 0
  <2>1. \A i \in 1 .. n : p[i] \in 0 .. 0
    BY <1>2, <1>9
  <2>2. Total(p, n) \in 0 .. n * 0
    BY <1>1, <1>6, <2>1, TotalBound
  <2> QED
    BY <1>1, <2>2
<1> QED
  BY <1>3, <1>7, <1>8, <1>9 DEF n, p

\* tt is ss and a further step, whose tokens and promise are added for r.
Extended(ss, tt, step, r) ==
  /\ tt \in Seq(Output) /\ Len(tt) = Len(ss) + 1 /\ tt[Len(ss) + 1] = step
  /\ \A i \in 1 .. Len(ss) : tt[i] = ss[i]
  /\ Fine(tt, r)
  /\ \A i \in 0 .. Len(ss) : Ahead(tt, r, i) = Ahead(ss, r, i)
  /\ Ahead(tt, r, Len(ss) + 1) = Ahead(ss, r, Len(ss)) + step.tokens[r]
  /\ \A q : Pledged(tt, r, q) = Pledged(ss, r, q) +
       (IF r \in step.samples /\ Ahead(ss, r, Len(ss)) + step.tokens[r] > q
          THEN 1 + step.drafts[r] ELSE 0)

\* That is what a further step does.
LEMMA AheadMore ==
  ASSUME NEW ss \in Seq(Output), NEW step \in Output, NEW tt, tt = Append(ss, step),
         NEW r, Fine(ss, r),
         step.tokens[r] \in 0 .. Budget, step.drafts[r] \in 0 .. SpecTokens,
         step.base[r] \in 0 .. MaxTokens,
         r \in step.samples \/ step.base[r] > 0 => step.tokens[r] > 0
  PROVE  Extended(ss, tt, step, r)
<1> DEFINE n == Len(ss)
<1>1. /\ n \in Nat /\ tt \in Seq(Output) /\ Len(tt) = n + 1 /\ tt[n + 1] = step
      /\ \A i \in 1 .. n : tt[i] = ss[i]
  BY AppendProperties, LenProperties
<1>2. \A i \in 1 .. n + 1 : i \in 1 .. n \/ i = n + 1
  BY <1>1
<1>3. Fine(tt, r)
  <2> SUFFICES ASSUME NEW i \in 1 .. Len(tt)
               PROVE  /\ tt[i].tokens[r] \in 0 .. Budget /\ tt[i].drafts[r] \in 0 .. SpecTokens
                      /\ tt[i].base[r] \in 0 .. MaxTokens
                      /\ r \in tt[i].samples \/ tt[i].base[r] > 0 => tt[i].tokens[r] > 0
    BY DEF Fine
  <2>1. CASE i \in 1 .. n
    BY <1>1, <2>1 DEF Fine
  <2>2. CASE i = n + 1
    BY <1>1, <2>2
  <2> QED
    BY <1>1, <1>2, <2>1, <2>2
<1> DEFINE g == InSteps(ss, r)
           h == InSteps(tt, r)
<1>4. \A i \in 1 .. n : g[i] = h[i]
  BY <1>1 DEF InSteps
<1>5. h[n + 1] = step.tokens[r]
  BY <1>1 DEF InSteps
<1>6. (\A i : Ahead(ss, r, i) = Total(g, i)) /\ \A i : Ahead(tt, r, i) = Total(h, i)
  BY DEF Ahead
<1> HIDE DEF g, h, n
<1>7. \A i \in 0 .. n : Ahead(tt, r, i) = Ahead(ss, r, i)
  BY <1>1, <1>4, <1>6, TotalOfSame
<1>8. Ahead(tt, r, n + 1) = Ahead(ss, r, n) + step.tokens[r]
  <2>1. Total(h, n + 1) = Total(h, n) + h[n + 1]
    BY <1>1, TotalNext
  <2>2. n \in 0 .. n
    BY <1>1
  <2> QED
    BY <1>5, <1>6, <1>7, <2>1, <2>2
<1>9. ASSUME NEW q
      PROVE  Pledged(tt, r, q) = Pledged(ss, r, q) +
               (IF r \in step.samples /\ Ahead(ss, r, n) + step.tokens[r] > q
                  THEN 1 + step.drafts[r] ELSE 0)
  <2> DEFINE a == Promises(ss, r, q)
             b == Promises(tt, r, q)
  <2>1. \A i \in 1 .. n : i \in 0 .. n
    BY <1>1
  <2>2. \A i \in 1 .. n : a[i] = b[i]
    BY <1>1, <1>7, <2>1 DEF Promises, n
  <2>3. b[n + 1] = IF r \in step.samples /\ Ahead(tt, r, n + 1) > q THEN 1 + step.drafts[r] ELSE 0
    BY <1>1 DEF Promises
  <2>4. Pledged(ss, r, q) = Total(a, n) /\ Pledged(tt, r, q) = Total(b, n + 1)
    BY <1>1 DEF Pledged, n
  <2> HIDE DEF a, b
  <2>5. Total(a, n) = Total(b, n)
    <3>1. \A i \in 0 .. n : Total(a, i) = Total(b, i)
      BY <1>1, <2>2, TotalOfSame
    <3>2. n \in 0 .. n
      BY <1>1
    <3> QED
      BY <3>1, <3>2
  <2>6. Total(b, n + 1) = Total(b, n) + b[n + 1]
    BY <1>1, TotalNext
  <2> QED
    BY <1>8, <2>3, <2>4, <2>5, <2>6
<1> QED
  BY <1>1, <1>3, <1>7, <1>8, <1>9 DEF n, Extended

\* tt is ss without its oldest step: the sums for r lack its tokens, and its
\* promise if none of its tokens is stale.
Shortened(ss, tt, r) ==
  /\ tt \in Seq(Output) /\ Len(tt) \in Nat /\ Len(ss) = Len(tt) + 1
  /\ \A i \in 1 .. Len(tt) : tt[i] = ss[i + 1]
  /\ Fine(tt, r)
  /\ \A i \in 0 .. Len(tt) : Ahead(tt, r, i) = Ahead(ss, r, i + 1) - ss[1].tokens[r]
  /\ Pledged(ss, r, 0) = Pledged(tt, r, 0) +
       (IF r \in ss[1].samples THEN 1 + ss[1].drafts[r] ELSE 0)
  /\ \A q \in Nat : ss[1].tokens[r] <= q =>
       Pledged(ss, r, q) = Pledged(tt, r, q - ss[1].tokens[r])

\* That is what taking the oldest step back does.
LEMMA AheadTail ==
  ASSUME NEW ss \in Seq(Output), ss # <<>>, NEW tt, tt = Tail(ss), NEW r, Fine(ss, r)
  PROVE  Shortened(ss, tt, r)
<1> DEFINE n == Len(tt)
           t == ss[1].tokens[r]
<1>1. /\ tt \in Seq(Output) /\ n \in Nat /\ Len(ss) = n + 1
      /\ \A i \in 1 .. n : tt[i] = ss[i + 1]
  BY HeadTailProperties, LenProperties
<1>2. \A i \in 1 .. n : i + 1 \in 1 .. n + 1 /\ i + 1 \in 1 .. Len(ss)
  BY <1>1
<1>3. Fine(tt, r)
  BY <1>1, <1>2 DEF Fine
<1>4. t \in Nat /\ 1 \in 1 .. Len(ss) /\ ss[1].drafts[r] \in Nat /\ (r \in ss[1].samples => t > 0)
  <2>1. 1 \in 1 .. Len(ss)
    BY <1>1
  <2> QED
    BY <2>1, LimitsAssumption DEF Fine
<1> DEFINE g == InSteps(ss, r)
           h == InSteps(tt, r)
<1>5. /\ \A i \in 1 .. n + 1 : g[i] = ss[i].tokens[r] /\ g[i] \in Nat
      /\ \A i \in 1 .. n : h[i] = tt[i].tokens[r]
  BY <1>1, LimitsAssumption DEF InSteps, Fine
<1>6. (\A i : Ahead(ss, r, i) = Total(g, i)) /\ \A i : Ahead(tt, r, i) = Total(h, i)
  BY DEF Ahead
<1>7. \A i \in 0 .. n : i + 1 \in 0 .. Len(ss) /\ Ahead(ss, r, i + 1) \in Nat
  <2>1. \A i \in 0 .. n : i + 1 \in 0 .. Len(ss)
    BY <1>1
  <2> QED
    BY <2>1, AheadFacts
<1> HIDE DEF g, h, n
<1>8. \A i \in 0 .. n : Total(g, i + 1) = g[1] + Total(h, i)
  <2>1. Counts(g, n + 1)
    BY <1>5 DEF Counts
  <2>2. \A i \in 1 .. n : h[i] = g[i + 1]
    BY <1>1, <1>2, <1>5
  <2> QED
    BY <1>1, <2>1, <2>2, TotalOfTail
<1>9. \A i \in 0 .. n : Ahead(tt, r, i) = Ahead(ss, r, i + 1) - t
  <2>1. g[1] = t
    BY <1>1, <1>5
  <2>2. \A i \in 0 .. n : Ahead(tt, r, i) \in Nat
    BY <1>1, <1>3, AheadFacts DEF n
  <2> QED
    BY <1>4, <1>6, <1>7, <1>8, <2>1, <2>2
<1>10. Ahead(ss, r, 1) = t
  <2>1. Ahead(ss, r, 1) = Ahead(ss, r, 1 - 1) + ss[1].tokens[r] /\ Ahead(ss, r, 0) = 0
    BY <1>4, AheadFacts
  <2> QED
    BY <1>4, <2>1
<1> HIDE DEF t
<1>11. ASSUME NEW q \in Nat, NEW p,
              \A i \in 1 .. n : r \in tt[i].samples =>
                 (Ahead(ss, r, i + 1) > q <=> Ahead(tt, r, i) > p)
       PROVE  Pledged(ss, r, q) = Pledged(tt, r, p) +
                (IF r \in ss[1].samples /\ t > q THEN 1 + ss[1].drafts[r] ELSE 0)
  <2> DEFINE a == Promises(ss, r, q)
             b == Promises(tt, r, p)
  <2>1. \A i \in 1 .. n : a[i + 1] = b[i]
    BY <1>1, <1>2, <1>11 DEF Promises, n
  <2>2. a[1] = IF r \in ss[1].samples /\ t > q THEN 1 + ss[1].drafts[r] ELSE 0
    BY <1>4, <1>10 DEF Promises
  <2>3. Pledged(ss, r, q) = Total(a, n + 1) /\ Pledged(tt, r, p) = Total(b, n)
    BY <1>1 DEF Pledged, n
  <2>4. Counts(a, n + 1)
    BY <1>1, PledgedFacts
  <2>5. Total(b, n) \in Nat
    <3>1. SpecTokens + 1 \in Nat
      BY LimitsAssumption
    <3>2. Total(b, n) \in 0 .. n * (SpecTokens + 1)
      BY <1>1, <1>3, <2>3, PledgedFacts DEF n
    <3> QED
      BY <3>2
  <2> HIDE DEF a, b
  <2>6. Total(a, n + 1) = a[1] + Total(b, n)
    <3>1. n \in 0 .. n
      BY <1>1
    <3> QED
      BY <1>1, <2>1, <2>4, <3>1, TotalOfTail
  <2> QED
    BY <1>4, <2>2, <2>3, <2>5, <2>6
<1>12. Pledged(ss, r, 0) = Pledged(tt, r, 0) +
         (IF r \in ss[1].samples THEN 1 + ss[1].drafts[r] ELSE 0)
  <2>1. ASSUME NEW i \in 1 .. n, r \in tt[i].samples
        PROVE  Ahead(ss, r, i + 1) > 0 <=> Ahead(tt, r, i) > 0
    <3>1. tt[i].tokens[r] > 0 /\ ss[i + 1].tokens[r] > 0
      BY <1>1, <1>3, <2>1 DEF Fine, n
    <3>2. Ahead(tt, r, 0) < Ahead(tt, r, i)
      <4>1. 0 \in 0 .. i - 1 /\ i \in 1 .. Len(tt)
        BY DEF n
      <4> QED
        BY <1>1, <1>3, <3>1, <4>1, AheadStrict
    <3>3. Ahead(ss, r, 0) < Ahead(ss, r, i + 1)
      <4>1. 0 \in 0 .. (i + 1) - 1
        BY <1>1
      <4> QED
        BY <1>2, <3>1, <4>1, AheadStrict
    <3> QED
      BY <1>1, <1>3, <3>2, <3>3, AheadFacts
  <2>2. Pledged(ss, r, 0) = Pledged(tt, r, 0) +
          (IF r \in ss[1].samples /\ t > 0 THEN 1 + ss[1].drafts[r] ELSE 0)
    BY <1>11, <2>1
  <2> QED
    BY <1>4, <2>2 DEF t
<1>13. ASSUME NEW q \in Nat, t <= q PROVE Pledged(ss, r, q) = Pledged(tt, r, q - t)
  <2>1. \A i \in 1 .. n : Ahead(ss, r, i + 1) > q <=> Ahead(tt, r, i) > q - t
    <3>1. \A i \in 1 .. n : i \in 0 .. n
      BY <1>1
    <3> QED
      BY <1>4, <1>7, <1>9, <3>1 DEF t
  <2>2. Pledged(ss, r, q) = Pledged(tt, r, q - t) +
          (IF r \in ss[1].samples /\ t > q THEN 1 + ss[1].drafts[r] ELSE 0)
    BY <1>11, <2>1
  <2>3. Pledged(tt, r, q - t) \in Int
    <3>1. Pledged(tt, r, q - t) \in 0 .. Len(tt) * (SpecTokens + 1)
      BY <1>1, <1>3, PledgedFacts
    <3> QED
      BY <3>1
  <2> QED
    BY <1>4, <1>13, <2>2, <2>3 DEF t
<1> QED
  BY <1>1, <1>3, <1>9, <1>12, <1>13 DEF n, t, Shortened

-----------------------------------------------------------------------------
(* The second invariant: what the counters of a request say.                  *)

\* The types that IInv does without.
MoreTypes ==
  /\ inFlight \in [Reqs -> Int] /\ stale \in [Reqs -> Int] /\ known \in [Reqs -> Int]
  /\ drop \in [Reqs -> BOOLEAN] /\ chunk \in [Reqs -> BOOLEAN]
  /\ failed \subseteq Reqs /\ pad \subseteq Reqs /\ prefilling \subseteq Reqs
  /\ failures \in 0 .. MaxFailures /\ preempted \in BOOLEAN

\* The budget of a turn, and what the running request wants of it.
Wants ==
  /\ budget \in 0 .. Budget /\ want \in 0 .. Budget
  /\ want > 0 => /\ pc = "running" /\ index <= Len(running) /\ want <= budget
                 /\ want <= Behind(Current)

Alive(r) == status[r] \in {"waiting", "loading", "running"}

\* The numbers of a request are in range; a new one for the runner comes with a token.
Amounts(r) ==
  /\ out[r] \in 0 .. MaxOut /\ good[r] \in 0 .. MaxTokens /\ tokens[r] \in 0 .. Budget
  /\ base[r] \in 0 .. MaxTokens /\ (base[r] > 0 => tokens[r] > 0)

\* The tokens in flight are those of the steps in flight; the stale ones are those
\* of the oldest steps, all of them when the request does not run.
Tallied(r) ==
  status[r] # "done" =>
    /\ inFlight[r] = Ahead(steps, r, Len(steps))
    /\ \E k \in 0 .. Len(steps) : stale[r] = Ahead(steps, r, k)
    /\ status[r] # "running" => stale[r] = inFlight[r]
    /\ status[r] = "new" => inFlight[r] = 0
    /\ status[r] \in {"loading", "running"} => ~Undrained(r)

\* Where the computed tokens of a request are: short of its last token, or past
\* its placeholders; and that its share of the turn does not go beyond.
Placed(r) ==
  /\ status[r] = "new" => computed[r] = 0 /\ placeholders[r] = 0
  /\ status[r] = "waiting" => computed[r] \in 0 .. NumTokens(r) - 1
  /\ status[r] = "loading" => computed[r] \in 0 .. NumTokens(r)
  /\ r \in failed => r \in received /\ computed[r] < NumTokens(r)
  /\ status[r] = "running" =>
       IF base[r] > 0 \/ chunk[r]
         THEN computed[r] \in 0 .. NumTokens(r) - 1 /\ placeholders[r] = 0
         ELSE placeholders[r] >= 0 /\ computed[r] = NumTokens(r) + placeholders[r] - 1
  /\ r \in pad => base[r] > 0
  /\ tokens[r] > 0 =>
       IF base[r] = 0 THEN tokens[r] <= Behind(r)
       ELSE IF r \in pad THEN tokens[r] = 1 + SpecTokens /\ NumTokens(r) - computed[r] = 1
       ELSE tokens[r] <= NumTokens(r) - computed[r]

\* The placeholders are the output that the steps in flight promise, the stale
\* ones left out.
Promised(r) == Alive(r) => placeholders[r] = Pledged(steps, r, stale[r])

\* The steps with a token for r whose output is delivered: with d, those among the
\* first q tokens are dropped.
DueSteps(ss, r, d, q) ==
  {i \in 1 .. Len(ss) : ss[i].tokens[r] > 0 /\ (d => Ahead(ss, r, i) > q)}

\* Of a request with n tokens: the runner knows k of them, or is handed all of them
\* by the first step whose output is delivered, or by the one that is being put
\* together, which hands over b; with status s more steps may be to come.
Linked(ss, r, d, q, n, b, k, s) ==
  /\ \A i \in DueSteps(ss, r, d, q) : ss[i].base[r] > 0 =>
       ss[i].base[r] = n /\ \A j \in DueSteps(ss, r, d, q) : i <= j
  /\ b > 0 => b = n /\ DueSteps(ss, r, d, q) = {}
  /\ s = "running" \/ DueSteps(ss, r, d, q) # {} =>
       \/ b > 0
       \/ \E i \in DueSteps(ss, r, d, q) : ss[i].base[r] > 0
       \/ k = n /\ \A i \in 1 .. Len(ss) : ss[i].tokens[r] > 0 => i \in DueSteps(ss, r, d, q)

\* The next output to be delivered belongs behind the last token.
Chained(r) ==
  Alive(r) => Linked(steps, r, drop[r], stale[r], NumTokens(r), base[r], known[r],
                     status[r])

\* A load under way has a request that waits for it, with its blocks.
Loaded(r) ==
  transfer[r] # "none" =>
    status[r] \in {"loading", "aborted"} /\ Cardinality(blocks[r]) >= Ceil(good[r])

Account(r) ==
  Amounts(r) /\ Fine(steps, r) /\ Tallied(r) /\ Placed(r) /\ Promised(r) /\ Chained(r) /\ Loaded(r)

Ledger == MoreTypes /\ Wants /\ \A r \in Reqs : Account(r)

\* Every step keeps these types.
LEMMA MoreTypesStep ==
  ASSUME Types, MoreTypes, [Next]_vars
  PROVE  MoreTypes'
<1>1. CASE Begin
  BY <1>1 DEF Begin, MoreTypes, queues, counters, pool, loads, locals
<1>2. CASE Pass
  BY <1>2 DEF Pass, MoreTypes, queues, counters, pool, loads, locals
<1>3. CASE Consider
  BY <1>3 DEF Consider, MoreTypes, queues, counters, pool, loads, locals
<1>4. CASE Allocate
  BY <1>4 DEF Allocate, MoreTypes, queues, counters, pool, loads, locals
<1>5. CASE Preempt
  <2>1. PICK v \in Reqs :
          /\ drop' = [drop EXCEPT ![v] = DropStale \/ (drop[v] /\ stale[v] > 0)]
          /\ stale' = [stale EXCEPT ![v] = inFlight[v]] /\ prefilling' = prefilling \ {v}
          /\ preempted' = TRUE /\ UNCHANGED <<inFlight, known, chunk, failed, pad, failures>>
    BY <1>5 DEF Preempt, loads
  <2>2. drop' \in [Reqs -> BOOLEAN] /\ stale' \in [Reqs -> Int]
    <3>1. drop \in [Reqs -> BOOLEAN] /\ stale \in [Reqs -> Int] /\ inFlight[v] \in Int
      BY DEF MoreTypes
    <3>2. (DropStale \/ (drop[v] /\ stale[v] > 0)) \in BOOLEAN
      OBVIOUS
    <3>3. drop' \in [Reqs -> BOOLEAN]
      BY <2>1, <3>1, <3>2
    <3>4. stale' \in [Reqs -> Int]
      BY <2>1, <3>1
    <3> QED
      BY <3>3, <3>4
  <2> QED
    BY <2>1, <2>2 DEF MoreTypes
<1>6. CASE RunningDone
  BY <1>6 DEF RunningDone, MoreTypes, queues, counters, pool, loads, locals
<1>7. CASE PassOver
  BY <1>7 DEF PassOver, PopHead, MoreTypes, queues, counters, pool, loads, locals
<1>8. CASE Promote
  <2>1. /\ failed' \subseteq failed
        /\ UNCHANGED <<inFlight, stale, known, drop, chunk, pad, failures, prefilling, preempted>>
    BY <1>8 DEF Promote, locals
  <2> QED
    BY <2>1 DEF MoreTypes
<1>9. CASE Admit
  <2>1. Head1 \in Reqs
    BY <1>9, HeadType DEF Admit
  <2>2. /\ pad' = pad \/ pad' = pad \cup {Head1}
        /\ prefilling' = prefilling \/ prefilling' = prefilling \cup {Head1}
        /\ UNCHANGED <<inFlight, stale, known, drop, chunk, failed, failures, preempted>>
    BY <1>9 DEF Admit, counters, loads
  <2> HIDE DEF Head1
  <2> QED
    BY <2>1, <2>2 DEF MoreTypes
<1>10. CASE WaitingDone
  BY <1>10 DEF WaitingDone, MoreTypes, queues, counters, pool, loads, locals
<1>11. CASE Dispatch
  <2> DEFINE S == {r \in Reqs : tokens[r] > 0}
             whole == {r \in S : [q \in Reqs |-> computed[q] + tokens[q]][r] >= NumTokens(r) + placeholders[r]}
  <2>1. inFlight' = [r \in Reqs |-> inFlight[r] + tokens[r]]
    BY <1>11, Zenon DEF Dispatch
  <2>2. chunk' = [r \in Reqs |-> IF r \in S THEN r \notin whole ELSE chunk[r]]
    BY <1>11, Zenon DEF Dispatch
  <2>3. /\ prefilling' = prefilling \ whole /\ pad' = {} /\ preempted' = FALSE
        /\ UNCHANGED <<stale, known, drop, failed, failures>>
    BY <1>11 DEF Dispatch
  <2> HIDE DEF S, whole
  <2>4. inFlight' \in [Reqs -> Int]
    <3>1. inFlight \in [Reqs -> Int] /\ tokens \in [Reqs -> Int]
      BY Zenon DEF Types, MoreTypes
    <3> QED
      BY <2>1, <3>1
  <2>5. chunk' \in [Reqs -> BOOLEAN]
    BY <2>2 DEF MoreTypes
  <2> QED
    BY <2>3, <2>4, <2>5 DEF MoreTypes
<1>12. CASE \E r \in Reqs : \E n \in Matches(r) : Load(n)
  <2>1. PICK q \in Reqs : \E m \in Matches(q) : Load(m)
    BY <1>12
  <2>2. PICK m \in Matches(q) : Load(m)
    BY <2>1
  <2>3. Head1 \in Reqs
    BY <2>2, HeadType DEF Load
  <2>4. /\ prefilling' = prefilling \cup {Head1}
        /\ UNCHANGED <<inFlight, stale, known, drop, chunk, failed, pad, failures, preempted>>
    BY <2>2 DEF Load
  <2> HIDE DEF Head1
  <2> QED
    BY <2>3, <2>4 DEF MoreTypes
<1>13. CASE Updates
  <2>1. PICK accepted \in [Reqs -> 0 .. SpecTokens], eos \in SUBSET Head(steps).samples :
          steps # <<>> /\ Update(accepted, eos)
    BY <1>13 DEF Updates
  <2> DEFINE step == Head(steps)
             present == {r \in Scheduled(step) : status[r] \notin {"new", "done"}}
  <2>2. step \in Output
    BY <2>1, HeadTailProperties DEF Types
  <2>3. /\ inFlight' = [r \in Reqs |-> inFlight[r] - (IF r \in present THEN step.tokens[r] ELSE 0)]
        /\ stale' = [r \in Reqs |-> stale[r] - (IF r \in present /\ IsStale(r) THEN step.tokens[r] ELSE 0)]
        /\ known' = [r \in Reqs |-> IF r \in step.samples THEN RunnerBase(r) + 1 + accepted[r]
                                    ELSE IF r \in Scheduled(step) THEN RunnerBase(r) ELSE known[r]]
        /\ \E gone : prefilling' = prefilling \ gone
        /\ \E more : failed' = failed \cup (Invalid \ more)
        /\ UNCHANGED <<drop, chunk, failures, pad, preempted>>
    BY <2>1, Zenon DEF Update, locals
  <2>4. Invalid \subseteq Reqs
    BY DEF Invalid
  <2>5. \A r \in Reqs : /\ step.tokens[r] \in Int /\ step.base[r] \in Int /\ accepted[r] \in Int
                        /\ inFlight[r] \in Int /\ stale[r] \in Int /\ known[r] \in Int
    BY <2>2, LimitsAssumption DEF Output, MoreTypes
  <2>6. \A r \in Reqs : RunnerBase(r) \in Int
    BY <2>5 DEF RunnerBase
  <2> HIDE DEF step, present
  <2>7. inFlight' \in [Reqs -> Int] /\ stale' \in [Reqs -> Int] /\ known' \in [Reqs -> Int]
    BY <2>3, <2>5, <2>6
  <2>8. failed' \subseteq Reqs /\ prefilling' \subseteq Reqs
    BY <2>3, <2>4 DEF MoreTypes
  <2> QED
    BY <2>3, <2>7, <2>8 DEF MoreTypes
<1>14. CASE \E r \in Reqs : AddRequest(r)
  BY <1>14 DEF AddRequest, MoreTypes, queues, counters, pool, loads, locals
<1>15. CASE \E r \in Reqs : Abort(r)
  <2>1. PICK q \in Reqs : Abort(q)
    BY <1>15
  <2>2. /\ failed' \subseteq failed /\ prefilling' \subseteq prefilling
        /\ UNCHANGED <<inFlight, stale, known, drop, chunk, pad, failures, preempted>>
    BY <2>1 DEF Abort, counters, locals
  <2> QED
    BY <2>2 DEF MoreTypes
<1>16. CASE \E r \in Reqs : TransferOf(r)
  <2>1. PICK q \in Reqs : TransferOf(q)
    BY <1>16
  <2>2. PICK n \in 0 .. MaxTokens : EndTransfer(q, n)
    BY <2>1 DEF TransferOf
  <2>3. /\ failures' = failures \/ (failures < MaxFailures /\ failures' = failures + 1)
        /\ UNCHANGED <<inFlight, stale, known, drop, chunk, failed, pad, prefilling, preempted>>
    BY <2>2 DEF EndTransfer, counters, locals
  <2> QED
    BY <2>3, LimitsAssumption DEF MoreTypes
<1>17. CASE UNCHANGED vars
  BY <1>17 DEF vars, MoreTypes, queues, counters, pool, loads, locals
<1> QED
  BY <1>1, <1>2, <1>3, <1>4, <1>5, <1>6, <1>7, <1>8, <1>9, <1>10, <1>11, <1>12, <1>13, <1>14,
     <1>15, <1>16, <1>17 DEF Next, Schedule

-----------------------------------------------------------------------------
(* What a step does to one request.                                           *)

\* The types of what a request has.
Typed(r) ==
  /\ status[r] \in Statuses /\ transfer[r] \in {"none", "asked", "going", "ended"}
  /\ out[r] \in Int /\ computed[r] \in Int /\ inFlight[r] \in Int /\ stale[r] \in Int
  /\ placeholders[r] \in Int /\ known[r] \in Int /\ good[r] \in Int
  /\ tokens[r] \in Int /\ base[r] \in Int /\ drop[r] \in BOOLEAN /\ chunk[r] \in BOOLEAN
  /\ Prompt[r] \in Nat \ {0} /\ NumTokens(r) = Prompt[r] + out[r]
  /\ Cardinality(blocks[r]) \in Nat

\* What the steps in flight and the runner say of it stays.
StepsStay(r) ==
  /\ out'[r] = out[r] /\ inFlight'[r] = inFlight[r] /\ known'[r] = known[r]
  /\ chunk'[r] = chunk[r] /\ steps' = steps
CountStays(r) == stale'[r] = stale[r] /\ drop'[r] = drop[r]
PlaceStays(r) == computed'[r] = computed[r] /\ placeholders'[r] = placeholders[r]
ShareStays(r) == tokens'[r] = tokens[r] /\ base'[r] = base[r] /\ (r \in pad' <=> r \in pad)
LoadStays(r) == transfer'[r] = transfer[r] /\ good'[r] = good[r]
ReportStays(r) == (r \in received' <=> r \in received) /\ (r \in failed' <=> r \in failed)

\* Nothing of it changes.
Stays(r) ==
  /\ StepsStay(r) /\ CountStays(r) /\ PlaceStays(r) /\ ShareStays(r) /\ LoadStays(r)
  /\ ReportStays(r) /\ status'[r] = status[r] /\ blocks'[r] = blocks[r]

\* It takes no part in the turn.
Idle(r) == tokens[r] = 0 /\ base[r] = 0 /\ r \notin pad

Allocated(r) ==
  /\ status[r] = "running" /\ status'[r] = "running" /\ Idle(r)
  /\ StepsStay(r) /\ CountStays(r) /\ PlaceStays(r) /\ LoadStays(r) /\ ReportStays(r)
  /\ base'[r] = 0 /\ r \notin pad'
  /\ tokens'[r] \in 1 .. Budget /\ tokens'[r] <= Behind(r)

Preempted(r) ==
  /\ status[r] = "running" /\ status'[r] = "waiting" /\ Idle(r)
  /\ StepsStay(r) /\ ShareStays(r) /\ LoadStays(r) /\ ReportStays(r)
  /\ computed'[r] = 0 /\ placeholders'[r] = 0 /\ stale'[r] = inFlight[r]
  /\ drop'[r] = (DropStale \/ (drop[r] /\ stale[r] > 0))

Promoted(r) ==
  /\ status[r] = "loading" /\ status'[r] = "waiting" /\ r \in received
  /\ StepsStay(r) /\ CountStays(r) /\ ShareStays(r) /\ LoadStays(r)
  /\ placeholders'[r] = placeholders[r] /\ r \notin received' /\ r \notin failed'
  /\ IF r \in failed THEN computed'[r] = computed[r]
                     ELSE computed'[r] = Least(computed[r], NumTokens(r) - 1)

LoadAsked(r) ==
  /\ status[r] = "waiting" /\ status'[r] = "loading" /\ ~Undrained(r)
  /\ StepsStay(r) /\ CountStays(r) /\ ShareStays(r) /\ ReportStays(r)
  /\ placeholders'[r] = placeholders[r]
  /\ computed'[r] \in 1 .. NumTokens(r) /\ good'[r] = computed'[r] /\ transfer'[r] = "asked"
  /\ Cardinality(blocks'[r]) >= Ceil(good'[r])

Admitted(r) ==
  /\ status[r] = "waiting" /\ status'[r] = "running" /\ ~Undrained(r)
  /\ StepsStay(r) /\ CountStays(r) /\ PlaceStays(r) /\ LoadStays(r) /\ ReportStays(r)
  /\ base'[r] = NumTokens(r) /\ tokens'[r] \in 1 .. Budget
  /\ IF r \in pad' THEN tokens'[r] = 1 + SpecTokens /\ NumTokens(r) - computed[r] = 1
                   ELSE tokens'[r] <= NumTokens(r) - computed[r]

Added(r) ==
  /\ status[r] = "new" /\ status'[r] = "waiting" /\ Idle(r)
  /\ StepsStay(r) /\ CountStays(r) /\ PlaceStays(r) /\ ShareStays(r) /\ LoadStays(r)
  /\ ReportStays(r)

Aborted(r) ==
  /\ Alive(r) /\ Idle(r)
  /\ StepsStay(r) /\ CountStays(r) /\ PlaceStays(r) /\ ShareStays(r) /\ LoadStays(r)
  /\ r \notin received' /\ (r \in failed' => r \in failed /\ status[r] # "loading")
  /\ \/ status'[r] = "aborted" /\ status[r] = "loading" /\ blocks'[r] = blocks[r]
     \/ status'[r] = "done" /\ (status[r] = "loading" => r \in received)

Ended(r) ==
  /\ transfer[r] = "going" /\ transfer'[r] = "ended" /\ good'[r] \in 0 .. good[r]
  /\ status'[r] = status[r] /\ blocks'[r] = blocks[r] /\ Idle(r)
  /\ StepsStay(r) /\ CountStays(r) /\ PlaceStays(r) /\ ShareStays(r) /\ ReportStays(r)

\* Its tokens reach the end of what it has.
Reaches(r) == tokens[r] > 0 /\ computed[r] + tokens[r] >= NumTokens(r) + placeholders[r]

Dispatched(r) ==
  /\ status'[r] = status[r] /\ blocks'[r] = blocks[r] /\ good'[r] = good[r]
  /\ out'[r] = out[r] /\ known'[r] = known[r] /\ CountStays(r) /\ ReportStays(r)
  /\ transfer'[r] = IF transfer[r] = "asked" THEN "going" ELSE transfer[r]
  /\ computed'[r] = computed[r] + tokens[r] /\ inFlight'[r] = inFlight[r] + tokens[r]
  /\ chunk'[r] = IF tokens[r] > 0 THEN ~Reaches(r) ELSE chunk[r]
  /\ placeholders'[r] = IF Reaches(r) THEN placeholders[r] + 1 + DraftsOf(r) ELSE placeholders[r]
  /\ tokens'[r] = 0 /\ base'[r] = 0 /\ r \notin pad'
  /\ \/ steps' = steps /\ ~(tokens[r] > 0)
     \/ \E step \in Output :
          /\ steps' = Append(steps, step)
          /\ step.tokens[r] = tokens[r] /\ step.base[r] = base[r]
          /\ step.drafts[r] = IF tokens[r] > 0 THEN DraftsOf(r) ELSE 0
          /\ r \in step.samples <=> Reaches(r)

\* Its output in the oldest step is delivered.
Heard(r) ==
  /\ Alive(r) /\ steps[1].tokens[r] > 0 /\ r \in steps[1].samples
  /\ ~(stale[r] > 0 /\ drop[r])

Refused(r) ==
  /\ status[r] = "loading" /\ transfer[r] = "ended"
  /\ good[r] < computed[r] - steps[1].tokens[r]

\* What the runner knows of it before it samples the oldest step.
Before(r) == IF steps[1].base[r] > 0 THEN steps[1].base[r] ELSE known[r]

\* The oldest step is taken back, with a of its drafts accepted.
Heeded(r, a) ==
  LET step == steps[1]
      present == step.tokens[r] > 0 /\ status[r] \notin {"new", "done"}
      new == IF Heard(r) THEN Least(1 + a, MaxOut - out[r]) ELSE 0
      rejected == step.drafts[r] - a
  IN /\ steps # <<>> /\ steps' = Tail(steps) /\ Idle(r)
     /\ inFlight'[r] = inFlight[r] - (IF present THEN step.tokens[r] ELSE 0)
     /\ stale'[r] = stale[r] - (IF present /\ stale[r] > 0 THEN step.tokens[r] ELSE 0)
     /\ out'[r] = out[r] + new
     /\ computed'[r] = IF Refused(r) THEN good[r]
                       ELSE IF Heard(r) /\ ~(stale[r] > 0) /\ computed[r] > 0
                         THEN computed[r] - rejected ELSE computed[r]
     /\ placeholders'[r] = IF Heard(r) /\ ~(stale[r] > 0) /\ placeholders[r] > 0
                             THEN placeholders[r] - rejected - new ELSE placeholders[r]
     /\ known'[r] = IF r \in step.samples THEN Before(r) + 1 + a
                    ELSE IF step.tokens[r] > 0 THEN Before(r) ELSE known[r]
     /\ drop'[r] = drop[r] /\ chunk'[r] = chunk[r] /\ good'[r] = good[r] /\ ShareStays(r)
     /\ transfer'[r] = IF transfer[r] = "ended" THEN "none" ELSE transfer[r]
     /\ \/ status'[r] = status[r] /\ blocks'[r] = blocks[r]
           /\ (Heard(r) => out[r] + new # MaxOut)
        \/ status'[r] = "done" /\ (Heard(r) \/ transfer[r] = "ended")
     /\ r \in received => r \in received'
     /\ r \in failed' => \/ r \in failed
                         \/ r \in received' /\ Refused(r)

\* One of these happens to every request.
Moved(r) ==
  \/ Stays(r) \/ Allocated(r) \/ Preempted(r) \/ Promoted(r) \/ LoadAsked(r) \/ Admitted(r)
  \/ Added(r) \/ Aborted(r) \/ Ended(r) \/ Dispatched(r)
  \/ \E a \in 0 .. SpecTokens : Heeded(r, a) /\ a <= steps[1].drafts[r]

\* The types, for one request.
LEMMA TypedHolds ==
  ASSUME Types, MoreTypes
  PROVE  \A r \in Reqs : Typed(r)
<1> SUFFICES ASSUME NEW r \in Reqs PROVE Typed(r)
  OBVIOUS
<1>1. /\ status[r] \in Statuses /\ transfer[r] \in {"none", "asked", "going", "ended"}
      /\ out[r] \in Int /\ computed[r] \in Int /\ placeholders[r] \in Int /\ good[r] \in Int
      /\ tokens[r] \in Int /\ base[r] \in Int
  BY DEF Types
<1>2. /\ inFlight[r] \in Int /\ stale[r] \in Int /\ known[r] \in Int /\ drop[r] \in BOOLEAN
      /\ chunk[r] \in BOOLEAN
  BY DEF MoreTypes
<1>3. Cardinality(blocks[r]) \in Nat
  <2>1. blocks[r] \subseteq Blocks
    BY DEF Types
  <2> QED
    BY <2>1, PoolAssumption, FS_Subset, FS_CardinalityType
<1>4. Prompt[r] \in Nat \ {0} /\ NumTokens(r) = Prompt[r] + out[r]
  BY RequestsAssumption DEF NumTokens
<1> QED
  BY <1>1, <1>2, <1>3, <1>4 DEF Typed

\* A request that does not run, and every one between two turns, takes no part.
LEMMA IdleWhen ==
  ASSUME Given, NEW r \in Reqs, Typed(r), Amounts(r), Placed(r), pc = "idle" \/ status[r] # "running"
  PROVE  Idle(r)
<1>1. tokens[r] = 0
  BY DEF Given
<1>2. base[r] = 0
  BY <1>1 DEF Amounts, Typed
<1> QED
  BY <1>1, <1>2 DEF Idle, Placed

\* Nor does a running request that the turn has not come to.
LEMMA IdleInTurn ==
  ASSUME Types, Queue, Given, Turn, NEW i \in 1 .. Len(running), index <= i,
         Typed(running[i]), Amounts(running[i]), Placed(running[i])
  PROVE  running[i] \in Reqs /\ status[running[i]] = "running" /\ Idle(running[i])
<1>1. running[i] \in Reqs /\ status[running[i]] = "running"
  BY PoolType DEF Queue
<1> DEFINE r == running[i]
<1>2. tokens[r] = 0
  <2> SUFFICES ASSUME tokens[r] # 0 PROVE FALSE
    OBVIOUS
  <2>1. PICK j \in 1 .. Len(running) : j < index /\ running[j] = r
    BY <1>1 DEF Given, Turn
  <2>2. j = i
    BY <2>1 DEF Queue
  <2> QED
    BY <2>1, <2>2 DEF Types
<1>3. base[r] = 0
  BY <1>2 DEF Amounts, Typed
<1> QED
  BY <1>1, <1>2, <1>3 DEF Idle, Placed

\* What a request is behind by is a number, in which its drafts are none or SpecTokens.
LEMMA BehindType ==
  ASSUME NEW r \in Reqs, Typed(r)
  PROVE  /\ Drafts(r) \in {0, SpecTokens} /\ SpecTokens \in Nat
         /\ Behind(r) = NumTokens(r) + Drafts(r) + placeholders[r] - computed[r]
         /\ Behind(r) \in Int /\ NumTokens(r) \in Int
<1>1. Drafts(r) \in {0, SpecTokens} /\ SpecTokens \in Nat
  BY LimitsAssumption DEF Drafts
<1>2. NumTokens(r) \in Int /\ placeholders[r] \in Int /\ computed[r] \in Int
  BY DEF Typed
<1> QED
  BY <1>1, <1>2 DEF Behind

\* The request whose turn it is.
LEMMA CurrentType ==
  ASSUME Types, Turn
  PROVE  Current \in Reqs /\ index \in 1 .. Len(running) /\ Len(running) \in 1 .. Len(running)
<1>1. index \in 1 .. Len(running)
  BY DEF Types, Turn
<1> QED
  BY <1>1, PoolType DEF Current, Turn

\* What is wanted for it is at most what it is behind by, and what is left.
LEMMA NewTokensRange ==
  ASSUME NEW r \in Reqs, Typed(r), budget \in 0 .. Budget, NewTokens(r) > 0
  PROVE  NewTokens(r) \in 1 .. budget /\ NewTokens(r) <= Behind(r)
<1>1. Behind(r) \in Int /\ budget \in Int /\ Guard \in Nat
  BY BehindType, LimitsAssumption
<1> HIDE DEF Behind
<1> QED
  BY <1>1 DEF NewTokens, Least

\* No budget has less than nothing left, and what is wanted is part of it.
LEMMA WantsStep ==
  ASSUME Types, Types', MoreTypes, Queue, Wants, \A r \in Reqs : Amounts(r) /\ Placed(r),
         [Next]_vars
  PROVE  Wants'
<1>a. budget \in Int /\ want \in Int /\ Budget \in Nat /\ Budget > 0 /\ index \in Int
  BY LimitsAssumption DEF Types
<1>b. \A r \in Reqs : Typed(r)
  BY TypedHolds
<1>c. ASSUME budget' = budget, want' = 0 PROVE Wants'
  BY <1>a, <1>c DEF Wants
<1>d. ASSUME budget' = budget, want' = want, pc # "running" PROVE Wants'
  BY <1>a, <1>c, <1>d DEF Wants
<1>1. CASE Begin
  BY <1>1, <1>a DEF Begin, Wants
<1>2. CASE Pass
  BY <1>2, <1>c DEF Pass
<1>3. CASE Consider
  <2>1. /\ Turn /\ want' = NewTokens(Current) /\ NewTokens(Current) > 0
        /\ UNCHANGED <<pc, index, running, budget, out, chunk, placeholders, computed>>
    BY <1>3 DEF Consider, queues, counters
  <2>2. Current \in Reqs
    BY <2>1, CurrentType
  <2>3. NewTokens(Current) \in 1 .. budget /\ NewTokens(Current) <= Behind(Current)
    BY <1>b, <2>1, <2>2, NewTokensRange DEF Wants
  <2>4. Behind(Current)' = Behind(Current)
    BY <2>1 DEF Behind, Current, Drafts, NumTokens
  <2> QED
    BY <1>a, <2>1, <2>3, <2>4 DEF Wants, Turn
<1>4. CASE Allocate
  BY <1>4, <1>a DEF Allocate, Wants
<1>5. CASE Preempt
  <2>1. PICK v \in Reqs :
          /\ Turn /\ want > 0 /\ v = running[Len(running)]
          /\ running' = SubSeq(running, 1, Len(running) - 1)
          /\ computed' = [computed EXCEPT ![v] = 0]
          /\ placeholders' = [placeholders EXCEPT ![v] = 0]
          /\ IF v = Current THEN want' = 0 ELSE UNCHANGED <<pc, want>>
          /\ UNCHANGED <<out, chunk, index, budget>>
    BY <1>5 DEF Preempt
  <2>2. CASE v = Current
    BY <1>c, <2>1, <2>2
  <2>3. CASE v # Current
    <3>1. Current \in Reqs /\ index \in 1 .. Len(running) /\ Len(running) \in Nat
      BY <2>1, CurrentType, PoolType
    <3>2. index # Len(running)
      BY <2>1, <2>3 DEF Current
    <3>3. Len(running') = Len(running) - 1 /\ running'[index] = running[index]
      <4>1. index \in 1 .. Len(running) - 1 /\ Len(running) >= 1 /\ running \in Seq(Reqs)
        <5>1. running \in Seq(Reqs)
          BY Zenon DEF Types
        <5> QED
          BY <3>1, <3>2, <5>1
      <4> QED
        BY <2>1, <4>1, FrontOfQueue
    <3>4. Current' = Current
      BY <2>1, <3>3 DEF Current
    <3>5. computed'[Current] = computed[Current] /\ placeholders'[Current] = placeholders[Current]
      <4> HIDE DEF Current
      <4> QED
        BY <2>1, <2>3, <3>1 DEF Types
    <3>6. Behind(Current)' = Behind(Current)
      BY <2>1, <3>4, <3>5 DEF Behind, Drafts, NumTokens
    <3> QED
      BY <1>a, <2>1, <2>3, <3>1, <3>2, <3>3, <3>6 DEF Wants
  <2> QED
    BY <2>2, <2>3
<1>6. CASE RunningDone
  <2>1. want = 0 /\ want' = want /\ budget' = budget
    BY <1>6, <1>a, PoolType DEF RunningDone, Wants, locals
  <2> QED
    BY <1>c, <2>1
<1>7. CASE PassOver
  BY <1>7, <1>d DEF PassOver, Admitting
<1>8. CASE Promote
  BY <1>8, <1>d DEF Promote, Admitting, locals
<1>9. CASE Admit
  <2>1. /\ pc = "waiting" /\ FirstTokens(Head1) <= budget /\ budget' = budget - FirstTokens(Head1)
        /\ want' = want
    BY <1>9 DEF Admit, Admitting, Admissible
  <2>2. /\ Head1 \in Reqs /\ status[Head1] = "waiting" /\ budget > 0
    BY <1>9, HeadType DEF Admit, Admitting, Ready
  <2>3. FirstTokens(Head1) \in Nat
    <3>1. Typed(Head1) /\ Placed(Head1)
      BY <1>b, <2>2
    <3> HIDE DEF Head1
    <3> QED
      BY <1>a, <2>2, <3>1, LimitsAssumption DEF FirstTokens, Least, Placed, Typed
  <2> HIDE DEF Head1
  <2> QED
    BY <1>a, <2>1, <2>3 DEF Wants
<1>10. CASE WaitingDone
  BY <1>10, <1>d DEF WaitingDone, locals
<1>11. CASE Dispatch
  BY <1>11, <1>a DEF Dispatch, Wants
<1>12. CASE \E r \in Reqs : \E n \in Matches(r) : Load(n)
  <2>1. pc = "waiting" /\ UNCHANGED <<budget, want>>
    BY <1>12 DEF Load, Admitting
  <2> QED
    BY <1>d, <2>1
<1>13. CASE Updates
  <2>1. pc = "idle" /\ UNCHANGED <<budget, want>>
    BY <1>13 DEF Updates, Update, locals
  <2> QED
    BY <1>d, <2>1
<1>14. CASE \E r \in Reqs : AddRequest(r)
  BY <1>14, <1>d DEF AddRequest, locals
<1>15. CASE \E r \in Reqs : Abort(r)
  BY <1>15, <1>d DEF Abort, locals
<1>16. CASE \E r \in Reqs : TransferOf(r)
  BY <1>16, <1>d DEF TransferOf, EndTransfer, locals
<1>17. CASE UNCHANGED vars
  <2>1. UNCHANGED <<budget, want, pc, index, running, out, chunk, placeholders, computed>>
    BY <1>17 DEF vars, queues, counters, locals
  <2>2. Behind(Current)' = Behind(Current)
    BY <2>1 DEF Behind, Current, Drafts, NumTokens
  <2> QED
    BY <2>1, <2>2 DEF Wants
<1> QED
  BY <1>1, <1>2, <1>3, <1>4, <1>5, <1>6, <1>7, <1>8, <1>9, <1>10, <1>11, <1>12, <1>13, <1>14,
     <1>15, <1>16, <1>17 DEF Next, Schedule

-----------------------------------------------------------------------------
(* Every step moves every request in one of these ways.                       *)

\* Where nothing of the requests changes, and where one request is concerned.
LEMMA AllStay ==
  ASSUME UNCHANGED <<status, out, computed, inFlight, stale, placeholders, drop, chunk, known,
                     steps, tokens, base, pad, transfer, good, received, failed, blocks>>
  PROVE  \A r \in Reqs : Stays(r)
BY DEF Stays, StepsStay, CountStays, PlaceStays, ShareStays, LoadStays, ReportStays

\* What the invariants say of every request, for the lemmas below.
Basics(r) == Typed(r) /\ Amounts(r) /\ Placed(r)

\* Tokens allocated to a running request.
LEMMA AllocateMoves ==
  ASSUME Types, MoreTypes, Queue, Given, Wants, \A r \in Reqs : Basics(r), Allocate
  PROVE  \A r \in Reqs : Stays(r) \/ Allocated(r)
<1>1. /\ Turn /\ want > 0 /\ Take(Current, computed[Current] + want + SpecTokens)
      /\ tokens' = [tokens EXCEPT ![Current] = want]
      /\ UNCHANGED <<status, out, computed, inFlight, stale, placeholders, drop, chunk, known,
                     steps, base, pad, transfer, good, received, failed>>
  BY DEF Allocate, counters, loads
<1>2. Current \in Reqs /\ status[Current] = "running" /\ Idle(Current)
  <2>1. index \in 1 .. Len(running) /\ index <= index
    <3>1. index \in 1 .. Len(running)
      BY <1>1, CurrentType
    <3>2. index \in Int
      BY DEF Types
    <3> QED
      BY <3>1, <3>2
  <2>2. Current \in Reqs
    BY <1>1, CurrentType
  <2> QED
    BY <1>1, <2>1, <2>2, IdleInTurn DEF Current, Basics
<1>3. want \in 1 .. Budget /\ want <= Behind(Current)
  BY <1>1 DEF Wants
<1> DEFINE q == Current
<1>4. q \in Reqs /\ blocks' = [blocks EXCEPT ![q] = @ \cup Lowest(Lacking(q, computed[q] + want + SpecTokens))]
  BY <1>1, <1>2 DEF Take
<1>5. tokens' = [tokens EXCEPT ![q] = want] /\ status[q] = "running" /\ Idle(q) /\ want <= Behind(q)
  BY <1>1, <1>2, <1>3
<1> HIDE DEF q
<1>6. ASSUME NEW r \in Reqs, r # q PROVE Stays(r)
  <2>1. blocks'[r] = blocks[r] /\ tokens'[r] = tokens[r]
    BY <1>4, <1>5, <1>6 DEF Types
  <2> QED
    BY <1>1, <2>1 DEF Stays, StepsStay, CountStays, PlaceStays, ShareStays, LoadStays, ReportStays
<1>7. Allocated(q)
  <2>1. tokens'[q] = want
    BY <1>4, <1>5 DEF Types
  <2> QED
    BY <1>1, <1>3, <1>5, <2>1 DEF Allocated, Idle, Stays, StepsStay, CountStays, PlaceStays,
       ShareStays, LoadStays, ReportStays
<1> QED
  BY <1>6, <1>7

\* A request preempted.
LEMMA PreemptMoves ==
  ASSUME Types, MoreTypes, Queue, Given, \A r \in Reqs : Basics(r), Preempt
  PROVE  \A r \in Reqs : Stays(r) \/ Preempted(r)
<1>1. PICK v \in Reqs :
        /\ Turn /\ v = running[Len(running)]
        /\ status' = [status EXCEPT ![v] = "waiting"] /\ computed' = [computed EXCEPT ![v] = 0]
        /\ drop' = [drop EXCEPT ![v] = DropStale \/ (drop[v] /\ stale[v] > 0)]
        /\ stale' = [stale EXCEPT ![v] = inFlight[v]]
        /\ placeholders' = [placeholders EXCEPT ![v] = 0]
        /\ blocks' = [r \in Reqs |-> IF r \in {v} THEN {} ELSE blocks[r]]
        /\ UNCHANGED <<out, inFlight, chunk, known, steps, tokens, base, pad, transfer, good,
                       received, failed>>
  BY DEF Preempt, Release, loads
<1>2. status[v] = "running" /\ Idle(v)
  <2>1. Len(running) \in 1 .. Len(running) /\ index <= Len(running)
    BY <1>1, CurrentType DEF Turn
  <2> QED
    BY <1>1, <2>1, IdleInTurn DEF Basics
<1>3. ASSUME NEW r \in Reqs, r # v PROVE Stays(r)
  <2>1. /\ status'[r] = status[r] /\ computed'[r] = computed[r] /\ placeholders'[r] = placeholders[r]
        /\ blocks'[r] = blocks[r]
    BY <1>1, <1>3 DEF Types
  <2>2. drop'[r] = drop[r] /\ stale'[r] = stale[r]
    BY <1>1, <1>3 DEF MoreTypes
  <2> QED
    BY <1>1, <2>1, <2>2 DEF Stays, StepsStay, CountStays, PlaceStays, ShareStays, LoadStays,
       ReportStays
<1>4. Preempted(v)
  <2>1. status'[v] = "waiting" /\ computed'[v] = 0 /\ placeholders'[v] = 0
    BY <1>1 DEF Types
  <2>2. drop'[v] = (DropStale \/ (drop[v] /\ stale[v] > 0)) /\ stale'[v] = inFlight[v]
    BY <1>1 DEF MoreTypes
  <2> QED
    BY <1>1, <1>2, <2>1, <2>2 DEF Preempted, Stays, StepsStay, CountStays, PlaceStays,
       ShareStays, LoadStays, ReportStays
<1> QED
  BY <1>3, <1>4

\* A request whose load has ended, promoted.
LEMMA PromoteMoves ==
  ASSUME Types, MoreTypes, Promote
  PROVE  \A r \in Reqs : Stays(r) \/ Promoted(r)
<1> DEFINE q == Head1
<1>1. /\ q \in Reqs /\ status[q] = "loading" /\ q \in received
      /\ status' = [status EXCEPT ![q] = "waiting"]
      /\ received' = received \ {q} /\ failed' = failed \ {q}
      /\ blocks' = blocks \/ blocks' = [blocks EXCEPT ![q] = {}]
      /\ IF q \in failed THEN computed' = computed
         ELSE computed' = [computed EXCEPT ![q] = Least(computed[q], NumTokens(q) - 1)]
      /\ UNCHANGED <<out, inFlight, stale, placeholders, drop, chunk, known, steps, tokens, base,
                     pad, transfer, good>>
  BY HeadType DEF Promote, locals
<1> HIDE DEF q
<1>2. ASSUME NEW r \in Reqs, r # q PROVE Stays(r)
  <2>1. status'[r] = status[r] /\ computed'[r] = computed[r] /\ blocks'[r] = blocks[r]
    BY <1>1, <1>2 DEF Types
  <2> QED
    BY <1>1, <1>2, <2>1 DEF Stays, StepsStay, CountStays, PlaceStays, ShareStays, LoadStays,
       ReportStays
<1>3. Promoted(q)
  <2>1. status'[q] = "waiting"
    BY <1>1 DEF Types
  <2>2. computed'[q] = IF q \in failed THEN computed[q] ELSE Least(computed[q], NumTokens(q) - 1)
    BY <1>1 DEF Types
  <2> QED
    BY <1>1, <2>1, <2>2 DEF Promoted, Stays, StepsStay, CountStays, PlaceStays, ShareStays,
       LoadStays, ReportStays
<1> QED
  BY <1>2, <1>3

\* A request whose load is asked for.
LEMMA LoadMoves ==
  ASSUME Types, Held, MoreTypes, \A r \in Reqs : Basics(r), NEW p \in Reqs, NEW n \in Matches(p),
         Load(n)
  PROVE  \A r \in Reqs : Stays(r) \/ LoadAsked(r)
<1> DEFINE q == Head1
<1>1. /\ q \in Reqs /\ Ready(q) /\ n \in Matches(q) /\ WholeFits(q) /\ Take(q, n)
      /\ status' = [status EXCEPT ![q] = "loading"] /\ computed' = [computed EXCEPT ![q] = n]
      /\ transfer' = [transfer EXCEPT ![q] = "asked"] /\ good' = [good EXCEPT ![q] = n]
      /\ UNCHANGED <<out, inFlight, stale, placeholders, drop, chunk, known, steps, tokens, base,
                     pad, received, failed>>
  BY HeadType DEF Load, LoadFits
<1> HIDE DEF q
<1>2. Typed(q)
  BY <1>1 DEF Basics
<1>3. n \in 1 .. NumTokens(q)
  <2>1. PICK k \in 1 .. NumTokens(q) \div BlockSize : n = BlockSize * k
    BY <1>1 DEF Matches
  <2>2. NumTokens(q) \in Int /\ BlockSize \in Nat \ {0}
    BY <1>2, PoolAssumption DEF Typed
  <2> DEFINE d == NumTokens(q) \div BlockSize
  <2>3. d \in Int /\ BlockSize * d <= NumTokens(q)
    BY <2>2
  <2>4. k \in Nat /\ k >= 1 /\ k <= d
    BY <2>1, <2>3
  <2> HIDE DEF d
  <2>5. BlockSize * k >= 1 /\ BlockSize * k <= BlockSize * d /\ BlockSize * k \in Int
    BY <2>2, <2>3, <2>4
  <2> QED
    BY <2>1, <2>2, <2>3, <2>5
<1>4. Cardinality(blocks'[q]) >= Ceil(n) /\ \A r \in Reqs \ {q} : blocks'[r] = blocks[r]
  <2>1. n \in Nat /\ NumTokens(q) \in Nat /\ n <= NumTokens(q)
    BY <1>2, <1>3 DEF Typed
  <2>2. Ceil(n) \in Nat /\ Ceil(NumTokens(q)) \in Nat /\ Ceil(n) <= Ceil(NumTokens(q))
    BY <2>1, CeilGrows
  <2>3. Cardinality(blocks[q]) \in Nat /\ Cardinality(free) \in Nat
    <3>1. free \subseteq Blocks
      BY DEF Types
    <3> QED
      BY <1>2, <3>1, PoolAssumption, FS_Subset, FS_CardinalityType DEF Typed
  <2>4. Lacking(q, NumTokens(q)) <= Cardinality(free)
    BY <1>1 DEF WholeFits, Fits
  <2>5. Lacking(q, n) <= Cardinality(free)
    BY <2>2, <2>3, <2>4 DEF Lacking
  <2> QED
    BY <1>1, <2>1, <2>5, TakeEnough DEF Fits
<1>5. ASSUME NEW r \in Reqs, r # q PROVE Stays(r)
  <2>1. status'[r] = status[r] /\ computed'[r] = computed[r] /\ transfer'[r] = transfer[r] /\ good'[r] = good[r]
    BY <1>1, <1>5 DEF Types
  <2> QED
    BY <1>1, <1>4, <1>5, <2>1 DEF Stays, StepsStay, CountStays, PlaceStays, ShareStays,
       LoadStays, ReportStays
<1>6. LoadAsked(q)
  <2>1. status'[q] = "loading" /\ computed'[q] = n /\ transfer'[q] = "asked" /\ good'[q] = n
    BY <1>1 DEF Types
  <2> QED
    BY <1>1, <1>3, <1>4, <2>1 DEF LoadAsked, Ready, Stays, StepsStay, CountStays, PlaceStays,
       ShareStays, LoadStays, ReportStays
<1> QED
  BY <1>5, <1>6

\* A request admitted.
LEMMA AdmitMoves ==
  ASSUME Types, MoreTypes, Given, Wants, \A r \in Reqs : Basics(r), Admit
  PROVE  \A r \in Reqs : Stays(r) \/ Admitted(r)
<1> DEFINE q == Head1
           n == FirstTokens(q)
<1>1. /\ q \in Reqs /\ Ready(q) /\ budget > 0 /\ n <= budget /\ pc = "waiting"
      /\ status' = [status EXCEPT ![q] = "running"] /\ tokens' = [tokens EXCEPT ![q] = n]
      /\ base' = [base EXCEPT ![q] = NumTokens(q)] /\ pad' = IF Padded(q) THEN pad \cup {q} ELSE pad
      /\ Take(q, computed[q] + n + SpecTokens)
      /\ UNCHANGED <<out, computed, inFlight, stale, placeholders, drop, chunk, known, steps,
                     transfer, good, received, failed>>
  BY HeadType DEF Admit, Admitting, Admissible, counters, loads
<1> HIDE DEF q, n
<1>2. Typed(q) /\ Placed(q) /\ Amounts(q) /\ status[q] = "waiting" /\ ~Undrained(q)
  BY <1>1 DEF Basics, Ready
<1>3. q \notin pad
  BY <1>1, <1>2, IdleWhen DEF Idle
<1>4. /\ computed[q] \in Int /\ NumTokens(q) \in Int /\ budget \in 0 .. Budget /\ SpecTokens \in Nat
      /\ computed[q] <= NumTokens(q) - 1 /\ Budget \in Nat
  BY <1>2, LimitsAssumption DEF Typed, Placed, Wants
<1>5. n \in 1 .. Budget
  BY <1>1, <1>4 DEF n, FirstTokens, Least
<1>6. IF Padded(q) THEN n = 1 + SpecTokens /\ NumTokens(q) - computed[q] = 1
                   ELSE n <= NumTokens(q) - computed[q]
  <2>1. CASE Padded(q)
    BY <2>1 DEF n, FirstTokens, Padded
  <2>2. CASE ~Padded(q)
    <3>1. n = Least(NumTokens(q) - computed[q], budget)
      BY <2>2 DEF n, FirstTokens
    <3> QED
      BY <1>4, <2>2, <3>1 DEF Least
  <2> QED
    BY <2>1, <2>2
<1>7. ASSUME NEW r \in Reqs, r # q PROVE Stays(r)
  <2>1. status'[r] = status[r] /\ tokens'[r] = tokens[r] /\ base'[r] = base[r] /\ blocks'[r] = blocks[r]
    BY <1>1, <1>7 DEF Types, Take
  <2> QED
    BY <1>1, <1>7, <2>1 DEF Stays, StepsStay, CountStays, PlaceStays, ShareStays, LoadStays,
       ReportStays
<1>8. Admitted(q)
  <2>1. status'[q] = "running" /\ tokens'[q] = n /\ base'[q] = NumTokens(q)
    BY <1>1 DEF Types
  <2>2. q \in pad' <=> Padded(q)
    BY <1>1, <1>3
  <2> QED
    BY <1>1, <1>2, <1>5, <1>6, <2>1, <2>2 DEF Admitted, Stays, StepsStay, CountStays,
       PlaceStays, ShareStays, LoadStays, ReportStays
<1> QED
  BY <1>7, <1>8

\* A request that comes.
LEMMA AddMoves ==
  ASSUME Types, Given, \A r \in Reqs : Basics(r), NEW q \in Reqs, AddRequest(q)
  PROVE  \A r \in Reqs : Stays(r) \/ Added(r)
<1>1. /\ pc = "idle" /\ status[q] = "new" /\ status' = [status EXCEPT ![q] = "waiting"]
      /\ UNCHANGED <<out, computed, inFlight, stale, placeholders, drop, chunk, known, steps,
                     tokens, base, pad, transfer, good, received, failed, blocks>>
  BY DEF AddRequest, counters, pool, loads, locals
<1>2. Idle(q)
  BY <1>1, IdleWhen DEF Basics
<1>3. status'[q] = "waiting" /\ \A r \in Reqs \ {q} : status'[r] = status[r]
  BY <1>1 DEF Types
<1> QED
  BY <1>1, <1>2, <1>3 DEF Added, Stays, StepsStay, CountStays, PlaceStays, ShareStays,
     LoadStays, ReportStays

\* A request whose client goes.
LEMMA AbortMoves ==
  ASSUME Types, Given, Received, \A r \in Reqs : Basics(r), NEW q \in Reqs, Abort(q)
  PROVE  \A r \in Reqs : Stays(r) \/ Aborted(r)
<1>1. /\ pc = "idle" /\ Alive(q) /\ received' = received \ {q}
      /\ \/ /\ status[q] = "loading" /\ q \notin received
            /\ status' = [status EXCEPT ![q] = "aborted"] /\ blocks' = blocks
         \/ /\ ~(status[q] = "loading" /\ q \notin received)
            /\ status' = [status EXCEPT ![q] = "done"]
            /\ blocks' = [r \in Reqs |-> IF r \in {q} THEN {} ELSE blocks[r]]
      /\ failed' = IF status[q] = "loading" THEN failed \ {q} ELSE failed
      /\ UNCHANGED <<out, computed, inFlight, stale, placeholders, drop, chunk, known, steps,
                     tokens, base, pad, transfer, good>>
  BY DEF Abort, Alive, Release, counters, pool, locals
<1>2. Idle(q)
  BY <1>1, IdleWhen DEF Basics
<1>3. ASSUME NEW r \in Reqs, r # q PROVE Stays(r)
  <2>1. status'[r] = status[r] /\ blocks'[r] = blocks[r]
    BY <1>1, <1>3 DEF Types
  <2> QED
    BY <1>1, <1>3, <2>1 DEF Stays, StepsStay, CountStays, PlaceStays, ShareStays, LoadStays,
       ReportStays
<1>4. Aborted(q)
  <2>1. \/ status'[q] = "aborted" /\ status[q] = "loading" /\ blocks'[q] = blocks[q]
        \/ status'[q] = "done" /\ (status[q] = "loading" => q \in received)
    BY <1>1 DEF Types
  <2>2. q \in failed' => q \in failed /\ status[q] # "loading"
    BY <1>1
  <2>3. q \notin received'
    BY <1>1
  <2> QED
    BY <1>1, <1>2, <2>1, <2>2, <2>3 DEF Aborted, Stays, StepsStay, CountStays, PlaceStays,
       ShareStays, LoadStays, ReportStays
<1> QED
  BY <1>3, <1>4

\* A request whose load ends.
LEMMA EndMoves ==
  ASSUME Types, Given, \A r \in Reqs : Basics(r), NEW q \in Reqs, TransferOf(q)
  PROVE  \A r \in Reqs : Stays(r) \/ Ended(r)
<1>1. PICK n \in 0 .. MaxTokens : EndTransfer(q, n)
  BY DEF TransferOf
<1>2. /\ pc = "idle" /\ transfer[q] = "going" /\ n <= good[q]
      /\ transfer' = [transfer EXCEPT ![q] = "ended"] /\ good' = [good EXCEPT ![q] = n]
      /\ UNCHANGED <<status, out, computed, inFlight, stale, placeholders, drop, chunk, known,
                     steps, tokens, base, pad, received, failed, blocks>>
  BY <1>1 DEF EndTransfer, counters, pool, locals
<1>3. Idle(q) /\ good[q] \in Int
  BY <1>2, IdleWhen DEF Basics, Typed
<1>4. /\ transfer'[q] = "ended" /\ good'[q] = n /\ n \in 0 .. good[q]
      /\ \A r \in Reqs \ {q} : transfer'[r] = transfer[r] /\ good'[r] = good[r]
  BY <1>2, <1>3 DEF Types
<1> QED
  BY <1>2, <1>3, <1>4 DEF Ended, Stays, StepsStay, CountStays, PlaceStays, ShareStays,
     LoadStays, ReportStays

\* A turn that is sent out.
LEMMA DispatchMoves ==
  ASSUME Types, MoreTypes, Dispatch
  PROVE  \A r \in Reqs : Dispatched(r)
<1> SUFFICES ASSUME NEW r \in Reqs PROVE Dispatched(r)
  OBVIOUS
<1> DEFINE S == {q \in Reqs : tokens[q] > 0}
           drafts == [q \in Reqs |-> IF q \in S THEN DraftsOf(q) ELSE 0]
           whole == {q \in S : [p \in Reqs |-> computed[p] + tokens[p]][q] >= NumTokens(q) + placeholders[q]}
<1>1. /\ computed' = [q \in Reqs |-> computed[q] + tokens[q]]
      /\ inFlight' = [q \in Reqs |-> inFlight[q] + tokens[q]]
      /\ transfer' = [q \in Reqs |-> IF transfer[q] = "asked" THEN "going" ELSE transfer[q]]
      /\ UNCHANGED <<status, out, stale, drop, blocks, received, failed, good, known>>
  BY DEF Dispatch, pool
<1>2. tokens' = Nothing /\ base' = Nothing /\ pad' = {}
  BY DEF Dispatch
<1>3. chunk' = [q \in Reqs |-> IF q \in S THEN q \notin whole ELSE chunk[q]]
  BY Zenon DEF Dispatch
<1>4. placeholders' = [q \in Reqs |-> IF q \in whole THEN placeholders[q] + 1 + drafts[q] ELSE placeholders[q]]
  BY Zenon DEF Dispatch
<1>5. /\ r \in S <=> tokens[r] > 0
      /\ r \in whole <=> Reaches(r)
      /\ drafts[r] = IF tokens[r] > 0 THEN DraftsOf(r) ELSE 0
  BY DEF Reaches
<1> HIDE DEF S, drafts, whole
<1>6. /\ computed'[r] = computed[r] + tokens[r] /\ inFlight'[r] = inFlight[r] + tokens[r]
      /\ transfer'[r] = IF transfer[r] = "asked" THEN "going" ELSE transfer[r]
  BY <1>1
<1>7. tokens'[r] = 0 /\ base'[r] = 0 /\ r \notin pad'
  BY <1>2 DEF Nothing
<1>8. chunk'[r] = IF tokens[r] > 0 THEN ~Reaches(r) ELSE chunk[r]
  BY <1>3, <1>5
<1>9. placeholders'[r] = IF Reaches(r) THEN placeholders[r] + 1 + DraftsOf(r) ELSE placeholders[r]
  <2>1. placeholders'[r] = IF r \in whole THEN placeholders[r] + 1 + drafts[r] ELSE placeholders[r]
    BY <1>4
  <2>2. Reaches(r) => tokens[r] > 0
    BY DEF Reaches
  <2> QED
    BY <1>5, <2>1, <2>2
<1>10. \/ steps' = steps /\ ~(tokens[r] > 0)
       \/ \E step \in Output :
            /\ steps' = Append(steps, step)
            /\ step.tokens[r] = tokens[r] /\ step.base[r] = base[r]
            /\ step.drafts[r] = IF tokens[r] > 0 THEN DraftsOf(r) ELSE 0
            /\ r \in step.samples <=> Reaches(r)
  BY DispatchOutput, Zenon DEF Reaches
<1> QED
  BY <1>1, <1>6, <1>7, <1>8, <1>9, <1>10 DEF Dispatched, CountStays, ReportStays

\* An output taken back.
LEMMA HeedMoves ==
  ASSUME Types, MoreTypes, Given, Received, \A r \in Reqs : Basics(r),
         steps # <<>>, NEW accepted \in [Reqs -> 0 .. SpecTokens],
         NEW eos \in SUBSET Head(steps).samples, Update(accepted, eos)
  PROVE  \A r \in Reqs : Heeded(r, accepted[r])
<1> SUFFICES ASSUME NEW r \in Reqs PROVE Heeded(r, accepted[r])
  OBVIOUS
<1> DEFINE step == Head(steps)
           S == Scheduled(step)
           present == {q \in S : status[q] \notin {"new", "done"}}
           alive == {q \in S : status[q] \in {"waiting", "loading", "running"}}
           heard == {q \in alive \cap step.samples : ~(IsStale(q) /\ drop[q])}
           rejected == [q \in Reqs |-> step.drafts[q] - accepted[q]]
           new == [q \in Reqs |-> IF q \in heard THEN Least(1 + accepted[q], MaxOut - out[q]) ELSE 0]
           stopped == {q \in heard : q \in eos \/ out[q] + new[q] = MaxOut}
           ended == {q \in Reqs : transfer[q] = "ended"}
           refused == IF Recompute THEN {} ELSE Invalid
           released == stopped \cup refused \cup {q \in ended : status[q] = "aborted"}
           gone == stopped \cup refused
           a == accepted[r]
           new1 == IF Heard(r) THEN Least(1 + a, MaxOut - out[r]) ELSE 0
<1>1. step = steps[1]
  BY HeadTailProperties, LenProperties DEF Types
<1>2. Typed(r) /\ Idle(r)
  <2>1. pc = "idle"
    BY DEF Update
  <2> QED
    BY <2>1, IdleWhen DEF Basics
<1>3. /\ r \in S <=> step.tokens[r] > 0
      /\ r \in present <=> step.tokens[r] > 0 /\ status[r] \notin {"new", "done"}
      /\ r \in heard <=> Heard(r)
      /\ r \in ended <=> transfer[r] = "ended"
      /\ r \in Invalid <=> Refused(r)
  <2>1. r \in S <=> step.tokens[r] > 0
    BY DEF Scheduled
  <2>2. r \in present <=> step.tokens[r] > 0 /\ status[r] \notin {"new", "done"}
    BY <2>1
  <2>3. r \in heard <=> Heard(r)
    BY <1>1, <2>1 DEF Heard, Alive, IsStale
  <2>4. r \in Invalid <=> Refused(r)
    BY <1>1 DEF Invalid, Refused
  <2> QED
    BY <2>1, <2>2, <2>3, <2>4
<1>4. new[r] = new1 /\ rejected[r] = step.drafts[r] - a /\ RunnerBase(r) = Before(r)
  <2>1. RunnerBase(r) = Before(r)
    BY <1>1 DEF RunnerBase, Before
  <2>2. new[r] = new1
    BY <1>3
  <2> QED
    BY <2>1, <2>2
<1>5. /\ steps' = Tail(steps)
      /\ inFlight' = [q \in Reqs |-> inFlight[q] - (IF q \in present THEN step.tokens[q] ELSE 0)]
      /\ stale' = [q \in Reqs |-> stale[q] - (IF q \in present /\ IsStale(q) THEN step.tokens[q] ELSE 0)]
      /\ out' = [q \in Reqs |-> out[q] + new[q]]
  BY Zenon DEF Update
<1>6. computed' = [q \in Reqs |->
          IF q \in Invalid THEN good[q]
          ELSE IF q \in heard /\ ~IsStale(q) /\ computed[q] > 0 THEN computed[q] - rejected[q]
          ELSE computed[q]]
  BY Zenon DEF Update
<1>7. placeholders' = [q \in Reqs |->
          IF q \in heard /\ ~IsStale(q) /\ placeholders[q] > 0
            THEN placeholders[q] - rejected[q] - new[q] ELSE placeholders[q]]
  BY Zenon DEF Update
<1>8. known' = [q \in Reqs |-> IF q \in step.samples THEN RunnerBase(q) + 1 + accepted[q]
                               ELSE IF q \in S THEN RunnerBase(q) ELSE known[q]]
  BY Zenon DEF Update
<1>9. /\ status' = [q \in Reqs |-> IF q \in released THEN "done" ELSE status[q]]
      /\ received' = received \cup {q \in ended \ refused : status[q] = "loading"}
      /\ failed' = failed \cup (Invalid \ refused)
      /\ transfer' = [q \in Reqs |-> IF q \in ended THEN "none" ELSE transfer[q]]
      /\ blocks' = [q \in Reqs |-> IF q \in released THEN {} ELSE blocks[q]]
  <2>1. \E pool0, later0, f, now : Release(released, pool0, later0, f, now)
    BY Zenon DEF Update
  <2>2. blocks' = [q \in Reqs |-> IF q \in released THEN {} ELSE blocks[q]]
    <3> HIDE DEF released
    <3> QED
      BY <2>1, Zenon DEF Release
  <2> QED
    BY <2>2, Zenon DEF Update
<1>10. UNCHANGED <<drop, chunk, good, tokens, base, pad>>
  BY DEF Update, locals
<1>11. r \in stopped => Heard(r)
  BY <1>3
<1>12. Heard(r) /\ r \notin stopped => out[r] + new[r] # MaxOut
  BY <1>3
<1>13. r \in refused => r \in Invalid
  OBVIOUS
<1>14. r \in Invalid \ refused => refused = {}
  OBVIOUS
<1>15. r \in released <=> r \in stopped \/ r \in refused \/ (r \in ended /\ status[r] = "aborted")
  OBVIOUS
<1> HIDE DEF S, present, alive, heard, rejected, new, stopped, ended, refused, released, gone, step
<1>16. /\ inFlight'[r] = inFlight[r] - (IF r \in present THEN step.tokens[r] ELSE 0)
       /\ stale'[r] = stale[r] - (IF r \in present /\ IsStale(r) THEN step.tokens[r] ELSE 0)
       /\ out'[r] = out[r] + new1
  BY <1>4, <1>5
<1>17. computed'[r] = IF Refused(r) THEN good[r]
                      ELSE IF Heard(r) /\ ~(stale[r] > 0) /\ computed[r] > 0
                        THEN computed[r] - (step.drafts[r] - a) ELSE computed[r]
  BY <1>3, <1>4, <1>6 DEF IsStale
<1>18. placeholders'[r] = IF Heard(r) /\ ~(stale[r] > 0) /\ placeholders[r] > 0
                            THEN placeholders[r] - (step.drafts[r] - a) - new1 ELSE placeholders[r]
  BY <1>3, <1>4, <1>7 DEF IsStale
<1>19. known'[r] = IF r \in step.samples THEN Before(r) + 1 + a
                   ELSE IF step.tokens[r] > 0 THEN Before(r) ELSE known[r]
  BY <1>3, <1>4, <1>8
<1>20. transfer'[r] = IF transfer[r] = "ended" THEN "none" ELSE transfer[r]
  BY <1>3, <1>9
<1>21. \/ status'[r] = status[r] /\ blocks'[r] = blocks[r] /\ (Heard(r) => out[r] + new1 # MaxOut)
       \/ status'[r] = "done" /\ (Heard(r) \/ transfer[r] = "ended")
  <2>1. CASE r \in released
    <3>1. status'[r] = "done"
      BY <1>9, <2>1
    <3>2. Heard(r) \/ transfer[r] = "ended"
      BY <1>3, <1>11, <1>13, <1>15, <2>1 DEF Refused
    <3> QED
      BY <3>1, <3>2
  <2>2. CASE r \notin released
    <3>1. status'[r] = status[r] /\ blocks'[r] = blocks[r]
      BY <1>9, <2>2
    <3>2. Heard(r) => out[r] + new[r] # MaxOut
      BY <1>12, <1>15, <2>2
    <3> QED
      BY <1>4, <3>1, <3>2
  <2> QED
    BY <2>1, <2>2
<1>22. /\ r \in received => r \in received'
       /\ r \in failed' => r \in failed \/ (r \in received' /\ Refused(r))
  <2>1. ASSUME r \in failed', r \notin failed PROVE r \in received' /\ Refused(r)
    <3>1. r \in Invalid /\ refused = {}
      BY <1>9, <1>14, <2>1
    <3>2. Refused(r)
      BY <1>3, <3>1
    <3>3. r \in ended /\ status[r] = "loading"
      BY <1>3, <3>2 DEF Refused
    <3> QED
      BY <1>9, <3>1, <3>2, <3>3
  <2> QED
    BY <1>9, <2>1
<1>23. /\ inFlight'[r] = inFlight[r] - (IF step.tokens[r] > 0 /\ status[r] \notin {"new", "done"}
                                          THEN step.tokens[r] ELSE 0)
       /\ stale'[r] = stale[r] - (IF (step.tokens[r] > 0 /\ status[r] \notin {"new", "done"})
                                     /\ stale[r] > 0 THEN step.tokens[r] ELSE 0)
  BY <1>3, <1>16 DEF IsStale
<1>24. ShareStays(r) /\ drop'[r] = drop[r] /\ chunk'[r] = chunk[r] /\ good'[r] = good[r]
  BY <1>10 DEF ShareStays
<1> HIDE DEF Heard, new1, a
<1> QED
  BY <1>1, <1>2, <1>5, <1>16, <1>17, <1>18, <1>19, <1>20, <1>21, <1>22, <1>23, <1>24
     DEF Heeded, new1, a

\* A step moves every request in one of those ways.
LEMMA Moves ==
  ASSUME Types, MoreTypes, Queue, Given, Held, Received, Wants, \A r \in Reqs : Basics(r),
         [Next]_vars
  PROVE  \A r \in Reqs : Moved(r)
<1>1. CASE Begin
  <2>1. /\ pc = "idle" /\ tokens' = Nothing /\ base' = Nothing /\ pad' = {}
        /\ UNCHANGED <<status, out, computed, inFlight, stale, placeholders, drop, chunk, known,
                       steps, transfer, good, received, failed, blocks>>
    BY <1>1 DEF Begin, counters, pool, loads
  <2> SUFFICES ASSUME NEW r \in Reqs PROVE Stays(r)
    BY DEF Moved
  <2>2. Idle(r)
    BY <2>1, IdleWhen DEF Basics
  <2>3. tokens'[r] = tokens[r] /\ base'[r] = base[r] /\ (r \in pad' <=> r \in pad)
    BY <2>1, <2>2 DEF Idle, Nothing
  <2> QED
    BY <2>1, <2>3 DEF Stays, StepsStay, CountStays, PlaceStays, ShareStays, LoadStays, ReportStays
<1>2. CASE Pass
  <2>1. UNCHANGED <<status, out, computed, inFlight, stale, placeholders, drop, chunk, known, steps,
                    tokens, base, pad, transfer, good, received, failed, blocks>>
    BY <1>2 DEF Pass, counters, pool, loads, locals
  <2> QED
    BY <2>1, AllStay DEF Moved
<1>3. CASE Consider
  <2>1. UNCHANGED <<status, out, computed, inFlight, stale, placeholders, drop, chunk, known, steps,
                    tokens, base, pad, transfer, good, received, failed, blocks>>
    BY <1>3 DEF Consider, counters, pool, loads, locals
  <2> QED
    BY <2>1, AllStay DEF Moved
<1>4. CASE Allocate
  BY <1>4, AllocateMoves DEF Moved
<1>5. CASE Preempt
  BY <1>5, PreemptMoves DEF Moved
<1>6. CASE RunningDone
  <2>1. UNCHANGED <<status, out, computed, inFlight, stale, placeholders, drop, chunk, known, steps,
                    tokens, base, pad, transfer, good, received, failed, blocks>>
    BY <1>6 DEF RunningDone, counters, pool, loads, locals
  <2> QED
    BY <2>1, AllStay DEF Moved
<1>7. CASE PassOver
  <2>1. UNCHANGED <<status, out, computed, inFlight, stale, placeholders, drop, chunk, known, steps,
                    tokens, base, pad, transfer, good, received, failed, blocks>>
    BY <1>7 DEF PassOver, counters, pool, loads, locals
  <2> QED
    BY <2>1, AllStay DEF Moved
<1>8. CASE Promote
  BY <1>8, PromoteMoves DEF Moved
<1>9. CASE Admit
  BY <1>9, AdmitMoves DEF Moved
<1>10. CASE WaitingDone
  <2>1. UNCHANGED <<status, out, computed, inFlight, stale, placeholders, drop, chunk, known, steps,
                    tokens, base, pad, transfer, good, received, failed, blocks>>
    BY <1>10 DEF WaitingDone, counters, pool, loads, locals
  <2> QED
    BY <2>1, AllStay DEF Moved
<1>11. CASE Dispatch
  BY <1>11, DispatchMoves DEF Moved
<1>12. CASE \E r \in Reqs : \E n \in Matches(r) : Load(n)
  <2>1. PICK q \in Reqs : \E m \in Matches(q) : Load(m)
    BY <1>12
  <2>2. PICK m \in Matches(q) : Load(m)
    BY <2>1
  <2> QED
    BY <2>2, LoadMoves DEF Moved
<1>13. CASE Updates
  <2>1. PICK accepted \in [Reqs -> 0 .. SpecTokens], eos \in SUBSET Head(steps).samples :
          /\ steps # <<>> /\ Update(accepted, eos)
          /\ \A r \in Reqs : accepted[r] <= Head(steps).drafts[r]
    BY <1>13 DEF Updates
  <2>2. \A r \in Reqs : Heeded(r, accepted[r])
    BY <2>1, HeedMoves
  <2>3. Head(steps) = steps[1]
    BY <2>1, HeadTailProperties, LenProperties DEF Types
  <2>4. \A r \in Reqs : accepted[r] \in 0 .. SpecTokens /\ accepted[r] <= steps[1].drafts[r]
    BY <2>1, <2>3
  <2> QED
    BY <2>2, <2>4, Zenon DEF Moved
<1>14. CASE \E r \in Reqs : AddRequest(r)
  <2>1. PICK q \in Reqs : AddRequest(q)
    BY <1>14
  <2> QED
    BY <2>1, AddMoves DEF Moved
<1>15. CASE \E r \in Reqs : Abort(r)
  <2>1. PICK q \in Reqs : Abort(q)
    BY <1>15
  <2> QED
    BY <2>1, AbortMoves DEF Moved
<1>16. CASE \E r \in Reqs : TransferOf(r)
  <2>1. PICK q \in Reqs : TransferOf(q)
    BY <1>16
  <2> QED
    BY <2>1, EndMoves DEF Moved
<1>17. CASE UNCHANGED vars
  <2>1. UNCHANGED <<status, out, computed, inFlight, stale, placeholders, drop, chunk, known, steps,
                    tokens, base, pad, transfer, good, received, failed, blocks>>
    BY <1>17 DEF vars, counters, pool, loads, locals
  <2> QED
    BY <2>1, AllStay DEF Moved
<1> QED
  BY <1>1, <1>2, <1>3, <1>4, <1>5, <1>6, <1>7, <1>8, <1>9, <1>10, <1>11, <1>12, <1>13, <1>14,
     <1>15, <1>16, <1>17 DEF Next, Schedule

-----------------------------------------------------------------------------
(* What a step leaves of the account of a request.                            *)

\* MaxTokens is the most that a request can have.
LEMMA MaxTokensBound ==
  ASSUME Reqs # {}
  PROVE  MaxTokens \in Nat /\ \A r \in Reqs : Prompt[r] + MaxOut <= MaxTokens
<1> DEFINE size(r) == Prompt[r] + MaxOut
           Above(r) == {q \in Reqs : size(q) > size(r)}
           C == {Cardinality(Above(r)) : r \in Reqs}
<1>1. \A r \in Reqs : size(r) \in Nat
  BY RequestsAssumption
<1> HIDE DEF size
<1>2. \A r : IsFiniteSet(Above(r)) /\ Cardinality(Above(r)) \in Nat
  <2>1. \A r : Above(r) \subseteq Reqs
    OBVIOUS
  <2> HIDE DEF Above
  <2> QED
    BY <2>1, RequestsAssumption, FS_Subset, FS_CardinalityType
<1>3. C # {} /\ C \subseteq Nat
  BY <1>2
<1>4. PICK x \in Reqs : \A y \in Reqs : Cardinality(Above(x)) <= Cardinality(Above(y))
  <2>1. PICK c \in C : \A d \in C : c <= d
    <3> HIDE DEF C
    <3> QED
      BY <1>3, LeastIn
  <2> QED
    BY <2>1
<1>5. ASSUME NEW y \in Reqs, size(y) > size(x) PROVE FALSE
  <2>1. size(x) \in Nat /\ size(y) \in Nat
    BY <1>1
  <2>2. y \in Above(x) /\ y \notin Above(y)
    BY <1>5, <2>1
  <2>3. Above(y) \subseteq Above(x)
    BY <1>1, <1>5, <2>1
  <2> HIDE DEF Above
  <2>4. /\ Cardinality(Above(y)) <= Cardinality(Above(x))
        /\ Cardinality(Above(x)) = Cardinality(Above(y)) => Above(x) = Above(y)
    BY <1>2, <2>3, FS_Subset
  <2> QED
    BY <1>2, <1>4, <2>2, <2>4
<1> DEFINE T == {size(r) : r \in Reqs}
<1>6. size(x) \in T /\ \A q \in Reqs : size(q) <= size(x)
  BY <1>1, <1>5
<1>7. MaxTokens = CHOOSE n \in T : \A q \in Reqs : size(q) <= n
  BY DEF MaxTokens, size
<1>8. T \subseteq Nat
  BY <1>1
<1> HIDE DEF T
<1>9. MaxTokens \in T /\ \A q \in Reqs : size(q) <= MaxTokens
  BY <1>6, <1>7, Zenon
<1> QED
  BY <1>8, <1>9 DEF size

\* What Typed and Amounts say of the size of a request.
LEMMA SizeOf ==
  ASSUME NEW r \in Reqs, Typed(r), out[r] \in 0 .. MaxOut
  PROVE  /\ NumTokens(r) \in 1 .. MaxTokens /\ MaxTokens \in Nat /\ MaxOut \in Nat
         /\ SpecTokens \in Nat /\ Budget \in Nat
<1>1. MaxTokens \in Nat /\ Prompt[r] + MaxOut <= MaxTokens
  BY MaxTokensBound
<1> QED
  BY <1>1, RequestsAssumption, LimitsAssumption DEF Typed

\* Its numbers stay in range.
LEMMA AmountsStep ==
  ASSUME NEW r \in Reqs, Typed(r), Typed(r)', Amounts(r), Moved(r)
  PROVE  Amounts(r)'
<1>1. /\ NumTokens(r) \in 1 .. MaxTokens /\ MaxTokens \in Nat /\ MaxOut \in Nat
      /\ SpecTokens \in Nat /\ Budget \in Nat
  BY SizeOf DEF Amounts
<1>2. CASE Stays(r)
  BY <1>2 DEF Amounts, Stays, StepsStay, ShareStays, LoadStays
<1>3. CASE Allocated(r)
  BY <1>1, <1>3 DEF Amounts, Allocated, StepsStay, LoadStays
<1>4. CASE Preempted(r)
  BY <1>4 DEF Amounts, Preempted, StepsStay, ShareStays, LoadStays
<1>5. CASE Promoted(r)
  BY <1>5 DEF Amounts, Promoted, StepsStay, ShareStays, LoadStays
<1>6. CASE LoadAsked(r)
  BY <1>1, <1>6 DEF Amounts, LoadAsked, StepsStay, ShareStays
<1>7. CASE Admitted(r)
  BY <1>1, <1>7 DEF Amounts, Admitted, StepsStay, LoadStays
<1>8. CASE Added(r)
  BY <1>8 DEF Amounts, Added, StepsStay, ShareStays, LoadStays
<1>9. CASE Aborted(r)
  BY <1>9 DEF Amounts, Aborted, StepsStay, ShareStays, LoadStays
<1>10. CASE Ended(r)
  BY <1>1, <1>10 DEF Amounts, Ended, StepsStay, ShareStays
<1>11. CASE Dispatched(r)
  BY <1>1, <1>11 DEF Amounts, Dispatched
<1>12. ASSUME NEW a \in 0 .. SpecTokens, Heeded(r, a) PROVE Amounts(r)'
  <2>1. /\ out'[r] = out[r] + (IF Heard(r) THEN Least(1 + a, MaxOut - out[r]) ELSE 0)
        /\ good'[r] = good[r] /\ tokens'[r] = tokens[r] /\ base'[r] = base[r]
    BY <1>12 DEF Heeded, ShareStays
  <2>2. out'[r] \in 0 .. MaxOut
    BY <1>1, <2>1 DEF Amounts, Least
  <2> QED
    BY <2>1, <2>2 DEF Amounts
<1> QED
  BY <1>2, <1>3, <1>4, <1>5, <1>6, <1>7, <1>8, <1>9, <1>10, <1>11, <1>12 DEF Moved

\* The steps in flight do not change but in a dispatch and when the oldest is taken back.
LEMMA StepsKept ==
  ASSUME NEW r, \/ Stays(r) \/ Allocated(r) \/ Preempted(r) \/ Promoted(r) \/ LoadAsked(r)
                \/ Admitted(r) \/ Added(r) \/ Aborted(r) \/ Ended(r)
  PROVE  StepsStay(r)
BY DEF Stays, Allocated, Preempted, Promoted, LoadAsked, Admitted, Added, Aborted, Ended

\* The drafts of a step are none or those of a decode, at most SpecTokens.
LEMMA DraftsRange ==
  ASSUME NEW r \in Reqs, Typed(r), Amounts(r), Placed(r), tokens[r] > 0
  PROVE  DraftsOf(r) \in 0 .. SpecTokens
<1>1. /\ Drafts(r) \in {0, SpecTokens} /\ SpecTokens \in Nat
      /\ Behind(r) = NumTokens(r) + Drafts(r) + placeholders[r] - computed[r]
      /\ NumTokens(r) \in Int
  BY BehindType
<1>2. placeholders[r] \in Int /\ computed[r] \in Int /\ tokens[r] \in Int /\ base[r] \in Nat
  BY DEF Typed, Amounts
<1>3. CASE r \in pad \/ base[r] > 0 \/ Drafts(r) = 0
  BY <1>1, <1>3 DEF DraftsOf
<1>4. CASE r \notin pad /\ ~(base[r] > 0) /\ Drafts(r) # 0
  <2>1. tokens[r] <= Behind(r)
    BY <1>2, <1>4 DEF Placed
  <2>2. DraftsOf(r) = IF tokens[r] + computed[r] > NumTokens(r) + placeholders[r]
                      THEN tokens[r] + computed[r] - NumTokens(r) - placeholders[r] ELSE 0
    <3>1. base[r] > 0 \/ Drafts(r) = 0 <=> FALSE
      BY <1>4
    <3> HIDE DEF Drafts
    <3> QED
      BY <1>1, <1>2, <1>4, <3>1 DEF DraftsOf
  <2> HIDE DEF Behind, Drafts
  <2> QED
    BY <1>1, <1>2, <1>4, <2>1, <2>2
<1> QED
  BY <1>3, <1>4

\* What the steps in flight say of it stays in range.
LEMMA FineStep ==
  ASSUME steps \in Seq(Output), NEW r \in Reqs, Typed(r), Amounts(r), Placed(r), Fine(steps, r),
         Moved(r)
  PROVE  Fine(steps, r)'
<1>1. CASE StepsStay(r)
  BY <1>1 DEF Fine, StepsStay
<1>2. CASE Dispatched(r)
  <2>1. CASE steps' = steps
    BY <2>1 DEF Fine
  <2>2. ASSUME NEW step \in Output, steps' = Append(steps, step), step.tokens[r] = tokens[r],
               step.base[r] = base[r],
               step.drafts[r] = IF tokens[r] > 0 THEN DraftsOf(r) ELSE 0,
               r \in step.samples <=> Reaches(r)
        PROVE  Fine(steps, r)'
    <3>1. /\ step.tokens[r] \in 0 .. Budget /\ step.base[r] \in 0 .. MaxTokens
          /\ r \in step.samples \/ step.base[r] > 0 => step.tokens[r] > 0
      BY <2>2 DEF Amounts, Reaches
    <3>2. step.drafts[r] \in 0 .. SpecTokens
      <4>1. CASE tokens[r] > 0
        BY <2>2, <4>1, DraftsRange
      <4>2. CASE ~(tokens[r] > 0)
        BY <2>2, <4>2, LimitsAssumption
      <4> QED
        BY <4>1, <4>2
    <3>3. Fine(steps', r)
      BY <2>2, <3>1, <3>2, AheadMore DEF Extended
    <3> QED
      BY <3>3 DEF Fine
  <2> QED
    BY <1>2, <2>1, <2>2 DEF Dispatched
<1>3. ASSUME NEW a \in 0 .. SpecTokens, Heeded(r, a) PROVE Fine(steps, r)'
  <2>1. steps # <<>> /\ steps' = Tail(steps)
    BY <1>3 DEF Heeded
  <2>2. Fine(steps', r)
    BY <2>1, AheadTail DEF Shortened
  <2> QED
    BY <2>2 DEF Fine
<1> QED
  BY <1>1, <1>2, <1>3, StepsKept DEF Moved

\* How the tokens in flight, the stale ones and those of the oldest step compare.
LEMMA TallyFacts ==
  ASSUME steps \in Seq(Output), NEW r \in Reqs, Typed(r), Fine(steps, r), Tallied(r),
         status[r] # "done"
  PROVE  /\ stale[r] \in Nat /\ inFlight[r] \in Nat /\ stale[r] <= inFlight[r]
         /\ inFlight[r] = Ahead(steps, r, Len(steps)) /\ Len(steps) \in Nat
         /\ status[r] # "running" => stale[r] = inFlight[r]
         /\ status[r] \in {"loading", "running"} => ~Undrained(r)
         /\ \A i \in 1 .. Len(steps) : steps[i].tokens[r] > 0 =>
              Ahead(steps, r, i) > 0 /\ Ahead(steps, r, i) <= inFlight[r]
<1> DEFINE n == Len(steps)
<1>1. /\ n \in Nat /\ Ahead(steps, r, 0) = 0
      /\ \A i \in 0 .. n : Ahead(steps, r, i) \in Nat
      /\ \A j \in 0 .. n : \A i \in 0 .. j : Ahead(steps, r, i) <= Ahead(steps, r, j)
  BY AheadFacts
<1>2. inFlight[r] = Ahead(steps, r, n) /\ \E k \in 0 .. n : stale[r] = Ahead(steps, r, k)
  BY DEF Tallied
<1> HIDE DEF n
<1>3. n \in 0 .. n /\ \A i \in 0 .. n : Ahead(steps, r, i) <= Ahead(steps, r, n)
  BY <1>1
<1>4. ASSUME NEW i \in 1 .. n, steps[i].tokens[r] > 0
      PROVE  Ahead(steps, r, i) > 0 /\ Ahead(steps, r, i) <= inFlight[r]
  <2>1. 0 \in 0 .. i - 1 /\ i \in 0 .. n
    BY <1>1
  <2>2. Ahead(steps, r, 0) < Ahead(steps, r, i)
    BY <1>4, <2>1, AheadStrict DEF n
  <2> QED
    BY <1>1, <1>2, <1>3, <2>1, <2>2
<1>5. stale[r] \in Nat /\ inFlight[r] \in Nat /\ stale[r] <= inFlight[r]
  BY <1>1, <1>2, <1>3
<1> QED
  BY <1>1, <1>2, <1>4, <1>5 DEF Tallied, n

\* The same of the oldest step.
LEMMA OldestFacts ==
  ASSUME steps \in Seq(Output), steps # <<>>, NEW r \in Reqs, Typed(r), Fine(steps, r), Tallied(r),
         status[r] # "done"
  PROVE  /\ steps[1].tokens[r] \in Nat /\ 1 \in 1 .. Len(steps)
         /\ Ahead(steps, r, 1) = steps[1].tokens[r]
         /\ steps[1].tokens[r] <= inFlight[r]
         /\ stale[r] > 0 => steps[1].tokens[r] <= stale[r]
         /\ status[r] = "new" => steps[1].tokens[r] = 0
         /\ status[r] # "running" /\ stale[r] = 0 => steps[1].tokens[r] = 0
<1> DEFINE n == Len(steps)
           t == steps[1].tokens[r]
<1>1. n \in Nat /\ n >= 1
  BY LenProperties
<1>2. 1 \in 1 .. n /\ 1 \in 0 .. n /\ 0 \in 0 .. n /\ n \in 0 .. n
  BY <1>1
<1>3. /\ \A i \in 0 .. n : Ahead(steps, r, i) \in Nat
      /\ \A i \in 1 .. n : Ahead(steps, r, i) = Ahead(steps, r, i - 1) + steps[i].tokens[r]
      /\ \A j \in 0 .. n : \A i \in 0 .. j : Ahead(steps, r, i) <= Ahead(steps, r, j)
      /\ t \in Nat /\ Ahead(steps, r, 0) = 0
  BY <1>2, AheadFacts
<1> HIDE DEF n
<1>4. Ahead(steps, r, 1) = t
  <2>1. Ahead(steps, r, 1) = Ahead(steps, r, 1 - 1) + steps[1].tokens[r]
    BY <1>2, <1>3
  <2> QED
    BY <1>3, <2>1
<1> HIDE DEF t
<1>5. \A j \in 1 .. n : t <= Ahead(steps, r, j)
  <2> SUFFICES ASSUME NEW j \in 1 .. n PROVE t <= Ahead(steps, r, j)
    OBVIOUS
  <2>1. j \in 0 .. n /\ 1 \in 0 .. j
    BY <1>1
  <2>2. Ahead(steps, r, 1) <= Ahead(steps, r, j)
    BY <1>3, <2>1
  <2> QED
    BY <1>4, <2>2
<1>6. t <= inFlight[r]
  <2>1. n \in 1 .. n
    BY <1>1
  <2> QED
    BY <1>5, <2>1 DEF Tallied, n
<1>7. stale[r] > 0 => t <= stale[r]
  <2> SUFFICES ASSUME stale[r] > 0 PROVE t <= stale[r]
    OBVIOUS
  <2>1. PICK k \in 0 .. n : stale[r] = Ahead(steps, r, k)
    BY DEF Tallied, n
  <2>2. k # 0
    BY <1>3, <2>1
  <2>3. k \in 1 .. n
    BY <1>1, <2>2
  <2> QED
    BY <1>5, <2>1, <2>3
<1>8. /\ status[r] = "new" => inFlight[r] = 0
      /\ status[r] # "running" => stale[r] = inFlight[r]
  BY DEF Tallied
<1> QED
  BY <1>2, <1>3, <1>4, <1>6, <1>7, <1>8 DEF n, t

\* A further step leaves the tokens ahead of the others as they were.
LEMMA DispatchedAhead ==
  ASSUME steps \in Seq(Output), NEW r \in Reqs, Typed(r), Amounts(r), Placed(r), Fine(steps, r),
         Dispatched(r)
  PROVE  \/ steps' = steps /\ tokens[r] = 0
         \/ \E step \in Output :
              /\ steps' = Append(steps, step)
              /\ step.tokens[r] = tokens[r] /\ step.base[r] = base[r]
              /\ step.drafts[r] = IF tokens[r] > 0 THEN DraftsOf(r) ELSE 0
              /\ r \in step.samples <=> Reaches(r)
              /\ step.tokens[r] \in 0 .. Budget /\ step.drafts[r] \in 0 .. SpecTokens
              /\ step.base[r] \in 0 .. MaxTokens
              /\ r \in step.samples \/ step.base[r] > 0 => step.tokens[r] > 0
<1>1. CASE steps' = steps /\ ~(tokens[r] > 0)
  BY <1>1 DEF Amounts
<1>2. ASSUME NEW step \in Output, steps' = Append(steps, step), step.tokens[r] = tokens[r],
             step.base[r] = base[r],
             step.drafts[r] = IF tokens[r] > 0 THEN DraftsOf(r) ELSE 0,
             r \in step.samples <=> Reaches(r)
      PROVE  /\ step.tokens[r] \in 0 .. Budget /\ step.drafts[r] \in 0 .. SpecTokens
             /\ step.base[r] \in 0 .. MaxTokens
             /\ r \in step.samples \/ step.base[r] > 0 => step.tokens[r] > 0
  <2>1. /\ step.tokens[r] \in 0 .. Budget /\ step.base[r] \in 0 .. MaxTokens
        /\ r \in step.samples \/ step.base[r] > 0 => step.tokens[r] > 0
    BY <1>2 DEF Amounts, Reaches
  <2>2. step.drafts[r] \in 0 .. SpecTokens
    <3>1. CASE tokens[r] > 0
      BY <1>2, <3>1, DraftsRange
    <3>2. CASE ~(tokens[r] > 0)
      BY <1>2, <3>2, LimitsAssumption
    <3> QED
      BY <3>1, <3>2
  <2> QED
    BY <2>1, <2>2
<1>3. \/ steps' = steps /\ ~(tokens[r] > 0)
      \/ \E step \in Output :
           /\ steps' = Append(steps, step)
           /\ step.tokens[r] = tokens[r] /\ step.base[r] = base[r]
           /\ step.drafts[r] = IF tokens[r] > 0 THEN DraftsOf(r) ELSE 0
           /\ r \in step.samples <=> Reaches(r)
  BY DEF Dispatched
<1>4. CASE \E step \in Output :
             /\ steps' = Append(steps, step)
             /\ step.tokens[r] = tokens[r] /\ step.base[r] = base[r]
             /\ step.drafts[r] = IF tokens[r] > 0 THEN DraftsOf(r) ELSE 0
             /\ r \in step.samples <=> Reaches(r)
  <2>1. PICK step \in Output :
          /\ steps' = Append(steps, step)
          /\ step.tokens[r] = tokens[r] /\ step.base[r] = base[r]
          /\ step.drafts[r] = IF tokens[r] > 0 THEN DraftsOf(r) ELSE 0
          /\ r \in step.samples <=> Reaches(r)
    BY <1>4
  <2>2. /\ step.tokens[r] \in 0 .. Budget /\ step.drafts[r] \in 0 .. SpecTokens
        /\ step.base[r] \in 0 .. MaxTokens
        /\ r \in step.samples \/ step.base[r] > 0 => step.tokens[r] > 0
    BY <2>1, <1>2
  <2> QED
    BY <2>1, <2>2
<1> QED
  BY <1>1, <1>3, <1>4

\* The tally of the tokens in flight is kept.
LEMMA TalliedStep ==
  ASSUME steps \in Seq(Output), NEW r \in Reqs, Typed(r), Typed(r)', Amounts(r), Placed(r),
         Fine(steps, r), Tallied(r), tokens[r] > 0 => status[r] = "running", Moved(r)
  PROVE  Tallied(r)'
<1> SUFFICES ASSUME status'[r] # "done"
             PROVE  /\ inFlight'[r] = Ahead(steps', r, Len(steps'))
                    /\ \E k \in 0 .. Len(steps') : stale'[r] = Ahead(steps', r, k)
                    /\ status'[r] # "running" => stale'[r] = inFlight'[r]
                    /\ status'[r] = "new" => inFlight'[r] = 0
                    /\ status'[r] \in {"loading", "running"} => ~(stale'[r] > 0 /\ ~drop'[r])
  BY DEF Tallied, Undrained
<1> DEFINE n == Len(steps)
<1>1. CASE Preempted(r)
  <2>1. n \in Nat /\ inFlight[r] = Ahead(steps, r, n)
    BY <1>1, TallyFacts DEF Preempted
  <2> QED
    BY <1>1, <2>1 DEF Preempted, StepsStay
<1>a. ASSUME StepsStay(r), CountStays(r), status[r] # "done",
             status'[r] # "running" => status[r] # "running" \/ stale[r] = inFlight[r],
             status'[r] = "new" => status[r] = "new",
             status'[r] \in {"loading", "running"} => ~Undrained(r)
      PROVE  Tallied(r)'
  BY <1>a DEF Tallied, StepsStay, CountStays, Undrained
<1>b. ASSUME Tallied(r)'
      PROVE  /\ inFlight'[r] = Ahead(steps', r, Len(steps'))
             /\ \E k \in 0 .. Len(steps') : stale'[r] = Ahead(steps', r, k)
             /\ status'[r] # "running" => stale'[r] = inFlight'[r]
             /\ status'[r] = "new" => inFlight'[r] = 0
             /\ status'[r] \in {"loading", "running"} => ~(stale'[r] > 0 /\ ~drop'[r])
  BY <1>b DEF Tallied, Undrained
<1>2. CASE Stays(r)
  BY <1>a, <1>b, <1>2 DEF Stays, Tallied
<1>3. CASE Allocated(r)
  BY <1>a, <1>b, <1>3 DEF Allocated, Tallied
<1>4. CASE Promoted(r)
  BY <1>a, <1>b, <1>4 DEF Promoted
<1>5. CASE LoadAsked(r)
  BY <1>a, <1>b, <1>5 DEF LoadAsked
<1>6. CASE Admitted(r)
  BY <1>a, <1>b, <1>6 DEF Admitted
<1>7. CASE Added(r)
  BY <1>a, <1>b, <1>7 DEF Added
<1>8. CASE Aborted(r)
  BY <1>a, <1>b, <1>8 DEF Aborted, Alive
<1>9. CASE Ended(r)
  BY <1>a, <1>b, <1>9 DEF Ended, Tallied
<1>10. CASE Dispatched(r)
  <2>1. /\ status'[r] = status[r] /\ stale'[r] = stale[r] /\ drop'[r] = drop[r]
        /\ inFlight'[r] = inFlight[r] + tokens[r] /\ status[r] # "done"
    BY <1>10 DEF Dispatched, CountStays
  <2>2. /\ n \in Nat /\ inFlight[r] = Ahead(steps, r, n) /\ inFlight[r] \in Nat
        /\ status[r] # "running" => stale[r] = inFlight[r]
        /\ status[r] = "new" => inFlight[r] = 0
        /\ status[r] \in {"loading", "running"} => ~(stale[r] > 0 /\ ~drop[r])
    BY <2>1, TallyFacts DEF Tallied, Undrained
  <2>3. tokens[r] \in Nat /\ (status[r] # "running" => tokens[r] = 0)
    BY LimitsAssumption DEF Amounts
  <2>4. PICK k \in 0 .. n : stale[r] = Ahead(steps, r, k)
    BY <2>1 DEF Tallied
  <2>5. CASE steps' = steps /\ tokens[r] = 0
    BY <2>1, <2>2, <2>4, <2>5
  <2>6. ASSUME NEW step \in Output, steps' = Append(steps, step), step.tokens[r] = tokens[r],
               step.tokens[r] \in 0 .. Budget, step.drafts[r] \in 0 .. SpecTokens,
               step.base[r] \in 0 .. MaxTokens,
               r \in step.samples \/ step.base[r] > 0 => step.tokens[r] > 0
        PROVE  /\ inFlight'[r] = Ahead(steps', r, Len(steps'))
               /\ \E j \in 0 .. Len(steps') : stale'[r] = Ahead(steps', r, j)
    <3>1. /\ Len(steps') = n + 1
          /\ \A i \in 0 .. n : Ahead(steps', r, i) = Ahead(steps, r, i)
          /\ Ahead(steps', r, n + 1) = Ahead(steps, r, n) + step.tokens[r]
      <4>1. Extended(steps, steps', step, r)
        BY <2>6, AheadMore
      <4> QED
        BY <4>1, Zenon DEF Extended
    <3>2. k \in 0 .. n + 1
      BY <2>2
    <3> QED
      BY <2>1, <2>2, <2>4, <2>6, <3>1, <3>2
  <2>7. /\ inFlight'[r] = Ahead(steps', r, Len(steps'))
        /\ \E j \in 0 .. Len(steps') : stale'[r] = Ahead(steps', r, j)
    BY <1>10, <2>1, <2>2, <2>4, <2>5, <2>6, DispatchedAhead
  <2> QED
    BY <2>1, <2>2, <2>3, <2>7
<1>11. ASSUME NEW a \in 0 .. SpecTokens, Heeded(r, a)
       PROVE  /\ inFlight'[r] = Ahead(steps', r, Len(steps'))
              /\ \E k \in 0 .. Len(steps') : stale'[r] = Ahead(steps', r, k)
              /\ status'[r] # "running" => stale'[r] = inFlight'[r]
              /\ status'[r] = "new" => inFlight'[r] = 0
              /\ status'[r] \in {"loading", "running"} => ~(stale'[r] > 0 /\ ~drop'[r])
  <2> DEFINE t == steps[1].tokens[r]
             m == Len(steps')
  <2>1. /\ steps # <<>> /\ steps' = Tail(steps) /\ drop'[r] = drop[r] /\ status'[r] = status[r]
        /\ inFlight'[r] = inFlight[r] - (IF t > 0 /\ status[r] \notin {"new", "done"} THEN t ELSE 0)
        /\ stale'[r] = stale[r] -
             (IF (t > 0 /\ status[r] \notin {"new", "done"}) /\ stale[r] > 0 THEN t ELSE 0)
    BY <1>11 DEF Heeded
  <2>2. /\ t \in Nat /\ t <= inFlight[r] /\ (stale[r] > 0 => t <= stale[r])
        /\ status[r] = "new" => t = 0
        /\ status[r] # "running" /\ stale[r] = 0 => t = 0
        /\ Ahead(steps, r, 1) = t
    BY <2>1, OldestFacts
  <2>3. /\ inFlight[r] = Ahead(steps, r, n) /\ inFlight[r] \in Nat /\ stale[r] \in Nat
        /\ status[r] # "running" => stale[r] = inFlight[r]
        /\ status[r] = "new" => inFlight[r] = 0
        /\ status[r] \in {"loading", "running"} => ~(stale[r] > 0 /\ ~drop[r])
    BY <2>1, TallyFacts DEF Tallied, Undrained
  <2>4. /\ m \in Nat /\ n = m + 1
        /\ \A i \in 0 .. m : Ahead(steps', r, i) = Ahead(steps, r, i + 1) - t
        /\ Ahead(steps, r, 0) = 0
    <3> HIDE DEF t, m, n
    <3>1. Shortened(steps, steps', r)
      BY <2>1, AheadTail
    <3>2. Ahead(steps, r, 0) = 0
      BY AheadFacts
    <3> QED
      BY <3>1, <3>2, Zenon DEF t, m, n, Shortened
  <2> HIDE DEF t, m, n
  <2>5. inFlight'[r] = inFlight[r] - t
    BY <2>1, <2>2, <2>3
  <2>6. stale'[r] = IF stale[r] > 0 THEN stale[r] - t ELSE stale[r]
    BY <2>1, <2>2, <2>3
  <2>7. inFlight'[r] = Ahead(steps', r, m)
    <3>1. m \in 0 .. m
      BY <2>4
    <3>2. Ahead(steps', r, m) = Ahead(steps, r, m + 1) - t
      BY <2>4, <3>1
    <3> QED
      BY <2>3, <2>4, <2>5, <3>2
  <2>8. \E k \in 0 .. m : stale'[r] = Ahead(steps', r, k)
    <3>1. CASE stale[r] > 0
      <4>1. PICK k \in 0 .. n : stale[r] = Ahead(steps, r, k)
        BY <2>1 DEF Tallied, n
      <4>2. k # 0
        BY <2>4, <3>1, <4>1
      <4>3. k - 1 \in 0 .. m /\ (k - 1) + 1 = k
        BY <2>4, <4>2
      <4>4. Ahead(steps', r, k - 1) = Ahead(steps, r, (k - 1) + 1) - t
        BY <2>4, <4>3
      <4> QED
        BY <2>6, <3>1, <4>1, <4>3, <4>4
    <3>2. CASE ~(stale[r] > 0)
      <4>1. 0 \in 0 .. m /\ 0 + 1 = 1
        BY <2>4
      <4>2. Ahead(steps', r, 0) = Ahead(steps, r, 0 + 1) - t
        BY <2>4, <4>1
      <4>3. stale'[r] = 0
        BY <2>3, <2>6, <3>2
      <4> QED
        BY <2>2, <4>1, <4>2, <4>3
    <3> QED
      BY <3>1, <3>2
  <2> QED
    BY <2>1, <2>2, <2>3, <2>5, <2>6, <2>7, <2>8 DEF m
<1> QED
  BY <1>1, <1>2, <1>3, <1>4, <1>5, <1>6, <1>7, <1>8, <1>9, <1>10, <1>11 DEF Moved

\* A load under way keeps its request and its blocks.
LEMMA LoadedStep ==
  ASSUME steps \in Seq(Output), NEW r \in Reqs, Typed(r), Typed(r)', Amounts(r), Fine(steps, r),
         Tallied(r), Loaded(r), r \in received => transfer[r] = "none", Moved(r)
  PROVE  Loaded(r)'
<1> SUFFICES ASSUME transfer'[r] # "none"
             PROVE  /\ status'[r] \in {"loading", "aborted"}
                    /\ Cardinality(blocks'[r]) >= Ceil(good'[r])
  BY DEF Loaded, Ceil
<1>a. ASSUME transfer[r] # "none"
      PROVE  status[r] \in {"loading", "aborted"} /\ Cardinality(blocks[r]) >= Ceil(good[r])
  BY <1>a DEF Loaded
<1>b. ASSUME transfer[r] # "none", good'[r] = good[r], blocks'[r] = blocks[r],
             status'[r] \in {"loading", "aborted"}
      PROVE  /\ status'[r] \in {"loading", "aborted"}
             /\ Cardinality(blocks'[r]) >= Ceil(good'[r])
  BY <1>a, <1>b
<1>1. CASE Stays(r)
  BY <1>a, <1>b, <1>1 DEF Stays, LoadStays
<1>2. CASE Allocated(r)
  BY <1>a, <1>2 DEF Allocated, LoadStays
<1>3. CASE Preempted(r)
  BY <1>a, <1>3 DEF Preempted, LoadStays
<1>4. CASE Promoted(r)
  BY <1>4 DEF Promoted, LoadStays
<1>5. CASE LoadAsked(r)
  BY <1>5 DEF LoadAsked
<1>6. CASE Admitted(r)
  BY <1>a, <1>6 DEF Admitted, LoadStays
<1>7. CASE Added(r)
  BY <1>a, <1>7 DEF Added, LoadStays
<1>8. CASE Aborted(r)
  <2>1. /\ transfer[r] # "none" /\ good'[r] = good[r] /\ Alive(r)
        /\ \/ status'[r] = "aborted" /\ blocks'[r] = blocks[r]
           \/ status'[r] = "done" /\ (status[r] = "loading" => r \in received)
    BY <1>8 DEF Aborted, LoadStays
  <2>2. status[r] = "loading" /\ r \notin received
    BY <1>a, <2>1 DEF Alive
  <2> QED
    BY <1>b, <2>1, <2>2
<1>9. CASE Ended(r)
  <2>1. /\ transfer[r] # "none" /\ good'[r] \in 0 .. good[r] /\ status'[r] = status[r]
        /\ blocks'[r] = blocks[r]
    BY <1>9 DEF Ended
  <2>2. status[r] \in {"loading", "aborted"} /\ Cardinality(blocks[r]) >= Ceil(good[r])
    BY <1>a, <2>1
  <2>3. good'[r] \in Nat /\ good[r] \in Nat /\ good'[r] <= good[r] /\ Cardinality(blocks[r]) \in Nat
    BY <2>1 DEF Typed
  <2>4. Ceil(good'[r]) \in Nat /\ Ceil(good[r]) \in Nat /\ Ceil(good'[r]) <= Ceil(good[r])
    BY <2>3, CeilGrows
  <2> QED
    BY <2>1, <2>2, <2>3, <2>4
<1>10. CASE Dispatched(r)
  BY <1>a, <1>b, <1>10 DEF Dispatched
<1>11. ASSUME NEW a \in 0 .. SpecTokens, Heeded(r, a)
       PROVE  /\ status'[r] \in {"loading", "aborted"}
              /\ Cardinality(blocks'[r]) >= Ceil(good'[r])
  <2>1. /\ transfer'[r] = IF transfer[r] = "ended" THEN "none" ELSE transfer[r]
        /\ good'[r] = good[r] /\ steps # <<>>
        /\ \/ status'[r] = status[r] /\ blocks'[r] = blocks[r]
           \/ status'[r] = "done" /\ (Heard(r) \/ transfer[r] = "ended")
    BY <1>11 DEF Heeded
  <2>2. transfer[r] # "none" /\ transfer[r] # "ended"
    BY <2>1
  <2>3. status[r] \in {"loading", "aborted"}
    BY <1>a, <2>2
  <2>4. ~Heard(r)
    <3> SUFFICES ASSUME Heard(r) PROVE FALSE
      OBVIOUS
    <3>1. status[r] = "loading" /\ steps[1].tokens[r] > 0 /\ ~(stale[r] > 0 /\ drop[r])
      BY <2>3 DEF Heard, Alive
    <3>2. stale[r] \in Nat /\ ~Undrained(r)
      BY <3>1, TallyFacts
    <3>3. stale[r] = 0
      BY <3>1, <3>2 DEF Undrained
    <3>4. steps[1].tokens[r] = 0
      BY <2>1, <3>1, <3>3, OldestFacts
    <3> QED
      BY <3>1, <3>4
  <2> QED
    BY <1>b, <2>1, <2>2, <2>3, <2>4
<1> QED
  BY <1>1, <1>2, <1>3, <1>4, <1>5, <1>6, <1>7, <1>8, <1>9, <1>10, <1>11 DEF Moved

\* The placeholders are still what the steps in flight promise.
LEMMA PromisedStep ==
  ASSUME steps \in Seq(Output), NEW r \in Reqs, Typed(r), Typed(r)', Amounts(r), Placed(r),
         Fine(steps, r), Tallied(r), Promised(r), Moved(r)
  PROVE  Promised(r)'
<1> SUFFICES ASSUME status'[r] \in {"waiting", "loading", "running"}
             PROVE  placeholders'[r] = Pledged(steps', r, stale'[r])
  BY DEF Promised, Alive
<1>a. ASSUME Alive(r), StepsStay(r), CountStays(r), placeholders'[r] = placeholders[r]
      PROVE  placeholders'[r] = Pledged(steps', r, stale'[r])
  BY <1>a DEF Promised, StepsStay, CountStays
<1>1. CASE Stays(r)
  BY <1>a, <1>1 DEF Stays, Alive, PlaceStays
<1>2. CASE Allocated(r)
  BY <1>a, <1>2 DEF Allocated, Alive, PlaceStays
<1>3. CASE Preempted(r)
  <2>1. /\ placeholders'[r] = 0 /\ stale'[r] = inFlight[r] /\ steps' = steps /\ status[r] = "running"
    BY <1>3 DEF Preempted, StepsStay
  <2>2. inFlight[r] = Ahead(steps, r, Len(steps)) /\ Len(steps) \in Nat /\ inFlight[r] \in Nat
    BY <2>1, TallyFacts
  <2>3. /\ \A i \in 0 .. Len(steps) : Ahead(steps, r, i) \in Nat
        /\ \A j \in 0 .. Len(steps) : \A i \in 0 .. j : Ahead(steps, r, i) <= Ahead(steps, r, j)
    BY AheadFacts
  <2>4. \A i \in 1 .. Len(steps) : ~(Ahead(steps, r, i) > inFlight[r])
    <3>1. Len(steps) \in 0 .. Len(steps) /\ \A i \in 1 .. Len(steps) : i \in 0 .. Len(steps)
      BY <2>2
    <3> QED
      BY <2>2, <2>3, <3>1
  <2>5. Pledged(steps, r, inFlight[r]) = 0
    BY <2>4, PledgedFacts
  <2> QED
    BY <2>1, <2>5
<1>4. CASE Promoted(r)
  BY <1>a, <1>4 DEF Promoted, Alive
<1>5. CASE LoadAsked(r)
  BY <1>a, <1>5 DEF LoadAsked, Alive
<1>6. CASE Admitted(r)
  BY <1>a, <1>6 DEF Admitted, Alive, PlaceStays
<1>7. CASE Added(r)
  <2>1. /\ status[r] = "new" /\ steps' = steps /\ stale'[r] = stale[r]
        /\ placeholders'[r] = placeholders[r]
    BY <1>7 DEF Added, StepsStay, CountStays, PlaceStays
  <2>2. placeholders[r] = 0 /\ inFlight[r] = 0
    BY <2>1 DEF Placed, Tallied
  <2>3. stale[r] = 0 /\ \A i \in 1 .. Len(steps) : ~(steps[i].tokens[r] > 0)
    <3>1. stale[r] \in Nat /\ stale[r] <= inFlight[r]
      BY <2>1, TallyFacts
    <3>2. ASSUME NEW i \in 1 .. Len(steps), steps[i].tokens[r] > 0 PROVE FALSE
      <4>1. Ahead(steps, r, i) > 0 /\ Ahead(steps, r, i) <= inFlight[r]
        BY <2>1, <3>2, TallyFacts
      <4>2. i \in 0 .. Len(steps) /\ Ahead(steps, r, i) \in Nat
        BY AheadFacts
      <4> QED
        BY <2>2, <4>1, <4>2
    <3> QED
      BY <2>2, <3>1, <3>2
  <2>4. \A i \in 1 .. Len(steps) : ~(r \in steps[i].samples)
    BY <2>3 DEF Fine
  <2>5. \A i \in 1 .. Len(steps) : ~(Ahead(steps, r, i) > stale[r])
    <3>1. /\ Len(steps) \in Nat
          /\ \A i \in 0 .. Len(steps) : Ahead(steps, r, i) \in Nat
          /\ \A j \in 0 .. Len(steps) : \A i \in 0 .. j : Ahead(steps, r, i) <= Ahead(steps, r, j)
      BY AheadFacts
    <3>2. Ahead(steps, r, Len(steps)) = 0
      BY <2>1, <2>2, TallyFacts
    <3>3. Len(steps) \in 0 .. Len(steps) /\ \A i \in 1 .. Len(steps) : i \in 0 .. Len(steps)
      BY <3>1
    <3>4. \A i \in 1 .. Len(steps) : Ahead(steps, r, i) \in Nat /\ Ahead(steps, r, i) <= 0
      BY <3>1, <3>2, <3>3
    <3> QED
      BY <2>3, <3>4
  <2>6. Pledged(steps, r, stale[r]) = 0
    BY <2>5, PledgedFacts
  <2> QED
    BY <2>1, <2>2, <2>6
<1>8. CASE Aborted(r)
  BY <1>8 DEF Aborted
<1>9. CASE Ended(r)
  BY <1>a, <1>9 DEF Ended, Alive, PlaceStays
<1>10. CASE Dispatched(r)
  <2>1. /\ Alive(r) /\ stale'[r] = stale[r] /\ status[r] # "done"
        /\ placeholders'[r] = IF Reaches(r) THEN placeholders[r] + 1 + DraftsOf(r) ELSE placeholders[r]
    BY <1>10 DEF Dispatched, CountStays, Alive
  <2>2. placeholders[r] = Pledged(steps, r, stale[r])
    BY <2>1 DEF Promised
  <2>3. CASE steps' = steps /\ tokens[r] = 0
    BY <2>1, <2>2, <2>3 DEF Reaches
  <2>4. ASSUME NEW step \in Output, steps' = Append(steps, step), step.tokens[r] = tokens[r],
               step.drafts[r] = IF tokens[r] > 0 THEN DraftsOf(r) ELSE 0,
               r \in step.samples <=> Reaches(r),
               step.tokens[r] \in 0 .. Budget, step.drafts[r] \in 0 .. SpecTokens,
               step.base[r] \in 0 .. MaxTokens,
               r \in step.samples \/ step.base[r] > 0 => step.tokens[r] > 0
        PROVE  placeholders'[r] = Pledged(steps', r, stale'[r])
    <3>1. Extended(steps, steps', step, r)
      BY <2>4, AheadMore
    <3>2. Pledged(steps', r, stale[r]) = Pledged(steps, r, stale[r]) +
            (IF r \in step.samples /\ Ahead(steps, r, Len(steps)) + step.tokens[r] > stale[r]
               THEN 1 + step.drafts[r] ELSE 0)
      BY <3>1, Zenon DEF Extended
    <3>3. stale[r] \in Nat /\ inFlight[r] \in Nat /\ stale[r] <= inFlight[r] /\ inFlight[r] = Ahead(steps, r, Len(steps))
      BY <2>1, TallyFacts
    <3>4. CASE r \in step.samples
      <4>1. tokens[r] > 0 /\ tokens[r] \in Nat /\ step.tokens[r] = tokens[r] /\ step.drafts[r] = DraftsOf(r) /\ Reaches(r)
        BY <2>4, <3>4 DEF Reaches
      <4>2. Pledged(steps', r, stale[r]) = Pledged(steps, r, stale[r]) + (1 + DraftsOf(r))
        BY <3>2, <3>3, <3>4, <4>1
      <4>3. placeholders[r] \in Int /\ DraftsOf(r) \in Int
        BY <2>4, <4>1 DEF Typed
      <4> QED
        BY <2>1, <2>2, <4>1, <4>2, <4>3
    <3>5. CASE r \notin step.samples
      <4>1. placeholders[r] \in Int
        BY DEF Typed
      <4> QED
        BY <2>1, <2>2, <2>4, <3>2, <3>5, <4>1
    <3> QED
      BY <3>4, <3>5
  <2> QED
    BY <1>10, <2>3, <2>4, DispatchedAhead
<1>11. ASSUME NEW a \in 0 .. SpecTokens, Heeded(r, a), a <= steps[1].drafts[r]
       PROVE  placeholders'[r] = Pledged(steps', r, stale'[r])
  <2> DEFINE t == steps[1].tokens[r]
             d == steps[1].drafts[r]
             new == IF Heard(r) THEN Least(1 + a, MaxOut - out[r]) ELSE 0
             rest == Pledged(steps', r, stale'[r])
  <2>1. /\ steps # <<>> /\ steps' = Tail(steps) /\ status'[r] = status[r]
        /\ stale'[r] = stale[r] -
             (IF (t > 0 /\ status[r] \notin {"new", "done"}) /\ stale[r] > 0 THEN t ELSE 0)
        /\ placeholders'[r] = IF Heard(r) /\ ~(stale[r] > 0) /\ placeholders[r] > 0
                                THEN placeholders[r] - (d - a) - new ELSE placeholders[r]
        /\ Heard(r) => out[r] + new # MaxOut
    BY <1>11 DEF Heeded
  <2>2. Alive(r) /\ status[r] # "done" /\ status[r] \notin {"new", "done"}
    BY <2>1 DEF Alive
  <2>3. placeholders[r] = Pledged(steps, r, stale[r]) /\ placeholders[r] \in Int
    BY <2>2 DEF Promised, Typed
  <2>4. t \in Nat /\ (stale[r] > 0 => t <= stale[r]) /\ 1 \in 1 .. Len(steps)
    BY <2>1, <2>2, OldestFacts
  <2>5. stale[r] \in Nat
    BY <2>2, TallyFacts
  <2>6. /\ d \in 0 .. SpecTokens /\ (r \in steps[1].samples => t > 0)
    BY <2>4 DEF Fine
  <2>7. Shortened(steps, steps', r)
    BY <2>1, AheadTail
  <2>8. /\ Pledged(steps, r, 0) = Pledged(steps', r, 0) + (IF r \in steps[1].samples THEN 1 + d ELSE 0)
        /\ \A q \in Nat : t <= q => Pledged(steps, r, q) = Pledged(steps', r, q - t)
        /\ steps' \in Seq(Output) /\ Fine(steps', r)
    BY <2>7 DEF Shortened
  <2>9. Len(steps') \in Nat /\ SpecTokens \in Nat /\ rest \in 0 .. Len(steps') * (SpecTokens + 1)
    BY <2>8, PledgedFacts, LimitsAssumption, AheadFacts
  <2>10. rest \in Nat
    BY <2>9
  <2>11. Heard(r) => new = 1 + a
    <3>1. out[r] \in 0 .. MaxOut /\ MaxOut \in Nat
      BY RequestsAssumption DEF Amounts
    <3> HIDE DEF Heard
    <3> QED
      BY <2>1, <3>1 DEF Least
  <2>12. CASE stale[r] > 0
    <3>1. stale'[r] = stale[r] - t
      BY <2>1, <2>2, <2>4, <2>5, <2>12
    <3>2. Pledged(steps, r, stale[r]) = Pledged(steps', r, stale[r] - t)
      BY <2>4, <2>5, <2>8, <2>12
    <3> QED
      BY <2>1, <2>3, <2>12, <3>1, <3>2
  <2>13. CASE ~(stale[r] > 0)
    <3>1. stale[r] = 0 /\ stale'[r] = 0
      BY <2>1, <2>5, <2>13
    <3>2. Heard(r) <=> r \in steps[1].samples
      BY <2>2, <2>6, <2>13 DEF Heard
    <3>3. placeholders[r] = rest + (IF r \in steps[1].samples THEN 1 + d ELSE 0)
      BY <2>3, <2>8, <3>1
    <3> HIDE DEF t, d, new, rest, Heard
    <3>4. CASE Heard(r)
      <4>1. placeholders[r] = rest + (1 + d) /\ d \in Nat
        BY <2>6, <3>2, <3>3, <3>4
      <4>2. placeholders[r] > 0
        BY <2>10, <4>1
      <4>3. placeholders'[r] = placeholders[r] - (d - a) - (1 + a)
        BY <2>1, <2>11, <2>13, <3>4, <4>2
      <4>4. placeholders'[r] = rest
        BY <2>10, <4>1, <4>3
      <4> QED
        BY <4>4 DEF rest
    <3>5. CASE ~Heard(r)
      <4>1. placeholders[r] = rest
        BY <2>10, <3>2, <3>3, <3>5
      <4> QED
        BY <2>1, <3>5, <4>1 DEF rest
    <3> QED
      BY <3>4, <3>5
  <2> QED
    BY <2>12, <2>13
<1> QED
  BY <1>1, <1>2, <1>3, <1>4, <1>5, <1>6, <1>7, <1>8, <1>9, <1>10, <1>11 DEF Moved

\* A request that does not run has no placeholders.
LEMMA AtRest ==
  ASSUME steps \in Seq(Output), NEW r \in Reqs, Typed(r), Fine(steps, r), Tallied(r), Promised(r),
         Alive(r), status[r] # "running"
  PROVE  placeholders[r] = 0 /\ \A i \in 1 .. Len(steps) : ~(Ahead(steps, r, i) > stale[r])
<1>1. status[r] # "done"
  BY DEF Alive
<1>2. /\ stale[r] = inFlight[r] /\ inFlight[r] = Ahead(steps, r, Len(steps)) /\ inFlight[r] \in Nat
      /\ Len(steps) \in Nat
  BY <1>1, TallyFacts
<1>3. /\ \A i \in 0 .. Len(steps) : Ahead(steps, r, i) \in Nat
      /\ \A j \in 0 .. Len(steps) : \A i \in 0 .. j : Ahead(steps, r, i) <= Ahead(steps, r, j)
  BY AheadFacts
<1>4. \A i \in 1 .. Len(steps) : ~(Ahead(steps, r, i) > stale[r])
  <2>1. Len(steps) \in 0 .. Len(steps) /\ \A i \in 1 .. Len(steps) : i \in 0 .. Len(steps)
    BY <1>2
  <2> QED
    BY <1>2, <1>3, <2>1
<1>5. Pledged(steps, r, stale[r]) = 0
  BY <1>4, PledgedFacts
<1> QED
  BY <1>4, <1>5 DEF Promised

\* The computed tokens stay where they may be, whatever becomes of the request
\* while the steps in flight stay.
LEMMA PlacedKept ==
  ASSUME steps \in Seq(Output), NEW r \in Reqs, Typed(r), Typed(r)', Amounts(r), Fine(steps, r),
         Tallied(r), Promised(r), Placed(r), tokens[r] > 0 => status[r] = "running",
         r \in received => status[r] = "loading",
         \/ Stays(r) \/ Allocated(r) \/ Preempted(r) \/ Promoted(r) \/ LoadAsked(r)
         \/ Admitted(r) \/ Added(r) \/ Aborted(r) \/ Ended(r)
  PROVE  Placed(r)'
<1>1. StepsStay(r)
  BY StepsKept
<1>2. NumTokens(r)' = NumTokens(r) /\ chunk'[r] = chunk[r] /\ NumTokens(r) \in Nat /\ NumTokens(r) >= 1
  <2>1. NumTokens(r) \in Nat /\ NumTokens(r) >= 1
    <3>1. out[r] \in 0 .. MaxOut /\ Prompt[r] \in Nat \ {0} /\ NumTokens(r) = Prompt[r] + out[r]
      BY DEF Typed, Amounts
    <3> QED
      BY <3>1
  <2>2. out'[r] = out[r] /\ chunk'[r] = chunk[r]
    BY <1>1, Zenon DEF StepsStay
  <2> QED
    BY <2>1, <2>2 DEF NumTokens
<1>3. /\ computed[r] \in Int /\ placeholders[r] \in Int /\ tokens[r] \in Nat /\ base[r] \in Nat
      /\ computed'[r] \in Int
  BY DEF Typed, Amounts
<1>4. /\ r \in failed => status[r] = "loading"
      /\ r \in pad => base[r] > 0 /\ tokens[r] > 0 /\ status[r] = "running"
      /\ base[r] > 0 => tokens[r] > 0
  BY DEF Placed, Amounts
<1> DEFINE N == NumTokens(r)
<1> HIDE DEF N
<1>5. CASE Stays(r)
  <2>1. /\ status'[r] = status[r] /\ PlaceStays(r) /\ ShareStays(r) /\ ReportStays(r)
    BY <1>5 DEF Stays
  <2>2. Behind(r)' = Behind(r)
    BY <1>2, <2>1 DEF Behind, Drafts, PlaceStays
  <2> HIDE DEF Behind
  <2> QED
    BY <1>2, <2>1, <2>2 DEF Placed, PlaceStays, ShareStays, ReportStays
<1>6. CASE Allocated(r)
  <2>1. Behind(r)' = Behind(r)
    BY <1>2, <1>6 DEF Behind, Drafts, PlaceStays, Allocated
  <2>2. /\ status[r] = "running" /\ status'[r] = "running" /\ base[r] = 0 /\ base'[r] = 0
        /\ r \notin pad' /\ tokens'[r] <= Behind(r) /\ r \notin failed'
        /\ computed'[r] = computed[r] /\ placeholders'[r] = placeholders[r]
    BY <1>4, <1>6 DEF Allocated, Idle, PlaceStays, ReportStays
  <2> HIDE DEF Behind
  <2> QED
    BY <1>2, <2>1, <2>2 DEF Placed
<1>7. CASE Preempted(r)
  <2>1. /\ status'[r] = "waiting" /\ computed'[r] = 0 /\ tokens'[r] = 0 /\ r \notin pad'
        /\ r \notin failed'
    BY <1>4, <1>7 DEF Preempted, Idle, ShareStays, ReportStays
  <2> QED
    BY <1>2, <2>1 DEF Placed
<1>8. CASE Promoted(r)
  <2>1. /\ status[r] = "loading" /\ status'[r] = "waiting" /\ tokens'[r] = 0 /\ r \notin pad'
        /\ r \notin failed'
        /\ IF r \in failed THEN computed'[r] = computed[r]
                           ELSE computed'[r] = Least(computed[r], NumTokens(r) - 1)
    BY <1>3, <1>4, <1>8 DEF Promoted, ShareStays
  <2>2. computed[r] \in 0 .. NumTokens(r) /\ (r \in failed => computed[r] < NumTokens(r))
    BY <2>1 DEF Placed
  <2>3. computed'[r] \in 0 .. NumTokens(r) - 1
    BY <1>2, <1>3, <2>1, <2>2 DEF Least
  <2> QED
    BY <1>2, <2>1, <2>3 DEF Placed
<1>9. CASE LoadAsked(r)
  <2>1. /\ status[r] = "waiting" /\ status'[r] = "loading" /\ tokens'[r] = 0 /\ r \notin pad'
        /\ r \notin failed' /\ computed'[r] \in 1 .. NumTokens(r)
    BY <1>3, <1>4, <1>9 DEF LoadAsked, ShareStays, ReportStays
  <2> QED
    BY <1>2, <2>1 DEF Placed
<1>10. CASE Admitted(r)
  <2>1. /\ status[r] = "waiting" /\ status'[r] = "running" /\ r \notin failed'
        /\ computed'[r] = computed[r] /\ placeholders'[r] = placeholders[r]
        /\ base'[r] = NumTokens(r)
        /\ IF r \in pad' THEN tokens'[r] = 1 + SpecTokens /\ NumTokens(r) - computed[r] = 1
                         ELSE tokens'[r] <= NumTokens(r) - computed[r]
    BY <1>4, <1>10 DEF Admitted, PlaceStays, ReportStays
  <2>2. placeholders[r] = 0 /\ computed[r] \in 0 .. NumTokens(r) - 1
    BY <2>1, AtRest DEF Alive, Placed
  <2>3. base'[r] > 0 /\ base'[r] # 0
    BY <1>2, <2>1
  <2> QED
    BY <1>2, <2>1, <2>2, <2>3 DEF Placed
<1>11. CASE Added(r)
  <2>1. /\ status[r] = "new" /\ status'[r] = "waiting" /\ tokens'[r] = 0 /\ r \notin pad'
        /\ r \notin failed' /\ computed'[r] = computed[r]
    BY <1>4, <1>11 DEF Added, Idle, ShareStays, ReportStays, PlaceStays
  <2>2. computed[r] = 0
    BY <2>1 DEF Placed
  <2> QED
    BY <1>2, <2>1, <2>2 DEF Placed
<1>12. CASE Aborted(r)
  <2>1. /\ status'[r] \in {"aborted", "done"} /\ tokens'[r] = 0 /\ r \notin pad' /\ r \notin failed'
    BY <1>4, <1>12 DEF Aborted, Idle, ShareStays
  <2> QED
    BY <2>1 DEF Placed
<1>13. CASE Ended(r)
  <2>1. /\ status'[r] = status[r] /\ PlaceStays(r) /\ ShareStays(r) /\ ReportStays(r) /\ Idle(r)
    BY <1>13 DEF Ended
  <2>2. Behind(r)' = Behind(r)
    BY <1>2, <2>1 DEF Behind, Drafts, PlaceStays
  <2> HIDE DEF Behind
  <2> QED
    BY <1>2, <2>1, <2>2 DEF Placed, PlaceStays, ShareStays, ReportStays
<1> QED
  BY <1>5, <1>6, <1>7, <1>8, <1>9, <1>10, <1>11, <1>12, <1>13

\* The same when the turn ends: the tokens go up to the last one, and past it by
\* the drafts.
LEMMA PlacedDispatched ==
  ASSUME NEW r \in Reqs, Typed(r), Typed(r)', Amounts(r), Placed(r),
         tokens[r] > 0 => status[r] = "running", r \in received => status[r] = "loading",
         Dispatched(r)
  PROVE  Placed(r)'
<1>1. /\ status'[r] = status[r] /\ (r \in received' <=> r \in received)
      /\ (r \in failed' <=> r \in failed) /\ NumTokens(r)' = NumTokens(r)
      /\ computed'[r] = computed[r] + tokens[r]
      /\ chunk'[r] = IF tokens[r] > 0 THEN ~Reaches(r) ELSE chunk[r]
      /\ placeholders'[r] = IF Reaches(r) THEN placeholders[r] + 1 + DraftsOf(r) ELSE placeholders[r]
      /\ tokens'[r] = 0 /\ base'[r] = 0 /\ r \notin pad'
  BY DEF Dispatched, ReportStays, NumTokens
<1>2. /\ computed[r] \in Int /\ placeholders[r] \in Int /\ tokens[r] \in Nat /\ base[r] \in Nat
      /\ NumTokens(r) \in Nat /\ NumTokens(r) >= 1 /\ SpecTokens \in Nat /\ chunk[r] \in BOOLEAN
  BY LimitsAssumption DEF Typed, Amounts
<1>3. /\ r \in failed => status[r] = "loading"
      /\ r \in pad => base[r] > 0
      /\ base[r] > 0 => tokens[r] > 0
  BY DEF Placed, Amounts
<1>a. ASSUME status[r] = "running" =>
               IF chunk'[r] THEN computed'[r] \in 0 .. NumTokens(r) - 1 /\ placeholders'[r] = 0
                 ELSE placeholders'[r] >= 0 /\ computed'[r] = NumTokens(r) + placeholders'[r] - 1,
             status[r] # "running" => computed'[r] = computed[r] /\ placeholders'[r] = placeholders[r]
      PROVE  Placed(r)'
  BY <1>1, <1>3, <1>a DEF Placed
<1>4. CASE tokens[r] = 0
  <2>1. /\ computed'[r] = computed[r] /\ placeholders'[r] = placeholders[r] /\ chunk'[r] = chunk[r]
        /\ base[r] = 0
    BY <1>1, <1>2, <1>3, <1>4 DEF Reaches
  <2> QED
    BY <1>a, <1>2, <2>1 DEF Placed
<1>5. CASE tokens[r] > 0
  <2>1. status[r] = "running"
    BY <1>5
  <2>2. IF base[r] > 0 \/ chunk[r]
          THEN computed[r] \in 0 .. NumTokens(r) - 1 /\ placeholders[r] = 0
          ELSE placeholders[r] >= 0 /\ computed[r] = NumTokens(r) + placeholders[r] - 1
    BY <2>1 DEF Placed
  <2>3. IF base[r] = 0 THEN tokens[r] <= Behind(r)
        ELSE IF r \in pad THEN tokens[r] = 1 + SpecTokens /\ NumTokens(r) - computed[r] = 1
        ELSE tokens[r] <= NumTokens(r) - computed[r]
    BY <1>5 DEF Placed
  <2>4. Reaches(r) <=> computed[r] + tokens[r] >= NumTokens(r) + placeholders[r]
    BY <1>5 DEF Reaches
  <2>5. chunk'[r] = ~Reaches(r)
    BY <1>1, <1>5, Zenon
  <2> DEFINE N == NumTokens(r)
             whole == placeholders'[r] >= 0 /\ computed'[r] = N + placeholders'[r] - 1
             part == computed'[r] \in 0 .. N - 1 /\ placeholders'[r] = 0
  <2>b. ASSUME Reaches(r), whole PROVE Placed(r)'
    <3>1. ~chunk'[r]
      BY <2>5, <2>b, Zenon
    <3> QED
      BY <1>a, <2>1, <2>b, <3>1
  <2>c. ASSUME ~Reaches(r), part PROVE Placed(r)'
    <3>1. chunk'[r]
      BY <2>5, <2>c, Zenon
    <3> QED
      BY <1>a, <2>1, <2>c, <3>1
  <2>6. CASE r \in pad
    <3>1. DraftsOf(r) = SpecTokens /\ base[r] > 0
      BY <1>3, <2>6 DEF DraftsOf
    <3>2. placeholders[r] = 0 /\ tokens[r] = 1 + SpecTokens /\ N - computed[r] = 1
      BY <1>2, <2>2, <2>3, <2>6, <3>1
    <3>3. Reaches(r)
      BY <1>2, <2>4, <3>2
    <3>4. placeholders'[r] = 1 + SpecTokens /\ computed'[r] = N + SpecTokens
      BY <1>1, <1>2, <3>1, <3>2, <3>3
    <3>5. whole
      BY <1>2, <3>4
    <3> QED
      BY <2>b, <3>3, <3>5
  <2>7. CASE r \notin pad /\ (base[r] > 0 \/ chunk[r])
    <3>1. DraftsOf(r) = 0
      BY <2>7 DEF DraftsOf, Drafts
    <3>2. placeholders[r] = 0 /\ computed[r] \in 0 .. N - 1
      BY <2>2, <2>7
    <3>3. Drafts(r) = 0
      BY <3>2 DEF Drafts
    <3>4. tokens[r] <= N - computed[r]
      BY <1>2, <2>3, <2>7, <3>2, <3>3 DEF Behind
    <3>5. CASE Reaches(r)
      <4>1. placeholders'[r] = 1 /\ computed'[r] = N
        BY <1>1, <1>2, <2>4, <3>1, <3>2, <3>4, <3>5
      <4>2. whole
        BY <1>2, <4>1
      <4> QED
        BY <2>b, <3>5, <4>2
    <3>6. CASE ~Reaches(r)
      <4>1. placeholders'[r] = 0 /\ computed'[r] \in 0 .. N - 1
        BY <1>1, <1>2, <2>4, <3>2, <3>4, <3>6
      <4> QED
        BY <2>c, <3>6, <4>1
    <3> QED
      BY <3>5, <3>6
  <2>8. CASE r \notin pad /\ base[r] = 0 /\ ~chunk[r]
    <3>1. placeholders[r] >= 0 /\ computed[r] = N + placeholders[r] - 1
      BY <1>2, <2>2, <2>8
    <3>2. tokens[r] <= Behind(r)
      BY <2>3, <2>8
    <3>3. Reaches(r)
      BY <1>2, <1>5, <2>4, <3>1
    <3>4. DraftsOf(r) = tokens[r] - 1
      <4>1. Drafts(r) \in Nat /\ Behind(r) = Drafts(r) + 1
        <5>1. Drafts(r) \in Nat
          BY <1>2 DEF Drafts
        <5> QED
          BY <1>2, <3>1, <5>1 DEF Behind
      <4>2. CASE Drafts(r) = 0
        <5>1. DraftsOf(r) = 0
          BY <2>8, <4>2 DEF DraftsOf
        <5> QED
          BY <1>2, <1>5, <3>2, <4>1, <4>2, <5>1
      <4>3. CASE Drafts(r) # 0
        <5>1. DraftsOf(r) = IF tokens[r] + computed[r] > N + placeholders[r]
                            THEN tokens[r] + computed[r] - N - placeholders[r] ELSE 0
          <6>1. ~(base[r] > 0 \/ Drafts(r) = 0)
            BY <2>8, <4>3, <1>2
          <6> HIDE DEF Drafts
          <6> QED
            BY <2>8, <6>1, <1>2 DEF DraftsOf
        <5> QED
          BY <1>2, <1>5, <3>1, <5>1
      <4> QED
        BY <4>2, <4>3
    <3>5. placeholders'[r] = placeholders[r] + tokens[r] /\ computed'[r] = N + placeholders'[r] - 1
      BY <1>1, <1>2, <3>1, <3>3, <3>4
    <3>6. whole
      BY <1>2, <1>5, <3>1, <3>5
    <3> QED
      BY <2>b, <3>3, <3>6
  <2> QED
    BY <1>2, <2>6, <2>7, <2>8
<1> QED
  BY <1>2, <1>4, <1>5

\* With e drafts of which b are accepted, the computed tokens and the placeholders
\* lose the same number.
LEMMA TakenBack ==
  ASSUME NEW n \in Int, NEW p \in Int, NEW e \in Int, NEW b \in Int, NEW m, NEW o, NEW c,
         p >= 1 + e, m = n + (1 + b), o = p - (e - b) - (1 + b), c = (n + p - 1) - (e - b)
  PROVE  o >= 0 /\ c = m + o - 1
OBVIOUS

\* The same when the oldest step is taken back: the drafts that are not accepted
\* leave the computed tokens and the placeholders.
LEMMA PlacedHeeded ==
  ASSUME steps \in Seq(Output), NEW r \in Reqs, Typed(r), Typed(r)', Amounts(r), Amounts(r)',
         Fine(steps, r), Tallied(r), Promised(r), Placed(r),
         r \in received => status[r] = "loading" /\ transfer[r] = "none",
         NEW a \in 0 .. SpecTokens, Heeded(r, a), a <= steps[1].drafts[r]
  PROVE  Placed(r)'
<1> DEFINE t == steps[1].tokens[r]
           d == steps[1].drafts[r]
           new == IF Heard(r) THEN Least(1 + a, MaxOut - out[r]) ELSE 0
<1>1. /\ steps # <<>> /\ steps' = Tail(steps) /\ Idle(r)
      /\ out'[r] = out[r] + new
      /\ computed'[r] = IF Refused(r) THEN good[r]
                        ELSE IF Heard(r) /\ ~(stale[r] > 0) /\ computed[r] > 0
                          THEN computed[r] - (d - a) ELSE computed[r]
      /\ placeholders'[r] = IF Heard(r) /\ ~(stale[r] > 0) /\ placeholders[r] > 0
                              THEN placeholders[r] - (d - a) - new ELSE placeholders[r]
      /\ ShareStays(r)
      /\ r \in received => r \in received'
      /\ r \in failed' => \/ r \in failed
                          \/ r \in received' /\ Refused(r)
  BY DEF Heeded
<1>2. /\ chunk'[r] = chunk[r]
      /\ \/ status'[r] = status[r] /\ (Heard(r) => out[r] + new # MaxOut)
         \/ status'[r] = "done"
  BY DEF Heeded
<1>3. /\ tokens'[r] = 0 /\ base'[r] = 0 /\ r \notin pad' /\ base[r] = 0
  BY <1>1 DEF Idle, ShareStays
<1>4. /\ NumTokens(r) \in Nat /\ NumTokens(r) >= 1 /\ computed[r] \in Int /\ placeholders[r] \in Int
      /\ new \in Nat /\ NumTokens(r)' = NumTokens(r) + new /\ out[r] \in 0 .. MaxOut /\ MaxOut \in Nat
      /\ good[r] \in Nat /\ stale[r] \in Int
  <2>1. /\ out[r] \in 0 .. MaxOut /\ Prompt[r] \in Nat \ {0} /\ NumTokens(r) = Prompt[r] + out[r]
        /\ MaxOut \in Nat
    BY RequestsAssumption DEF Typed, Amounts
  <2>2. NumTokens(r)' = Prompt[r] + out'[r]
    BY DEF NumTokens
  <2>3. new \in Nat
    BY <2>1 DEF Least
  <2>4. NumTokens(r) \in Nat /\ NumTokens(r) >= 1 /\ NumTokens(r)' = NumTokens(r) + new
    BY <1>1, <2>1, <2>2, <2>3
  <2> HIDE DEF new
  <2> QED
    BY <2>1, <2>3, <2>4 DEF Typed, Amounts
<1>5. ASSUME status[r] # "done"
      PROVE  /\ t \in Nat /\ 1 \in 1 .. Len(steps)
             /\ status[r] = "new" => t = 0
             /\ status[r] # "running" /\ stale[r] = 0 => t = 0
             /\ stale[r] \in Nat
             /\ status[r] \in {"loading", "running"} => ~Undrained(r)
  BY <1>1, <1>5, OldestFacts, TallyFacts
<1>6. Heard(r) => status[r] \in {"waiting", "loading", "running"} /\ t > 0 /\ ~(stale[r] > 0 /\ drop[r])
                  /\ r \in steps[1].samples
  BY DEF Heard, Alive
<1>7. ASSUME Heard(r)
      PROVE  \/ status[r] = "waiting" /\ stale[r] > 0
             \/ status[r] = "running" /\ stale[r] = 0
  <2>1. status[r] # "done" /\ status[r] \in {"waiting", "loading", "running"} /\ t > 0
        /\ ~(stale[r] > 0 /\ drop[r])
    BY <1>6, <1>7
  <2>2. t \in Nat /\ stale[r] \in Nat /\ (status[r] # "running" /\ stale[r] = 0 => t = 0)
    BY <1>5, <2>1
  <2>3. status[r] \in {"loading", "running"} => ~(stale[r] > 0 /\ ~drop[r])
    BY <1>5, <2>1 DEF Undrained
  <2> HIDE DEF t
  <2>4. status[r] \in {"loading", "running"} => stale[r] = 0
    BY <2>1, <2>2, <2>3
  <2> QED
    BY <2>1, <2>2, <2>4
<1> HIDE DEF t
<1>8. ASSUME r \in failed' PROVE r \in received' /\ computed'[r] < NumTokens(r)'
  <2>1. CASE r \in failed
    <3>1. r \in received /\ computed[r] < NumTokens(r) /\ status[r] = "loading" /\ transfer[r] = "none"
      BY <2>1 DEF Placed
    <3>2. ~Refused(r)
      BY <3>1 DEF Refused
    <3>3. ~Heard(r)
      BY <1>7, <3>1
    <3>4. computed'[r] = computed[r]
      BY <1>1, <3>2, <3>3, Zenon
    <3> QED
      BY <1>1, <1>4, <3>1, <3>4
  <2>2. CASE r \notin failed
    <3>1. r \in received' /\ Refused(r)
      BY <1>1, <1>8, <2>2
    <3>2. status[r] = "loading" /\ good[r] < computed[r] - t
      BY <3>1 DEF Refused, t
    <3>3. t \in Nat /\ computed[r] \in 0 .. NumTokens(r)
      BY <1>5, <3>2 DEF Placed
    <3>4. computed'[r] = good[r]
      BY <1>1, <3>1
    <3> QED
      BY <1>4, <3>1, <3>2, <3>3, <3>4
  <2> QED
    BY <2>1, <2>2
<1>a. ASSUME /\ status'[r] = "new" => computed'[r] = 0 /\ placeholders'[r] = 0
             /\ status'[r] = "waiting" => computed'[r] \in 0 .. NumTokens(r)' - 1
             /\ status'[r] = "loading" => computed'[r] \in 0 .. NumTokens(r)'
             /\ status'[r] = "running" =>
                  IF chunk'[r] THEN computed'[r] \in 0 .. NumTokens(r)' - 1 /\ placeholders'[r] = 0
                  ELSE placeholders'[r] >= 0 /\ computed'[r] = NumTokens(r)' + placeholders'[r] - 1
      PROVE  Placed(r)'
  BY <1>3, <1>8, <1>a DEF Placed
<1>9. CASE status'[r] = "done"
  BY <1>a, <1>9
<1>10. CASE status'[r] # "done"
  <2>1. status'[r] = status[r] /\ (Heard(r) => out[r] + new # MaxOut) /\ status[r] # "done"
    BY <1>2, <1>10
  <2>2. Heard(r) => new = 1 + a
    BY <1>4, <2>1 DEF Least
  <2>3. ~Heard(r) => new = 0
    BY DEF new
  <2>4. Refused(r) => status[r] = "loading"
    BY DEF Refused
  <2> HIDE DEF new
  <2>5. CASE ~Heard(r) /\ ~Refused(r)
    <3>1. computed'[r] = computed[r] /\ placeholders'[r] = placeholders[r] /\ NumTokens(r)' = NumTokens(r)
      BY <1>1, <1>4, <2>3, <2>5
    <3> HIDE DEF Heard, Refused
    <3> QED
      BY <1>a, <1>2, <1>3, <2>1, <3>1 DEF Placed
  <2>6. CASE Refused(r)
    <3>1. computed'[r] = good[r] /\ status[r] = "loading" /\ good[r] < computed[r] - t
      BY <1>1, <2>6 DEF Refused, t
    <3>2. t \in Nat /\ computed[r] \in 0 .. NumTokens(r)
      BY <1>5, <2>1, <3>1 DEF Placed
    <3>3. computed'[r] \in 0 .. NumTokens(r)'
      BY <1>4, <3>1, <3>2
    <3> QED
      BY <1>a, <2>1, <3>1, <3>3
  <2>7. CASE Heard(r) /\ status[r] = "waiting" /\ stale[r] > 0
    <3>1. computed'[r] = computed[r]
      BY <1>1, <2>4, <2>7
    <3>2. computed[r] \in 0 .. NumTokens(r) - 1
      BY <2>7 DEF Placed
    <3>3. computed'[r] \in 0 .. NumTokens(r)' - 1
      BY <1>4, <3>1, <3>2
    <3> QED
      BY <1>a, <2>1, <2>7, <3>3
  <2>8. CASE Heard(r) /\ status[r] = "running" /\ stale[r] = 0
    <3>1. /\ d \in Nat /\ r \in steps[1].samples
      BY <1>5, <1>6, <2>1, <2>8 DEF Fine
    <3>2. Shortened(steps, steps', r)
      BY <1>1, AheadTail
    <3>3. /\ Pledged(steps, r, 0) = Pledged(steps', r, 0) + (IF r \in steps[1].samples THEN 1 + d ELSE 0)
          /\ steps' \in Seq(Output) /\ Fine(steps', r)
      BY <3>2 DEF Shortened
    <3>4. Pledged(steps', r, 0) \in Nat
      <4>1. Pledged(steps', r, 0) \in 0 .. Len(steps') * (SpecTokens + 1)
        BY <3>3, PledgedFacts
      <4>2. Len(steps') \in Nat /\ SpecTokens \in Nat
        BY <3>3, LimitsAssumption, LenProperties
      <4>3. Len(steps') * (SpecTokens + 1) \in Int
        BY <4>2
      <4> QED
        BY <4>1, <4>3
    <3>5. placeholders[r] = Pledged(steps, r, 0)
      BY <2>8 DEF Promised, Alive
    <3>6. placeholders[r] >= 1 + d
      BY <3>1, <3>3, <3>4, <3>5
    <3>7. ~chunk[r] /\ computed[r] = NumTokens(r) + placeholders[r] - 1
      <4>1. IF base[r] > 0 \/ chunk[r]
              THEN computed[r] \in 0 .. NumTokens(r) - 1 /\ placeholders[r] = 0
              ELSE placeholders[r] >= 0 /\ computed[r] = NumTokens(r) + placeholders[r] - 1
        BY <2>8 DEF Placed
      <4>2. placeholders[r] # 0
        BY <3>1, <3>6
      <4> QED
        BY <1>3, <4>1, <4>2
    <3> HIDE DEF d
    <3>8. computed'[r] = computed[r] - (d - a) /\ placeholders'[r] = placeholders[r] - (d - a) - new
      <4>1. computed[r] > 0 /\ placeholders[r] > 0 /\ ~(stale[r] > 0)
        <5>1. computed[r] = NumTokens(r) + placeholders[r] - 1 /\ NumTokens(r) >= 1 /\ NumTokens(r) \in Nat
          BY <1>4, <3>7
        <5>2. placeholders[r] >= 1 + d /\ d \in Nat /\ placeholders[r] \in Int
          BY <1>4, <3>1, <3>6
        <5>3. stale[r] = 0
          BY <2>8
        <5> QED
          BY <5>1, <5>2, <5>3
      <4>2. ~Refused(r)
        BY <2>4, <2>8
      <4> QED
        BY <1>1, <2>8, <4>1, <4>2 DEF d
    <3>9. new = 1 + a /\ a \in Nat
      BY <2>2, <2>8, LimitsAssumption
    <3>10. placeholders'[r] >= 0 /\ computed'[r] = NumTokens(r)' + placeholders'[r] - 1
      <4>1. NumTokens(r)' = NumTokens(r) + (1 + a) /\ NumTokens(r) \in Nat /\ placeholders[r] \in Int
        BY <1>4, <3>9
      <4>2. /\ placeholders'[r] = placeholders[r] - (d - a) - (1 + a)
            /\ computed'[r] = (NumTokens(r) + placeholders[r] - 1) - (d - a)
        BY <3>7, <3>8, <3>9
      <4>3. d \in Nat /\ a \in Nat
        BY <3>1, <3>9
      <4>4. NumTokens(r) \in Int /\ placeholders[r] \in Int /\ d \in Int /\ a \in Int
        BY <4>1, <4>3
      <4> QED
        BY <3>6, <4>1, <4>2, <4>4, TakenBack, SMTT(20)
    <3>11. ~chunk'[r]
      BY <1>2, <3>7
    <3> QED
      BY <1>a, <2>1, <2>8, <3>10, <3>11
  <2> QED
    BY <1>7, <2>5, <2>6, <2>7, <2>8
<1> QED
  BY <1>9, <1>10

\* So the computed tokens stay where they may be.
LEMMA PlacedStep ==
  ASSUME steps \in Seq(Output), NEW r \in Reqs, Typed(r), Typed(r)', Amounts(r), Amounts(r)',
         Fine(steps, r), Tallied(r), Promised(r), Placed(r),
         tokens[r] > 0 => status[r] = "running",
         r \in received => status[r] = "loading" /\ transfer[r] = "none", Moved(r)
  PROVE  Placed(r)'
<1>1. CASE \/ Stays(r) \/ Allocated(r) \/ Preempted(r) \/ Promoted(r) \/ LoadAsked(r)
           \/ Admitted(r) \/ Added(r) \/ Aborted(r) \/ Ended(r)
  BY <1>1, PlacedKept
<1>2. CASE Dispatched(r)
  BY <1>2, PlacedDispatched
<1>3. CASE \E a \in 0 .. SpecTokens : Heeded(r, a) /\ a <= steps[1].drafts[r]
  BY <1>3, PlacedHeeded
<1> QED
  BY <1>1, <1>2, <1>3 DEF Moved

\* With a step for r behind the others the due ones are the same, and that one.
LEMMA DueMore ==
  ASSUME NEW ss \in Seq(Output), NEW step \in Output, NEW tt, NEW r, Fine(ss, r),
         Extended(ss, tt, step, r), NEW d \in BOOLEAN, NEW q \in Nat,
         step.tokens[r] \in Nat, q <= Ahead(ss, r, Len(ss))
  PROVE  DueSteps(tt, r, d, q) =
           DueSteps(ss, r, d, q) \cup (IF step.tokens[r] > 0 THEN {Len(ss) + 1} ELSE {})
<1> DEFINE n == Len(ss)
<1>1. /\ n \in Nat /\ Len(tt) = n + 1 /\ tt[n + 1] = step
      /\ \A i \in 1 .. n : tt[i] = ss[i]
      /\ \A i \in 0 .. n : Ahead(tt, r, i) = Ahead(ss, r, i)
      /\ Ahead(tt, r, n + 1) = Ahead(ss, r, n) + step.tokens[r]
      /\ Ahead(ss, r, n) \in Nat
  <2>1. n \in Nat
    BY LenProperties
  <2>2. n \in 0 .. n
    BY <2>1
  <2> QED
    BY <2>1, <2>2, AheadFacts DEF Extended
<1>2. ASSUME NEW i \in 1 .. n
      PROVE  i \in DueSteps(tt, r, d, q) <=> i \in DueSteps(ss, r, d, q)
  <2>1. i \in 1 .. n + 1 /\ tt[i] = ss[i] /\ Ahead(tt, r, i) = Ahead(ss, r, i)
    BY <1>1
  <2> QED
    BY <1>1, <2>1 DEF DueSteps
<1>3. n + 1 \in DueSteps(tt, r, d, q) <=> step.tokens[r] > 0
  <2>1. n + 1 \in 1 .. n + 1 /\ (step.tokens[r] > 0 => Ahead(tt, r, n + 1) > q)
    BY <1>1
  <2> QED
    BY <1>1, <2>1 DEF DueSteps
<1>4. DueSteps(tt, r, d, q) \subseteq 1 .. n + 1 /\ DueSteps(ss, r, d, q) \subseteq 1 .. n
  BY <1>1 DEF DueSteps
<1>5. \A i \in 1 .. n + 1 : i \in 1 .. n \/ i = n + 1
  BY <1>1
<1>6. n + 1 \notin 1 .. n
  BY <1>1
<1> QED
  BY <1>2, <1>3, <1>4, <1>5, <1>6

\* When the oldest step is taken back the others stay due, as its tokens leave
\* those of the stale ones first.
LEMMA DueTail ==
  ASSUME NEW ss \in Seq(Output), NEW tt, NEW r, Fine(ss, r), Shortened(ss, tt, r),
         NEW d \in BOOLEAN, NEW q \in Nat, NEW p \in Nat,
         q > 0 => ss[1].tokens[r] <= q /\ p = q - ss[1].tokens[r], q = 0 => p = 0
  PROVE  /\ DueSteps(tt, r, d, p) = {i \in 1 .. Len(tt) : i + 1 \in DueSteps(ss, r, d, q)}
         /\ 1 \in DueSteps(ss, r, d, q) <=> ss[1].tokens[r] > 0 /\ ~(q > 0 /\ d)
         /\ 1 \in DueSteps(ss, r, d, q) =>
              \A i \in 1 .. Len(ss) : ss[i].tokens[r] > 0 => i \in DueSteps(ss, r, d, q)
         /\ DueSteps(ss, r, d, q) \subseteq 1 .. Len(ss) /\ Len(ss) = Len(tt) + 1
<1> DEFINE n == Len(tt)
           t == ss[1].tokens[r]
<1>1. /\ n \in Nat /\ Len(ss) = n + 1 /\ \A i \in 1 .. n : tt[i] = ss[i + 1]
      /\ \A i \in 0 .. n : Ahead(tt, r, i) = Ahead(ss, r, i + 1) - t
  BY DEF Shortened
<1>2. 1 \in 1 .. n + 1 /\ 0 \in 0 .. n /\ \A i \in 1 .. n : i + 1 \in 1 .. n + 1 /\ i \in 0 .. n
  BY <1>1
<1>3. /\ t \in Nat /\ \A i \in 1 .. n + 1 : ss[i].tokens[r] \in Nat
      /\ Ahead(ss, r, 0) = 0 /\ \A i \in 0 .. n + 1 : Ahead(ss, r, i) \in Nat
  BY <1>1, <1>2, AheadFacts
<1>4. Ahead(ss, r, 1) = t
  <2>1. Ahead(ss, r, 1) = Ahead(ss, r, 1 - 1) + ss[1].tokens[r]
    BY <1>1, <1>2, AheadFacts
  <2> QED
    BY <1>3, <2>1
<1>5. \A i \in 1 .. n + 1 : ss[i].tokens[r] > 0 => Ahead(ss, r, i) > 0
  <2> SUFFICES ASSUME NEW i \in 1 .. n + 1, ss[i].tokens[r] > 0 PROVE Ahead(ss, r, i) > 0
    OBVIOUS
  <2>1. 0 \in 0 .. i - 1
    BY <1>1
  <2>2. Ahead(ss, r, 0) < Ahead(ss, r, i)
    BY <1>1, <2>1, AheadStrict
  <2> QED
    BY <1>3, <2>2
<1>6. \A i \in 1 .. n : ss[i + 1].tokens[r] > 0 => Ahead(ss, r, i + 1) > t
  <2> SUFFICES ASSUME NEW i \in 1 .. n, ss[i + 1].tokens[r] > 0 PROVE Ahead(ss, r, i + 1) > t
    OBVIOUS
  <2>1. i + 1 \in 1 .. Len(ss) /\ 1 \in 0 .. (i + 1) - 1 /\ i + 1 \in 0 .. n + 1
    BY <1>1
  <2>2. Ahead(ss, r, 1) < Ahead(ss, r, i + 1)
    BY <2>1, AheadStrict
  <2> QED
    BY <1>3, <1>4, <2>1, <2>2
<1> HIDE DEF n, t
<1>7. ASSUME NEW i \in 1 .. n
      PROVE  i \in DueSteps(tt, r, d, p) <=> i + 1 \in DueSteps(ss, r, d, q)
  <2>1. /\ tt[i] = ss[i + 1] /\ Ahead(tt, r, i) = Ahead(ss, r, i + 1) - t
        /\ i + 1 \in 1 .. n + 1 /\ i + 1 \in 0 .. n + 1
    BY <1>1, <1>2
  <2>2. Ahead(ss, r, i + 1) \in Nat
    BY <1>3, <2>1
  <2>3. ss[i + 1].tokens[r] > 0 => (Ahead(tt, r, i) > p <=> Ahead(ss, r, i + 1) > q)
    <3> SUFFICES ASSUME ss[i + 1].tokens[r] > 0
                 PROVE  Ahead(tt, r, i) > p <=> Ahead(ss, r, i + 1) > q
      OBVIOUS
    <3>1. Ahead(ss, r, i + 1) > t /\ Ahead(ss, r, i + 1) > 0
      BY <1>5, <1>6, <2>1
    <3>2. CASE q > 0
      <4>1. p = q - t
        BY <3>2 DEF t
      <4> QED
        BY <1>3, <2>1, <2>2, <4>1
    <3>3. CASE q = 0
      <4>1. p = 0
        BY <3>3
      <4> QED
        BY <1>3, <2>1, <2>2, <3>1, <3>3, <4>1
    <3> QED
      BY <3>2, <3>3
  <2>4. i \in 1 .. Len(tt) /\ i + 1 \in 1 .. Len(ss)
    BY <1>1, <2>1 DEF n
  <2> QED
    BY <2>1, <2>3, <2>4 DEF DueSteps
<1>8. 1 \in DueSteps(ss, r, d, q) <=> t > 0 /\ ~(q > 0 /\ d)
  <2>1. 1 \in DueSteps(ss, r, d, q) <=> t > 0 /\ (d => t > q)
    BY <1>1, <1>2, <1>4 DEF DueSteps, t
  <2>2. q > 0 => t <= q
    BY DEF t
  <2> QED
    BY <1>3, <2>1, <2>2
<1>9. ASSUME 1 \in DueSteps(ss, r, d, q), NEW i \in 1 .. n + 1, ss[i].tokens[r] > 0
      PROVE  i \in DueSteps(ss, r, d, q)
  <2>1. t > 0 /\ (d => t > q)
    BY <1>4, <1>9 DEF DueSteps, t
  <2>2. CASE i = 1
    BY <1>9, <2>2
  <2>3. CASE i # 1
    <3>1. i - 1 \in 1 .. n /\ (i - 1) + 1 = i /\ i \in 0 .. n + 1
      BY <1>1, <2>3
    <3>2. Ahead(ss, r, i) > t
      BY <1>6, <1>9, <3>1
    <3>3. d => Ahead(ss, r, i) > q
      BY <1>3, <2>1, <3>1, <3>2
    <3> QED
      BY <1>1, <1>9, <3>3 DEF DueSteps
  <2> QED
    BY <2>2, <2>3
<1>10. DueSteps(tt, r, d, p) = {i \in 1 .. n : i + 1 \in DueSteps(ss, r, d, q)}
  <2>1. DueSteps(tt, r, d, p) \subseteq 1 .. n
    BY DEF DueSteps, n
  <2> QED
    BY <1>7, <2>1
<1>11. DueSteps(ss, r, d, q) \subseteq 1 .. Len(ss)
  BY DEF DueSteps
<1> QED
  BY <1>1, <1>8, <1>9, <1>10, <1>11 DEF n, t

\* The chain with a further step.
LEMMA LinkedMore ==
  ASSUME NEW ss \in Seq(Output), NEW step \in Output, NEW tt, NEW r, Fine(ss, r),
         Extended(ss, tt, step, r), NEW d \in BOOLEAN, NEW q \in Nat,
         step.tokens[r] \in Nat, q <= Ahead(ss, r, Len(ss)),
         NEW n \in Nat \ {0}, NEW k, NEW s, step.base[r] \in Nat,
         step.tokens[r] > 0 => s = "running", step.base[r] > 0 => step.tokens[r] > 0,
         Linked(ss, r, d, q, n, step.base[r], k, s)
  PROVE  Linked(tt, r, d, q, n, 0, k, s)
<1> DEFINE D == DueSteps(ss, r, d, q)
           E == DueSteps(tt, r, d, q)
           m == Len(ss)
           b == step.base[r]
<1>1. /\ m \in Nat /\ Len(tt) = m + 1 /\ tt[m + 1] = step /\ \A i \in 1 .. m : tt[i] = ss[i]
  BY LenProperties DEF Extended
<1>2. E = D \cup (IF step.tokens[r] > 0 THEN {m + 1} ELSE {})
  BY DueMore
<1>3. D \subseteq 1 .. m
  BY DEF DueSteps
<1>4. /\ \A i \in D : ss[i].base[r] > 0 => ss[i].base[r] = n /\ \A j \in D : i <= j
      /\ b > 0 => b = n /\ D = {}
      /\ s = "running" \/ D # {} =>
           \/ b > 0
           \/ \E i \in D : ss[i].base[r] > 0
           \/ k = n /\ \A i \in 1 .. m : ss[i].tokens[r] > 0 => i \in D
  BY DEF Linked
<1>5. b \in Nat /\ (b > 0 => step.tokens[r] > 0)
  OBVIOUS
<1> HIDE DEF D, E, m, b
<1>6. ASSUME NEW i \in E, tt[i].base[r] > 0
      PROVE  tt[i].base[r] = n /\ \A j \in E : i <= j
  <2>1. CASE i \in D
    <3>1. i \in 1 .. m /\ tt[i] = ss[i]
      BY <1>1, <1>3, <2>1
    <3>2. ss[i].base[r] = n /\ \A j \in D : i <= j
      BY <1>4, <1>6, <2>1, <3>1
    <3>3. i <= m + 1
      BY <1>1, <3>1
    <3> QED
      BY <1>2, <3>1, <3>2, <3>3
  <2>2. CASE i \notin D
    <3>1. i = m + 1 /\ step.tokens[r] > 0
      BY <1>2, <2>2
    <3>2. b = n /\ D = {}
      BY <1>1, <1>4, <1>6, <3>1 DEF b
    <3>3. E = {m + 1}
      BY <1>2, <3>1, <3>2
    <3> QED
      BY <1>1, <3>1, <3>2, <3>3 DEF b
  <2> QED
    BY <2>1, <2>2
<1>7. ASSUME s = "running" \/ E # {}
      PROVE  \/ \E i \in E : tt[i].base[r] > 0
             \/ k = n /\ \A i \in 1 .. m + 1 : tt[i].tokens[r] > 0 => i \in E
  <2>1. s = "running" \/ D # {}
    BY <1>2, <1>7
  <2>2. CASE b > 0
    <3>1. m + 1 \in E /\ tt[m + 1].base[r] > 0
      BY <1>1, <1>2, <1>5, <2>2 DEF b
    <3> QED
      BY <3>1
  <2>3. CASE \E i \in D : ss[i].base[r] > 0
    <3>1. PICK i \in D : ss[i].base[r] > 0
      BY <2>3
    <3>2. i \in E /\ tt[i] = ss[i]
      BY <1>1, <1>2, <1>3
    <3> QED
      BY <3>1, <3>2
  <2>4. CASE k = n /\ \A i \in 1 .. m : ss[i].tokens[r] > 0 => i \in D
    <3>1. ASSUME NEW i \in 1 .. m + 1, tt[i].tokens[r] > 0 PROVE i \in E
      <4>1. CASE i \in 1 .. m
        BY <1>1, <1>2, <2>4, <3>1, <4>1
      <4>2. CASE i \notin 1 .. m
        <5>1. i = m + 1
          BY <1>1, <4>2
        <5> QED
          BY <1>1, <1>2, <3>1, <5>1
      <4> QED
        BY <4>1, <4>2
    <3> QED
      BY <2>4, <3>1
  <2> QED
    BY <1>4, <2>1, <2>2, <2>3, <2>4
<1> QED
  BY <1>1, <1>6, <1>7 DEF Linked, E

\* When the output of the oldest step is delivered, the runner has every token
\* before it samples.
LEMMA HeadLinked ==
  ASSUME NEW ss, NEW r, NEW d, NEW q, NEW n \in Nat \ {0}, NEW k, NEW s,
         Linked(ss, r, d, q, n, 0, k, s), 1 \in DueSteps(ss, r, d, q),
         DueSteps(ss, r, d, q) \subseteq 1 .. Len(ss), Len(ss) \in Nat
  PROVE  /\ n = IF ss[1].base[r] > 0 THEN ss[1].base[r] ELSE k
         /\ \A i \in DueSteps(ss, r, d, q) : ss[i].base[r] > 0 => i = 1
<1> DEFINE D == DueSteps(ss, r, d, q)
<1>1. /\ \A i \in D : ss[i].base[r] > 0 => ss[i].base[r] = n /\ \A j \in D : i <= j
      /\ \/ \E i \in D : ss[i].base[r] > 0
         \/ k = n /\ \A i \in 1 .. Len(ss) : ss[i].tokens[r] > 0 => i \in D
  <2>1. D # {} /\ ~(0 > 0)
    OBVIOUS
  <2> QED
    BY <2>1 DEF Linked
<1> HIDE DEF D
<1>2. ASSUME NEW i \in D, ss[i].base[r] > 0 PROVE i = 1
  <2>1. i <= 1 /\ i \in 1 .. Len(ss)
    BY <1>1, <1>2 DEF D
  <2> QED
    BY <2>1
<1>3. ss[1].base[r] > 0 => ss[1].base[r] = n
  BY <1>1 DEF D
<1>4. ~(ss[1].base[r] > 0) => k = n
  BY <1>1, <1>2
<1> QED
  BY <1>2, <1>3, <1>4 DEF D

\* The chain without the oldest step: k2 is what the runner knows then, of n2.
LEMMA LinkedTail ==
  ASSUME NEW ss \in Seq(Output), NEW tt, NEW r, Fine(ss, r), Shortened(ss, tt, r),
         NEW d \in BOOLEAN, NEW q \in Nat, NEW p \in Nat,
         q > 0 => ss[1].tokens[r] <= q /\ p = q - ss[1].tokens[r], q = 0 => p = 0,
         NEW n \in Nat \ {0}, NEW k, NEW s, Linked(ss, r, d, q, n, 0, k, s),
         NEW n2, NEW k2,
         1 \in DueSteps(ss, r, d, q) => k2 = n2,
         1 \notin DueSteps(ss, r, d, q) =>
           n2 = n /\ (~(ss[1].tokens[r] > 0) => k2 = k)
  PROVE  Linked(tt, r, d, p, n2, 0, k2, s)
<1> DEFINE D == DueSteps(ss, r, d, q)
           E == DueSteps(tt, r, d, p)
           m == Len(tt)
<1>1. /\ E = {i \in 1 .. m : i + 1 \in D}
      /\ 1 \in D => \A i \in 1 .. m + 1 : ss[i].tokens[r] > 0 => i \in D
      /\ D \subseteq 1 .. m + 1 /\ Len(ss) = m + 1
  BY DueTail
<1>2. m \in Nat /\ \A i \in 1 .. m : tt[i] = ss[i + 1]
  BY DEF Shortened
<1>3. /\ \A i \in D : ss[i].base[r] > 0 => ss[i].base[r] = n /\ \A j \in D : i <= j
      /\ s = "running" \/ D # {} =>
           \/ \E i \in D : ss[i].base[r] > 0
           \/ k = n /\ \A i \in 1 .. m + 1 : ss[i].tokens[r] > 0 => i \in D
  BY <1>1 DEF Linked
<1>4. 1 \in D => \A i \in D : ss[i].base[r] > 0 => i = 1
  BY <1>1, <1>2, HeadLinked
<1>5. /\ 1 \in D => k2 = n2
      /\ 1 \notin D => n2 = n /\ (~(ss[1].tokens[r] > 0) => k2 = k)
  OBVIOUS
<1> HIDE DEF D, E, m
<1>6. \A i \in E : i \in 1 .. m /\ i + 1 \in D /\ tt[i] = ss[i + 1] /\ i + 1 # 1
  BY <1>1, <1>2
<1>7. ASSUME NEW i \in E, tt[i].base[r] > 0
      PROVE  tt[i].base[r] = n2 /\ \A j \in E : i <= j
  <2>1. i \in 1 .. m /\ i + 1 \in D /\ ss[i + 1].base[r] > 0 /\ i + 1 # 1 /\ tt[i] = ss[i + 1]
    BY <1>6, <1>7
  <2>2. 1 \notin D
    BY <1>4, <2>1
  <2>3. n2 = n
    BY <1>5, <2>2
  <2>4. ss[i + 1].base[r] = n /\ \A j \in D : i + 1 <= j
    BY <1>3, <2>1
  <2>5. \A j \in E : i <= j
    <3> SUFFICES ASSUME NEW j \in E PROVE i <= j
      OBVIOUS
    <3>1. j \in 1 .. m /\ j + 1 \in D
      BY <1>6
    <3>2. i + 1 <= j + 1
      BY <2>4, <3>1
    <3> QED
      BY <1>2, <2>1, <3>1, <3>2
  <2> QED
    BY <2>1, <2>3, <2>4, <2>5
<1>8. ASSUME s = "running" \/ E # {}
      PROVE  \/ \E i \in E : tt[i].base[r] > 0
             \/ k2 = n2 /\ \A i \in 1 .. m : tt[i].tokens[r] > 0 => i \in E
  <2>0. \A i \in 1 .. m : i + 1 \in 1 .. m + 1 /\ tt[i] = ss[i + 1]
    BY <1>2
  <2>1. s = "running" \/ D # {}
    BY <1>6, <1>8
  <2>2. CASE 1 \in D
    BY <1>1, <1>5, <2>0, <2>2
  <2>3. CASE 1 \notin D /\ \E i \in D : ss[i].base[r] > 0
    <3>1. PICK i \in D : ss[i].base[r] > 0
      BY <2>3
    <3>2. i \in 1 .. m + 1 /\ i # 1
      BY <1>1, <2>3
    <3>3. i - 1 \in 1 .. m /\ (i - 1) + 1 = i
      BY <1>2, <3>2
    <3>4. i - 1 \in E /\ tt[i - 1] = ss[i]
      BY <1>1, <1>2, <3>3
    <3> QED
      BY <3>1, <3>4
  <2>4. CASE 1 \notin D /\ k = n /\ \A i \in 1 .. m + 1 : ss[i].tokens[r] > 0 => i \in D
    <3>1. 1 \in 1 .. m + 1
      BY <1>2
    <3>2. ~(ss[1].tokens[r] > 0)
      BY <2>4, <3>1
    <3>3. k2 = n2
      BY <1>5, <2>4, <3>2
    <3> QED
      BY <1>1, <2>0, <2>4, <3>3
  <2> QED
    BY <1>3, <2>1, <2>2, <2>3, <2>4
<1> QED
  BY <1>7, <1>8 DEF Linked, E, m

\* When the oldest step is taken back, what the runner knew is all that the
\* request had, if its output is delivered.
LEMMA HeardBefore ==
  ASSUME steps \in Seq(Output), NEW r \in Reqs, Typed(r), Amounts(r), Fine(steps, r),
         Tallied(r), Chained(r), Idle(r), steps # <<>>, Alive(r)
  PROVE  /\ Heard(r) <=>
              1 \in DueSteps(steps, r, drop[r], stale[r]) /\ r \in steps[1].samples
         /\ 1 \in DueSteps(steps, r, drop[r], stale[r]) =>
              Before(r) = NumTokens(r) /\ steps[1].tokens[r] > 0
<1> DEFINE t == steps[1].tokens[r]
<1>1. /\ t \in Nat /\ (stale[r] > 0 => t <= stale[r]) /\ stale[r] \in Nat /\ Len(steps) \in Nat
  BY OldestFacts, TallyFacts DEF Alive
<1>2. NumTokens(r) \in Nat \ {0}
  BY SizeOf DEF Amounts
<1>3. drop[r] \in BOOLEAN /\ base[r] = 0
  BY DEF Typed, Idle
<1>4. Linked(steps, r, drop[r], stale[r], NumTokens(r), 0, known[r], status[r])
  BY <1>3 DEF Chained
<1>5. Shortened(steps, Tail(steps), r)
  BY AheadTail
<1>6. /\ 1 \in DueSteps(steps, r, drop[r], stale[r]) <=> t > 0 /\ ~(stale[r] > 0 /\ drop[r])
      /\ DueSteps(steps, r, drop[r], stale[r]) \subseteq 1 .. Len(steps)
  <2> DEFINE p == IF stale[r] > 0 THEN stale[r] - t ELSE 0
  <2>1. p \in Nat /\ (stale[r] > 0 => t <= stale[r] /\ p = stale[r] - t) /\ (stale[r] = 0 => p = 0)
    BY <1>1
  <2> HIDE DEF p
  <2> QED
    BY <1>1, <1>3, <1>5, <2>1, DueTail
<1>7. 1 \in DueSteps(steps, r, drop[r], stale[r]) => Before(r) = NumTokens(r)
  BY <1>1, <1>2, <1>4, <1>6, HeadLinked DEF Before
<1> QED
  BY <1>6, <1>7 DEF Heard

\* What the next output is chained to stays so.
LEMMA ChainedStep ==
  ASSUME steps \in Seq(Output), NEW r \in Reqs, Typed(r), Typed(r)', Amounts(r), Placed(r),
         Fine(steps, r), Tallied(r), Promised(r), Chained(r),
         tokens[r] > 0 => status[r] = "running", Moved(r)
  PROVE  Chained(r)'
<1> SUFFICES ASSUME status'[r] \in {"waiting", "loading", "running"}
             PROVE  Linked(steps', r, drop'[r], stale'[r], Prompt[r] + out'[r], base'[r],
                           known'[r], status'[r])
  BY DEF Chained, Alive, NumTokens
<1> DEFINE N == NumTokens(r)
           D == DueSteps(steps, r, drop[r], stale[r])
<1>1. N \in Nat \ {0} /\ N = Prompt[r] + out[r] /\ base[r] \in Nat /\ drop[r] \in BOOLEAN
      /\ (base[r] > 0 => tokens[r] > 0)
  <2>1. NumTokens(r) \in 1 .. MaxTokens /\ MaxTokens \in Nat
    BY SizeOf DEF Amounts
  <2>2. NumTokens(r) = Prompt[r] + out[r] /\ drop[r] \in BOOLEAN
    BY DEF Typed
  <2>3. base[r] \in 0 .. MaxTokens /\ (base[r] > 0 => tokens[r] > 0)
    BY DEF Amounts
  <2> QED
    BY <2>1, <2>2, <2>3
<1>a. ASSUME StepsStay(r), CountStays(r), Alive(r), base'[r] = base[r],
             status'[r] = "running" => status[r] = "running"
      PROVE  Linked(steps', r, drop'[r], stale'[r], Prompt[r] + out'[r], base'[r],
                    known'[r], status'[r])
  <2>1. Linked(steps, r, drop[r], stale[r], N, base[r], known[r], status[r])
    BY <1>a DEF Chained
  <2>2. Linked(steps, r, drop[r], stale[r], N, base[r], known[r], status'[r])
    BY <1>a, <2>1, Zenon DEF Linked
  <2> QED
    BY <1>1, <1>a, <2>2 DEF StepsStay, CountStays
<1>b. ASSUME NEW d, NEW q, DueSteps(steps, r, d, q) = {}, NEW b, b > 0 => b = N,
             NEW k, NEW s, s = "running" => b > 0
      PROVE  Linked(steps, r, d, q, N, b, k, s)
  BY <1>b DEF Linked
<1>c. ASSUME NEW q \in Nat, \A i \in 1 .. Len(steps) : steps[i].tokens[r] > 0 => ~(Ahead(steps, r, i) > q),
             NEW d, d = TRUE
      PROVE  DueSteps(steps, r, d, q) = {}
  BY <1>c DEF DueSteps
<1>2. CASE Stays(r)
  BY <1>a, <1>2 DEF Stays, Alive, ShareStays
<1>3. CASE Allocated(r)
  BY <1>a, <1>3 DEF Allocated, Alive, Idle
<1>4. CASE Preempted(r)
  <2>1. /\ status[r] = "running" /\ status'[r] = "waiting" /\ base'[r] = 0 /\ steps' = steps
        /\ out'[r] = out[r] /\ known'[r] = known[r] /\ stale'[r] = inFlight[r]
        /\ drop'[r] = (DropStale \/ (drop[r] /\ stale[r] > 0)) /\ drop'[r] \in BOOLEAN
        /\ base[r] = 0
    BY <1>4 DEF Preempted, StepsStay, ShareStays, Idle, Typed
  <2>2. /\ inFlight[r] \in Nat /\ stale[r] \in Nat /\ ~Undrained(r)
        /\ \A i \in 1 .. Len(steps) : steps[i].tokens[r] > 0 =>
             Ahead(steps, r, i) > 0 /\ Ahead(steps, r, i) <= inFlight[r]
        /\ Len(steps) \in Nat
    BY <2>1, TallyFacts
  <2>3. \A i \in 1 .. Len(steps) : Ahead(steps, r, i) \in Nat
    <3>1. \A i \in 1 .. Len(steps) : i \in 0 .. Len(steps)
      BY <2>2
    <3> QED
      BY <3>1, AheadFacts
  <2>4. CASE drop'[r] = TRUE
    <3>1. \A i \in 1 .. Len(steps) : steps[i].tokens[r] > 0 => ~(Ahead(steps, r, i) > inFlight[r])
      BY <2>2, <2>3
    <3>2. DueSteps(steps, r, drop'[r], inFlight[r]) = {}
      BY <1>c, <2>2, <2>4, <3>1
    <3>3. Linked(steps, r, drop'[r], inFlight[r], N, 0, known[r], status'[r])
      BY <2>1, <3>2 DEF Linked
    <3> QED
      BY <1>1, <2>1, <3>3
  <2>5. CASE drop'[r] = FALSE
    <3>1. stale[r] = 0
      <4>1. ~(drop[r] /\ stale[r] > 0) /\ ~(stale[r] > 0 /\ ~drop[r])
        BY <2>1, <2>2, <2>5, Zenon DEF Undrained
      <4>2. ~(stale[r] > 0)
        BY <1>1, <4>1, Zenon
      <4> QED
        BY <2>2, <4>2
    <3>2. DueSteps(steps, r, drop'[r], inFlight[r]) = D
      BY <2>2, <2>3, <2>5, <3>1 DEF DueSteps
    <3>3. Linked(steps, r, drop[r], stale[r], N, 0, known[r], "running")
      BY <2>1 DEF Chained, Alive
    <3>4. Linked(steps, r, drop'[r], inFlight[r], N, 0, known[r], status'[r])
      <4>1. status'[r] # "running"
        BY <2>1
      <4> QED
        BY <3>2, <3>3, <4>1, Zenon DEF Linked
    <3> QED
      BY <1>1, <2>1, <3>4
  <2> QED
    BY <2>1, <2>4, <2>5
<1>5. CASE Promoted(r)
  BY <1>a, <1>5 DEF Promoted, Alive, ShareStays
<1>6. CASE LoadAsked(r)
  BY <1>a, <1>6 DEF LoadAsked, Alive, ShareStays
<1>7. CASE Admitted(r)
  <2>1. /\ status[r] = "waiting" /\ ~Undrained(r) /\ base'[r] = N /\ steps' = steps
        /\ out'[r] = out[r] /\ known'[r] = known[r] /\ stale'[r] = stale[r] /\ drop'[r] = drop[r]
    BY <1>7 DEF Admitted, StepsStay, CountStays
  <2>2. \A i \in 1 .. Len(steps) : ~(Ahead(steps, r, i) > stale[r])
    BY <2>1, AtRest DEF Alive
  <2>3. /\ stale[r] \in Nat
        /\ \A i \in 1 .. Len(steps) : steps[i].tokens[r] > 0 => Ahead(steps, r, i) > 0
    BY <2>1, TallyFacts
  <2>4. D = {}
    <3>1. ASSUME NEW i \in D PROVE FALSE
      <4>1. i \in 1 .. Len(steps) /\ steps[i].tokens[r] > 0
        BY <3>1 DEF DueSteps
      <4>2. Ahead(steps, r, i) > 0 /\ ~(Ahead(steps, r, i) > stale[r])
        BY <2>2, <2>3, <4>1
      <4>3. drop[r] => Ahead(steps, r, i) > stale[r]
        BY <3>1 DEF DueSteps
      <4>4. stale[r] = 0
        BY <2>1, <2>3, <4>2, <4>3 DEF Undrained
      <4> QED
        BY <4>2, <4>4
    <3> QED
      BY <3>1
  <2>5. N > 0
    BY <1>1
  <2>6. Linked(steps, r, drop[r], stale[r], N, N, known[r], status'[r])
    BY <1>b, <2>4, <2>5
  <2> QED
    BY <1>1, <2>1, <2>6
<1>8. CASE Added(r)
  <2>1. /\ status[r] = "new" /\ status'[r] = "waiting" /\ base'[r] = 0 /\ steps' = steps
        /\ out'[r] = out[r] /\ known'[r] = known[r] /\ stale'[r] = stale[r] /\ drop'[r] = drop[r]
    BY <1>8 DEF Added, StepsStay, CountStays, ShareStays, Idle
  <2>2. \A i \in 1 .. Len(steps) : ~(steps[i].tokens[r] > 0)
    <3>1. inFlight[r] = 0
      BY <2>1 DEF Tallied
    <3>2. ASSUME NEW i \in 1 .. Len(steps), steps[i].tokens[r] > 0 PROVE FALSE
      <4>1. Ahead(steps, r, i) > 0 /\ Ahead(steps, r, i) <= inFlight[r]
        BY <2>1, <3>2, TallyFacts
      <4>2. i \in 0 .. Len(steps) /\ Ahead(steps, r, i) \in Nat
        BY AheadFacts
      <4> QED
        BY <3>1, <4>1, <4>2
    <3> QED
      BY <3>2
  <2>3. D = {}
    BY <2>2 DEF DueSteps
  <2>4. Linked(steps, r, drop[r], stale[r], N, 0, known[r], status'[r])
    BY <2>1, <2>3 DEF Linked
  <2> QED
    BY <1>1, <2>1, <2>4
<1>9. CASE Aborted(r)
  BY <1>9 DEF Aborted
<1>10. CASE Ended(r)
  BY <1>a, <1>10 DEF Ended, Alive, ShareStays
<1>11. CASE Dispatched(r)
  <2>1. /\ status'[r] = status[r] /\ out'[r] = out[r] /\ known'[r] = known[r] /\ base'[r] = 0
        /\ stale'[r] = stale[r] /\ drop'[r] = drop[r]
    BY <1>11 DEF Dispatched, CountStays
  <2>2. Linked(steps, r, drop[r], stale[r], N, base[r], known[r], status[r])
    BY <2>1 DEF Chained, Alive
  <2>3. CASE steps' = steps /\ tokens[r] = 0
    <3>1. base[r] = 0
      BY <1>1, <2>3
    <3> QED
      BY <1>1, <2>1, <2>2, <2>3, <3>1
  <2>4. ASSUME NEW step \in Output, steps' = Append(steps, step), step.tokens[r] = tokens[r],
               step.base[r] = base[r],
               step.tokens[r] \in 0 .. Budget, step.drafts[r] \in 0 .. SpecTokens,
               step.base[r] \in 0 .. MaxTokens,
               r \in step.samples \/ step.base[r] > 0 => step.tokens[r] > 0
        PROVE  Linked(steps', r, drop'[r], stale'[r], Prompt[r] + out'[r], base'[r],
                      known'[r], status'[r])
    <3>1. Extended(steps, steps', step, r)
      BY <2>4, AheadMore
    <3>2. stale[r] \in Nat /\ stale[r] <= Ahead(steps, r, Len(steps))
      BY <2>1, TallyFacts
    <3>3. Linked(steps, r, drop[r], stale[r], N, step.base[r], known[r], status[r])
      BY <2>2, <2>4
    <3>4. step.tokens[r] \in Nat /\ step.base[r] \in Nat
          /\ (step.tokens[r] > 0 => (status[r] = "running"))
      BY <1>1, <2>4
    <3>5. Linked(steps', r, drop[r], stale[r], N, 0, known[r], status[r])
      BY <1>1, <2>4, <3>1, <3>2, <3>3, <3>4, LinkedMore
    <3> QED
      BY <1>1, <2>1, <3>5
  <2> QED
    BY <1>11, <2>3, <2>4, DispatchedAhead
<1>12. ASSUME NEW a \in 0 .. SpecTokens, Heeded(r, a), a <= steps[1].drafts[r]
       PROVE  Linked(steps', r, drop'[r], stale'[r], Prompt[r] + out'[r], base'[r],
                     known'[r], status'[r])
  <2> DEFINE t == steps[1].tokens[r]
             new == IF Heard(r) THEN Least(1 + a, MaxOut - out[r]) ELSE 0
  <2>1. /\ steps # <<>> /\ steps' = Tail(steps) /\ status'[r] = status[r] /\ Idle(r) /\ ShareStays(r)
        /\ stale'[r] = stale[r] -
             (IF (t > 0 /\ status[r] \notin {"new", "done"}) /\ stale[r] > 0 THEN t ELSE 0)
        /\ Heard(r) => out[r] + new # MaxOut
        /\ out'[r] = out[r] + new /\ drop'[r] = drop[r]
    BY <1>12 DEF Heeded
  <2>2. known'[r] = IF r \in steps[1].samples THEN Before(r) + 1 + a
                    ELSE IF t > 0 THEN Before(r) ELSE known[r]
    BY <1>12 DEF Heeded
  <2>3. Alive(r) /\ status[r] # "done" /\ status[r] \notin {"new", "done"} /\ base[r] = 0 /\ base'[r] = 0
    BY <2>1 DEF Alive, Idle, ShareStays
  <2>4. /\ t \in Nat /\ (stale[r] > 0 => t <= stale[r]) /\ stale[r] \in Nat /\ 1 \in 1 .. Len(steps)
    BY <2>1, <2>3, OldestFacts, TallyFacts
  <2>5. Linked(steps, r, drop[r], stale[r], N, 0, known[r], status[r])
    BY <2>3 DEF Chained
  <2>6. Shortened(steps, steps', r)
    BY <2>1, AheadTail
  <2>7. /\ Heard(r) <=> 1 \in D /\ r \in steps[1].samples
        /\ 1 \in D => Before(r) = N /\ t > 0
    BY <2>1, <2>3, HeardBefore
  <2>8. r \in steps[1].samples => t > 0
    BY <2>4 DEF Fine
  <2>9. stale'[r] \in Nat /\ (stale[r] > 0 => stale'[r] = stale[r] - t) /\ (stale[r] = 0 => stale'[r] = 0)
    BY <2>1, <2>3, <2>4
  <2>10. Heard(r) => new = 1 + a
    <3>1. out[r] \in 0 .. MaxOut /\ MaxOut \in Nat
      BY RequestsAssumption DEF Amounts
    <3> HIDE DEF Heard
    <3> QED
      BY <2>1, <3>1 DEF Least
  <2>11. ~Heard(r) => new = 0
    OBVIOUS
  <2> HIDE DEF t, new, D
  <2>12. 1 \in D => known'[r] = Prompt[r] + out'[r]
    <3>1. out[r] \in Int /\ Prompt[r] \in Int /\ a \in Int
      BY DEF Typed
    <3> SUFFICES ASSUME 1 \in D PROVE known'[r] = Prompt[r] + out'[r]
      OBVIOUS
    <3>2. CASE r \in steps[1].samples
      <4>1. known'[r] = N + 1 + a /\ out'[r] = out[r] + (1 + a)
        BY <2>1, <2>2, <2>7, <2>10, <3>2
      <4> QED
        BY <1>1, <3>1, <4>1, SMTT(20)
    <3>3. CASE r \notin steps[1].samples
      <4>1. known'[r] = N /\ out'[r] = out[r] + 0
        BY <2>1, <2>2, <2>7, <2>11, <3>3
      <4> QED
        BY <1>1, <3>1, <4>1
    <3> QED
      BY <3>2, <3>3
  <2>13. 1 \notin D => Prompt[r] + out'[r] = N /\ (~(t > 0) => known'[r] = known[r])
    <3>1. 1 \notin D => out'[r] = out[r] + 0 /\ out[r] \in Int
      BY <2>1, <2>7, <2>11 DEF Typed
    <3>2. ~(t > 0) => known'[r] = known[r]
      BY <2>2, <2>8
    <3> QED
      BY <1>1, <3>1, <3>2
  <2>15. Linked(steps', r, drop[r], stale'[r], Prompt[r] + out'[r], 0, known'[r], status[r])
    BY <1>1, <2>4, <2>5, <2>6, <2>9, <2>12, <2>13, LinkedTail DEF D, t
  <2> QED
    BY <2>1, <2>3, <2>15
<1> QED
  BY <1>2, <1>3, <1>4, <1>5, <1>6, <1>7, <1>8, <1>9, <1>10, <1>11, <1>12 DEF Moved

-----------------------------------------------------------------------------
(* The second invariant holds, and what follows from it.                      *)

\* At first every count is zero.
LEMMA LedgerInit == Init => Ledger
<1> SUFFICES ASSUME Init PROVE Ledger
  OBVIOUS
<1>1. MoreTypes /\ Wants
  <2>1. Budget \in Nat /\ MaxFailures \in Nat
    BY LimitsAssumption
  <2>2. MoreTypes
    <3>1. inFlight = Nothing /\ stale = Nothing /\ known = Nothing
      BY DEF Init
    <3>2. Nothing \in [Reqs -> Int]
      BY DEF Nothing
    <3>3. drop \in [Reqs -> BOOLEAN] /\ chunk \in [Reqs -> BOOLEAN]
      BY DEF Init
    <3>4. failed = {} /\ pad = {} /\ prefilling = {} /\ failures = 0 /\ preempted = FALSE
      BY DEF Init
    <3>5. 0 \in 0 .. MaxFailures /\ FALSE \in BOOLEAN
      BY <2>1
    <3> QED
      BY <3>1, <3>2, <3>3, <3>4, <3>5, Zenon DEF MoreTypes
  <2>3. budget = 0 /\ want = 0
    BY DEF Init
  <2>4. Wants
    BY <2>1, <2>3 DEF Wants
  <2> QED
    BY <2>2, <2>4
<1>2. Len(steps) = 0 /\ steps \in Seq(Output)
  BY EmptySeq DEF Init
<1>3. ASSUME NEW r \in Reqs PROVE Account(r)
  <2>1. /\ status[r] = "new" /\ out[r] = 0 /\ computed[r] = 0 /\ inFlight[r] = 0 /\ stale[r] = 0
        /\ placeholders[r] = 0 /\ good[r] = 0 /\ tokens[r] = 0 /\ base[r] = 0
        /\ transfer[r] = "none" /\ r \notin failed /\ r \notin pad
    BY DEF Init, Nothing
  <2>2. MaxTokens \in Nat /\ MaxOut \in Nat /\ Budget \in Nat
    BY MaxTokensBound, RequestsAssumption, LimitsAssumption
  <2>3. Amounts(r)
    BY <2>1, <2>2 DEF Amounts
  <2>4. Fine(steps, r)
    BY <1>2 DEF Fine
  <2>5. Tallied(r)
    <3>1. Ahead(steps, r, 0) = 0
      BY <1>2, <2>4, AheadFacts
    <3>2. 0 \in 0 .. 0
      OBVIOUS
    <3> QED
      BY <1>2, <2>1, <3>1, <3>2 DEF Tallied
  <2>6. Placed(r)
    BY <2>1 DEF Placed
  <2>7. Promised(r) /\ Chained(r) /\ Loaded(r)
    BY <2>1 DEF Promised, Chained, Loaded, Alive
  <2> QED
    BY <2>3, <2>4, <2>5, <2>6, <2>7 DEF Account
<1> QED
  BY <1>1, <1>3 DEF Ledger

\* The second invariant is kept where the first holds.
LEMMA LedgerStep == IInv /\ Ledger /\ [Next]_vars => Ledger'
<1> SUFFICES ASSUME IInv, Ledger, [Next]_vars PROVE Ledger'
  OBVIOUS
<1>1. Types /\ Queue /\ Given /\ Held /\ Received /\ Types' /\ MoreTypes /\ Wants
  BY Inductive, Zenon DEF IInv, Ledger
<1>2. MoreTypes'
  BY <1>1, MoreTypesStep
<1>3. \A r \in Reqs : Account(r)
  BY DEF Ledger
<1>4. \A r \in Reqs : Amounts(r) /\ Placed(r)
  BY <1>3 DEF Account
<1>5. Wants'
  BY <1>1, <1>4, WantsStep
<1>6. (\A r \in Reqs : Typed(r)) /\ (\A r \in Reqs : Typed(r)')
  <2>1. \A r \in Reqs : Typed(r)
    BY <1>1, TypedHolds
  <2>2. (\A r \in Reqs : Typed(r))'
    BY <1>1, <1>2, TypedHolds, PTL
  <2> QED
    BY <2>1, <2>2
<1>7. \A r \in Reqs : Moved(r)
  <2>1. \A r \in Reqs : Basics(r)
    BY <1>4, <1>6 DEF Basics
  <2> QED
    BY <1>1, <2>1, Moves
<1>8. ASSUME NEW r \in Reqs PROVE Account(r)'
  <2>1. /\ Amounts(r) /\ Fine(steps, r) /\ Tallied(r) /\ Placed(r) /\ Promised(r) /\ Chained(r)
        /\ Loaded(r) /\ Typed(r) /\ Typed(r)' /\ Moved(r)
    BY <1>3, <1>6, <1>7 DEF Account
  <2>2. steps \in Seq(Output)
    BY <1>1, Zenon DEF Types
  <2>3. tokens[r] > 0 => status[r] = "running"
    BY <1>1 DEF Given
  <2>4. r \in received => status[r] = "loading" /\ transfer[r] = "none"
    BY <1>1 DEF Received
  <2>5. Amounts(r)'
    BY <2>1, AmountsStep
  <2>6. Fine(steps, r)'
    BY <2>1, <2>2, FineStep
  <2>7. Tallied(r)'
    BY <2>1, <2>2, <2>3, TalliedStep
  <2>8. Placed(r)'
    BY <2>1, <2>2, <2>3, <2>4, <2>5, PlacedStep
  <2>9. Promised(r)'
    BY <2>1, <2>2, PromisedStep
  <2>10. Chained(r)'
    BY <2>1, <2>2, <2>3, ChainedStep
  <2>11. Loaded(r)'
    BY <2>1, <2>2, <2>4, LoadedStep
  <2> QED
    BY <2>5, <2>6, <2>7, <2>8, <2>9, <2>10, <2>11 DEF Account
<1> QED
  BY <1>2, <1>5, <1>8 DEF Ledger

\* The second invariant holds in every state.
LEMMA LedgerHolds == Spec => []Ledger
<1>1. IInv /\ Ledger /\ [Next]_vars => Ledger'
  BY LedgerStep
<1> QED
  BY <1>1, LedgerInit, IInvHolds, PTL DEF Spec

\* Who was preempted, aborted or finished meanwhile, nothing that a step in flight or a load
\* still writes can be given to somebody else: a block of a step is its request's or
\* waits behind that step, and a load under way has a request that waits for it with
\* blocks for every token that it may still write.
THEOREM InFlightKept == Spec => []InFlightWritesKept
<1>1. Ledger => LoadsKept
  BY DEF Ledger, Account, Loaded, LoadsKept
<1> QED
  BY <1>1, LedgerHolds, WritesKept, PTL DEF InFlightWritesKept

\* What reaches a request was sampled behind its last token: a step that
\* samples, drafts that are accepted or not, preemptions whose output is dropped or
\* awaited, and loads leave no place where a stale or a second output could be
\* appended.
THEOREM OutputInPlace == Spec => DeliveredInPlace
<1>1. IInv /\ Ledger /\ [Next]_vars =>
        [\A r \in Reqs : out'[r] > out[r] => NumTokens(r) = RunnerBase(r)]_vars
  <2> SUFFICES ASSUME IInv, Ledger, [Next]_vars, NEW r \in Reqs, out'[r] > out[r]
               PROVE  NumTokens(r) = RunnerBase(r)
    OBVIOUS
  <2>1. Types /\ Queue /\ Given /\ Held /\ Received /\ MoreTypes /\ Wants
    BY Zenon DEF IInv, Ledger
  <2>2. \A q \in Reqs : Account(q) /\ Typed(q)
    BY <2>1, TypedHolds DEF Ledger
  <2>3. \A q \in Reqs : Basics(q)
    BY <2>2 DEF Basics, Account
  <2>4. Moved(r)
    BY <2>1, <2>3, Moves
  <2>5. /\ Amounts(r) /\ Fine(steps, r) /\ Tallied(r) /\ Chained(r) /\ Typed(r)
        /\ steps \in Seq(Output)
    <3>1. steps \in Seq(Output)
      BY <2>1, Zenon DEF Types
    <3> QED
      BY <2>2, <3>1 DEF Account
  <2>6. out[r] \in Int
    BY <2>5 DEF Typed
  <2>7. out'[r] # out[r]
    BY <2>6
  <2>8. \E a \in 0 .. SpecTokens : Heeded(r, a)
    <3>1. ~StepsStay(r) /\ ~Dispatched(r)
      BY <2>7 DEF StepsStay, Dispatched
    <3> QED
      BY <2>4, <3>1, StepsKept DEF Moved
  <2>9. PICK a \in 0 .. SpecTokens : Heeded(r, a)
    BY <2>8
  <2>10. /\ steps # <<>> /\ Idle(r)
         /\ out'[r] = out[r] + (IF Heard(r) THEN Least(1 + a, MaxOut - out[r]) ELSE 0)
    BY <2>9 DEF Heeded
  <2>11. Heard(r)
    BY <2>6, <2>7, <2>10
  <2>12. Alive(r)
    BY <2>11 DEF Heard
  <2>13. Before(r) = NumTokens(r)
    BY <2>5, <2>10, <2>11, <2>12, HeardBefore
  <2>14. Head(steps) = steps[1]
    BY <2>5, <2>10, HeadTailProperties
  <2> QED
    BY <2>13, <2>14 DEF Before, RunnerBase
<1> QED
  BY <1>1, IInvHolds, LedgerHolds, PTL DEF Spec, DeliveredInPlace

-----------------------------------------------------------------------------
(* The third invariant: how far fences and counters reach.                    *)

\* The deferred frees wait for steps in flight, in the order of the queue.
InOrder(d, now) ==
  /\ \A i \in 1 .. Len(d) : d[i].fence \in 1 .. now
  /\ \A j \in 1 .. Len(d) : \A i \in 1 .. j : d[i].fence <= d[j].fence

\* No fence lies behind the last step in flight.
Fences == InOrder(deferred, FenceNow) /\ \A r \in Reqs : fence[r] <= FenceNow

\* There is room for the step that is being put together.
Slots == Len(steps) <= Depth /\ (pc # "idle" => Len(steps) < Depth)

\* Blocks released now wait behind the latest step: the queue stays in order.
LEMMA ReleaseInOrder ==
  ASSUME NEW S \in SUBSET Reqs, NEW pool0, NEW later0 \in Seq(Freed), NEW f \in [Reqs -> Nat],
         NEW now \in Nat, InOrder(later0, now), \A r \in Reqs : f[r] <= now,
         Release(S, pool0, later0, f, now)
  PROVE  InOrder(deferred', now)
<1> DEFINE late == UNION {blocks[r] : r \in {r \in S : f[r] > 0}}
           e == [fence |-> now, blocks |-> late]
           n == Len(later0)
<1>1. deferred' = IF late = {} THEN later0 ELSE Append(later0, e)
  BY DEF Release
<1>2. CASE late = {}
  BY <1>1, <1>2
<1>3. CASE late # {}
  <2>1. PICK r \in S : f[r] > 0
    BY <1>3
  <2>2. now \in 1 .. now /\ e.fence = now
    BY <2>1
  <2>3. n \in Nat /\ \A i \in 1 .. n : later0[i].fence \in 1 .. now
    BY LenProperties DEF InOrder
  <2>4. \A j \in 1 .. n : \A i \in 1 .. j : later0[i].fence <= later0[j].fence
    BY DEF InOrder
  <2> HIDE DEF late, e
  <2> DEFINE d == Append(later0, e)
  <2>5. Len(d) = n + 1 /\ d[n + 1] = e /\ \A i \in 1 .. n : d[i] = later0[i]
    BY AppendProperties
  <2>6. deferred' = d
    BY <1>1, <1>3
  <2> HIDE DEF d, n
  <2>7. ASSUME NEW i \in 1 .. n + 1 PROVE d[i].fence \in 1 .. now
    <3>1. i \in 1 .. n \/ i = n + 1
      BY <2>3
    <3> QED
      BY <2>2, <2>3, <2>5, <3>1
  <2>8. ASSUME NEW j \in 1 .. n + 1, NEW i \in 1 .. j PROVE d[i].fence <= d[j].fence
    <3>1. CASE j \in 1 .. n
      <4>1. i \in 1 .. n
        BY <2>3, <3>1
      <4> QED
        BY <2>4, <2>5, <3>1, <4>1
    <3>2. CASE j = n + 1
      <4>1. d[j].fence = now /\ i \in 1 .. n + 1
        BY <2>2, <2>3, <2>5, <3>2
      <4>2. d[i].fence \in 1 .. now
        BY <2>7, <4>1
      <4> QED
        BY <4>1, <4>2
    <3> QED
      BY <2>3, <3>1, <3>2
  <2> QED
    BY <2>5, <2>6, <2>7, <2>8 DEF InOrder
<1> QED
  BY <1>2, <1>3

\* What is not drained when a step is taken back waits for a step behind it.
LEMMA DrainInOrder ==
  ASSUME Types, Held, NEW now \in Nat, NEW one \in {0, 1}, one <= now, InOrder(deferred, now)
  PROVE  InOrder(StillDeferred(PastFence(one), one), now - one)
<1> DEFINE k == PastFence(one)
           d == StillDeferred(k, one)
           n == Len(deferred)
<1>1. /\ n \in Nat /\ k \in 0 .. n
      /\ k < n => ~(deferred[k + 1].fence <= one)
  BY PastFenceIn, LenProperties DEF Types
<1>2. /\ Len(d) = n - k
      /\ \A i \in 1 .. n - k : d[i].fence = deferred[i + k].fence - one
  <2>1. k \in 0 .. Len(deferred) /\ one \in Int
    BY <1>1
  <2> HIDE DEF k
  <2> QED
    BY <2>1, DrainHolds
<1>3. /\ \A i \in 1 .. n : deferred[i].fence \in 1 .. now
      /\ \A j \in 1 .. n : \A i \in 1 .. j : deferred[i].fence <= deferred[j].fence
  BY DEF InOrder
<1> HIDE DEF k, d, n
<1>4. ASSUME NEW i \in 1 .. n - k PROVE d[i].fence \in 1 .. now - one
  <2>1. i + k \in 1 .. n /\ k + 1 \in 1 .. i + k /\ k + 1 \in 1 .. n /\ k < n
    BY <1>1
  <2>2. /\ deferred[k + 1].fence \in 1 .. now /\ deferred[i + k].fence \in 1 .. now
        /\ deferred[k + 1].fence <= deferred[i + k].fence
        /\ ~(deferred[k + 1].fence <= one)
    BY <1>1, <1>3, <2>1
  <2>3. d[i].fence = deferred[i + k].fence - one
    BY <1>2
  <2> QED
    BY <2>2, <2>3
<1>5. ASSUME NEW j \in 1 .. n - k, NEW i \in 1 .. j PROVE d[i].fence <= d[j].fence
  <2>1. i \in 1 .. n - k /\ i + k \in 1 .. j + k /\ j + k \in 1 .. n /\ i + k \in 1 .. n
    BY <1>1
  <2>2. /\ deferred[i + k].fence <= deferred[j + k].fence
        /\ deferred[i + k].fence \in 1 .. now /\ deferred[j + k].fence \in 1 .. now
    BY <1>3, <2>1
  <2>3. d[i].fence = deferred[i + k].fence - one /\ d[j].fence = deferred[j + k].fence - one
    BY <1>2, <2>1
  <2> QED
    BY <2>2, <2>3
<1> QED
  BY <1>2, <1>4, <1>5 DEF InOrder, d, k

\* With a step taken back, the latest one is as much nearer.
LEMMA FenceNowTail ==
  ASSUME Types, steps # <<>>, steps' = Tail(steps)
  PROVE  /\ One \in {0, 1} /\ One <= FenceNow /\ FenceNow \in Nat /\ FenceNow' = FenceNow - One
         /\ Len(steps) \in Nat /\ Len(steps') = Len(steps) - 1
<1> DEFINE n == Len(steps)
<1>1. steps \in Seq(Output) /\ n \in Nat /\ n >= 1
  BY LenProperties DEF Types
<1>2. n - 1 \in Nat /\ Len(steps') = n - 1 /\ \A k \in 1 .. n - 1 : steps'[k] = steps[k + 1]
  BY <1>1, HeadTailProperties
<1>3. FenceNow = Count(steps, n) /\ FenceNow' = Count(steps', n - 1) /\ FenceNow \in Nat
  <2>1. FenceNow' = Count(steps', Len(steps'))
    BY DEF FenceNow, Count
  <2> QED
    BY <1>2, <2>1, FenceNowType
<1>4. Follows(steps, steps', n - 1)
  BY <1>2 DEF Follows
<1> HIDE DEF n
<1>5. \A i \in 0 .. n - 1 : Count(steps, i + 1) = Count(steps', i) + One
  BY <1>2, <1>4, CountTail DEF One
<1>6. n - 1 \in 0 .. n - 1 /\ (n - 1) + 1 = n
  BY <1>1, <1>2
<1>7. Count(steps, n) = Count(steps', n - 1) + One
  BY <1>5, <1>6
<1>8. Count(steps', n - 1) \in Nat /\ One \in {0, 1}
  BY <1>2, CountType DEF One
<1> QED
  BY <1>1, <1>2, <1>3, <1>7, <1>8 DEF n

\* With a further step it is that one, if it has a token.
LEMMA FenceNowMore ==
  ASSUME Types, Dispatch
  PROVE  /\ FenceNow' \in Nat /\ FenceNow \in Nat /\ FenceNow <= FenceNow'
         /\ \A r \in Reqs : tokens[r] > 0 => FenceNow' = FenceNow + 1
         /\ Len(steps) \in Nat /\ Len(steps') \in {Len(steps), Len(steps) + 1}
<1> DEFINE n == Len(steps)
<1>1. steps \in Seq(Output) /\ n \in Nat /\ FenceNow = Count(steps, n) /\ FenceNow \in Nat
  BY LenProperties, FenceNowType DEF Types
<1>2. FenceNow' = Count(steps', Len(steps'))
  BY DEF FenceNow, Count
<1> HIDE DEF n
<1>3. CASE steps' = steps /\ \A r \in Reqs : ~(tokens[r] > 0)
  BY <1>1, <1>2, <1>3 DEF n
<1>4. ASSUME NEW step \in Output, steps' = Append(steps, step), step.tokens = tokens
      PROVE  /\ FenceNow' \in Nat /\ FenceNow <= FenceNow' /\ Len(steps') = n + 1
             /\ \A r \in Reqs : tokens[r] > 0 => FenceNow' = FenceNow + 1
  <2>1. Len(steps') = n + 1 /\ steps'[n + 1] = step /\ \A i \in 1 .. n : steps'[i] = steps[i]
    BY <1>1, <1>4, AppendProperties DEF n
  <2>2. Count(steps', n + 1) = Count(steps', n) + (IF Scheduled(steps'[n + 1]) = {} THEN 0 ELSE 1)
    BY <1>1, CountNext
  <2>3. Count(steps', n) = Count(steps, n)
    BY <1>1, <2>1, CountOfSame
  <2>4. FenceNow' = FenceNow + (IF Scheduled(step) = {} THEN 0 ELSE 1)
    BY <1>1, <1>2, <2>1, <2>2, <2>3
  <2>5. \A r \in Reqs : tokens[r] > 0 => Scheduled(step) # {}
    BY <1>4 DEF Scheduled
  <2> QED
    BY <1>1, <2>1, <2>4, <2>5
<1>5. \/ steps' = steps /\ \A r \in Reqs : ~(tokens[r] > 0)
      \/ \E step \in Output : steps' = Append(steps, step) /\ step.tokens = tokens
  BY DispatchAppends
<1> QED
  BY <1>1, <1>3, <1>4, <1>5 DEF n

\* A number that stays, or one less.
LEMMA FenceLess ==
  ASSUME NEW a \in Nat, NEW now \in Nat, NEW one \in {0, 1}, a <= now, one <= now
  PROVE  (IF a > 0 THEN a - one ELSE 0) \in Nat /\ (IF a > 0 THEN a - one ELSE 0) <= now - one
OBVIOUS

\* Every step keeps the fences within the steps in flight.
LEMMA FencesStep ==
  ASSUME Types, Held, Fences, [Next]_vars
  PROVE  Fences'
<1>0. /\ fence \in [Reqs -> Nat] /\ deferred \in Seq(Freed) /\ FenceNow \in Nat
      /\ InOrder(deferred, FenceNow) /\ \A r \in Reqs : fence[r] <= FenceNow
  BY PoolType, FenceNowType DEF Fences
<1>1. CASE UNCHANGED <<steps, fence, deferred>>
  <2>1. FenceNow' = FenceNow
    BY <1>1 DEF FenceNow
  <2> QED
    BY <1>0, <1>1, <2>1 DEF Fences
<1>2. ASSUME NEW S \in SUBSET Reqs, Release(S, free, deferred, fence, FenceNow),
             UNCHANGED <<steps, fence>>
      PROVE  Fences'
  <2>1. InOrder(deferred', FenceNow)
    BY <1>0, <1>2, ReleaseInOrder
  <2>2. FenceNow' = FenceNow
    BY <1>2 DEF FenceNow
  <2>3. Fences' <=> InOrder(deferred', FenceNow') /\ \A r \in Reqs : fence'[r] <= FenceNow'
    BY DEF Fences, InOrder
  <2> QED
    BY <1>0, <1>2, <2>1, <2>2, <2>3
<1>3. CASE Preempt
  <2>1. PICK v \in Reqs : Release({v}, free, deferred, fence, FenceNow) /\ UNCHANGED <<steps, fence>>
    BY <1>3 DEF Preempt
  <2> QED
    BY <1>2, <2>1
<1>4. ASSUME NEW r \in Reqs, Abort(r) PROVE Fences'
  <2>1. UNCHANGED <<steps, fence>>
    BY <1>4 DEF Abort, counters
  <2>2. UNCHANGED pool \/ Release({r}, free, deferred, fence, FenceNow)
    BY <1>4 DEF Abort
  <2>3. CASE UNCHANGED pool
    BY <1>1, <2>1, <2>3 DEF pool
  <2>4. CASE Release({r}, free, deferred, fence, FenceNow)
    BY <1>2, <2>1, <2>4
  <2> QED
    BY <2>2, <2>3, <2>4
<1>5. CASE Dispatch
  <2>1. /\ FenceNow' \in Nat /\ FenceNow <= FenceNow'
        /\ \A r \in Reqs : tokens[r] > 0 => FenceNow' = FenceNow + 1
    BY <1>5, FenceNowMore
  <2>2. /\ deferred' = deferred
        /\ \A r \in Reqs : fence'[r] = IF tokens[r] > 0 THEN FenceNow + 1 ELSE fence[r]
    BY <1>5 DEF Dispatch, pool
  <2>3. InOrder(deferred, FenceNow')
    <3>1. \A i \in 1 .. Len(deferred) : deferred[i].fence \in 1 .. FenceNow
      BY <1>0 DEF InOrder
    <3>2. \A i \in 1 .. Len(deferred) : deferred[i].fence \in 1 .. FenceNow'
      BY <1>0, <2>1, <3>1
    <3> QED
      BY <1>0, <3>2 DEF InOrder
  <2>4. \A r \in Reqs : fence'[r] <= FenceNow'
    BY <1>0, <2>1, <2>2
  <2>5. Fences' <=> InOrder(deferred', FenceNow') /\ \A r \in Reqs : fence'[r] <= FenceNow'
    BY DEF Fences, InOrder
  <2> QED
    BY <2>2, <2>3, <2>4, <2>5
<1>6. CASE Updates
  <2>1. PICK accepted \in [Reqs -> 0 .. SpecTokens], eos \in SUBSET Head(steps).samples :
          Update(accepted, eos)
    BY <1>6 DEF Updates
  <2>2. steps # <<>>
    BY <1>6 DEF Updates
  <2>3. PICK S \in SUBSET Reqs, gone \in SUBSET Reqs : Taken(S, gone)
    BY <2>1, <2>2, UpdateTakes
  <2>4. /\ steps' = Tail(steps) /\ fence' = FenceAfter
        /\ Release(S, free \cup Drained(PastFence(One)), StillDeferred(PastFence(One), One),
                   FenceAfter, FenceNow - One)
    BY <2>3 DEF Taken
  <2>5. One \in {0, 1} /\ One <= FenceNow /\ FenceNow' = FenceNow - One
    BY <2>2, <2>4, FenceNowTail
  <2>6. \A r \in Reqs : FenceAfter[r] = IF fence[r] > 0 THEN fence[r] - One ELSE 0
    BY DEF FenceAfter
  <2>7. \A r \in Reqs : FenceAfter[r] \in Nat /\ FenceAfter[r] <= FenceNow - One
    <3> HIDE DEF One
    <3> SUFFICES ASSUME NEW r \in Reqs
                 PROVE  FenceAfter[r] \in Nat /\ FenceAfter[r] <= FenceNow - One
      OBVIOUS
    <3>1. fence[r] \in Nat /\ fence[r] <= FenceNow
      BY <1>0
    <3> QED
      BY <1>0, <2>5, <2>6, <3>1, FenceLess
  <2>8. FenceAfter \in [Reqs -> Nat] /\ FenceNow - One \in Nat
    <3>1. FenceAfter = [r \in Reqs |-> FenceAfter[r]]
      BY DEF FenceAfter
    <3> HIDE DEF One, FenceAfter
    <3> QED
      BY <1>0, <2>5, <2>7, <3>1
  <2>9. InOrder(StillDeferred(PastFence(One), One), FenceNow - One)
    BY <1>0, <2>5, DrainInOrder
  <2>10. StillDeferred(PastFence(One), One) \in Seq(Freed)
    <3>1. PastFence(One) \in 0 .. Len(deferred) /\ One \in Int
      BY <2>5, PastFenceIn
    <3> QED
      BY <3>1, DrainHolds
  <2>11. InOrder(deferred', FenceNow - One)
    BY <2>4, <2>7, <2>8, <2>9, <2>10, ReleaseInOrder
  <2>12. Fences' <=> InOrder(deferred', FenceNow') /\ \A r \in Reqs : fence'[r] <= FenceNow'
    BY DEF Fences, InOrder
  <2> QED
    BY <2>4, <2>5, <2>7, <2>11, <2>12
<1>7. \/ UNCHANGED <<steps, fence, deferred>> \/ Preempt \/ Dispatch \/ Updates
      \/ \E r \in Reqs : Abort(r)
  <2>1. CASE Begin \/ Pass \/ Consider \/ Allocate \/ RunningDone \/ PassOver \/ Promote
             \/ Admit \/ WaitingDone \/ UNCHANGED vars
    BY <2>1 DEF Begin, Pass, Consider, Allocate, RunningDone, PassOver, Promote, Admit,
         WaitingDone, vars, counters, pool
  <2>2. ASSUME NEW r \in Reqs, NEW n, Load(n) \/ AddRequest(r) \/ EndTransfer(r, n)
        PROVE  UNCHANGED <<steps, fence, deferred>>
    BY <2>2 DEF Load, AddRequest, EndTransfer, counters, pool
  <2>3. ASSUME NEW n, Load(n) PROVE UNCHANGED <<steps, fence, deferred>>
    BY <2>3 DEF Load, counters, pool
  <2> QED
    BY <2>1, <2>2, <2>3 DEF Next, Schedule, TransferOf
<1> QED
  BY <1>1, <1>3, <1>4, <1>5, <1>6, <1>7

\* No more steps are put together than the engine may have in flight.
LEMMA SlotsStep ==
  ASSUME Types, Slots, [Next]_vars
  PROVE  Slots'
<1>0. Len(steps) \in Nat /\ Depth \in Nat
  BY LenProperties, LimitsAssumption DEF Types
<1>1. CASE Begin
  BY <1>1 DEF Begin, Slots
<1>2. CASE steps' = steps /\ pc # "idle"
  BY <1>2 DEF Slots
<1>3. CASE steps' = steps /\ pc' = pc
  BY <1>3 DEF Slots
<1>4. CASE Dispatch
  <2>1. Len(steps') \in {Len(steps), Len(steps) + 1}
    BY <1>4, FenceNowMore
  <2>2. pc = "dispatch" /\ pc' = "idle"
    BY <1>4 DEF Dispatch
  <2> QED
    BY <1>0, <2>1, <2>2 DEF Slots
<1>5. CASE Updates
  <2>1. steps # <<>> /\ steps' = Tail(steps) /\ pc' = pc /\ pc = "idle"
    BY <1>5 DEF Updates, Update
  <2>2. Len(steps') = Len(steps) - 1
    BY <2>1, FenceNowTail
  <2> QED
    BY <1>0, <2>1, <2>2 DEF Slots
<1>6. \/ Begin \/ (steps' = steps /\ pc # "idle") \/ (steps' = steps /\ pc' = pc)
      \/ Dispatch \/ Updates
  <2>1. CASE Pass \/ Consider \/ Allocate \/ Promote \/ Admit \/ PassOver
    BY <2>1 DEF Pass, Consider, Allocate, Promote, Admit, PassOver
  <2>2. CASE RunningDone \/ WaitingDone
    BY <2>2 DEF RunningDone, WaitingDone
  <2>3. CASE Preempt
    BY <2>3 DEF Preempt, Turn
  <2>4. ASSUME NEW n, Load(n) PROVE steps' = steps /\ pc' = pc
    BY <2>4 DEF Load
  <2>5. ASSUME NEW r \in Reqs, NEW n, AddRequest(r) \/ Abort(r) \/ EndTransfer(r, n)
        PROVE  steps' = steps /\ pc' = pc
    BY <2>5 DEF AddRequest, Abort, EndTransfer
  <2>6. CASE UNCHANGED vars
    BY <2>6 DEF vars
  <2> QED
    BY <2>1, <2>2, <2>3, <2>4, <2>5, <2>6 DEF Next, Schedule, TransferOf
<1> QED
  BY <1>1, <1>2, <1>3, <1>4, <1>5, <1>6

-----------------------------------------------------------------------------
(* The counters stay below what the steps in flight can add to them.          *)

\* What the runner learns of a request, until a step hands it the tokens anew, is at
\* most a token and the drafts for each step in flight.
Reach(r) ==
  /\ known[r] \in 0 .. MaxAhead
  /\ \A j \in 1 .. Len(steps) :
       steps[j].tokens[r] > 0 /\ (\A i \in 1 .. j : steps[i].base[r] = 0)
         => known[r] + j * (SpecTokens + 1) <= MaxAhead

\* The counters of a request that has ended stay in range.
Settled(r) ==
  /\ status[r] \in {"aborted", "done"} =>
       computed[r] \in 0 .. MaxAhead /\ placeholders[r] \in 0 .. Depth * (SpecTokens + 1)
  /\ status[r] = "done" =>
       inFlight[r] \in 0 .. Depth * Budget /\ stale[r] \in 0 .. Depth * Budget

\* The counters of any request are in range.
Within(r) ==
  /\ computed[r] \in 0 .. MaxAhead /\ placeholders[r] \in 0 .. Depth * (SpecTokens + 1)
  /\ inFlight[r] \in 0 .. Depth * Budget /\ stale[r] \in 0 .. Depth * Budget

Bounds == Fences /\ Slots /\ \A r \in Reqs : Reach(r) /\ Settled(r)

\* A larger number times the same is larger.
LEMMA TimesGrows ==
  ASSUME NEW b \in Nat, NEW a \in 0 .. b, NEW c \in Nat
  PROVE  a * c \in Nat /\ b * c \in Nat /\ a * c <= b * c
<1>1. b - a \in Nat /\ b = a + (b - a)
  OBVIOUS
<1>2. b * c = a * c + (b - a) * c
  BY <1>1
<1>3. (b - a) * c \in Nat /\ a * c \in Nat /\ b * c \in Nat
  BY <1>1
<1> QED
  BY <1>2, <1>3

\* One more times a number adds that number.
LEMMA TimesMore ==
  ASSUME NEW a \in Nat, NEW c \in Nat
  PROVE  a * c \in Nat /\ (a + 1) * c \in Nat /\ (a + 1) * c = a * c + c
<1>1. (a + 1) * c = a * c + c
  OBVIOUS
<1>2. a * c \in Nat
  OBVIOUS
<1> QED
  BY <1>1, <1>2

\* What MaxAhead allows beyond MaxTokens.
LEMMA AheadSize ==
  ASSUME Reqs # {}
  PROVE  /\ MaxTokens \in Nat /\ MaxAhead \in Nat /\ SpecTokens \in Nat
         /\ Depth * (SpecTokens + 1) \in Nat
         /\ MaxAhead = MaxTokens + (Depth * (SpecTokens + 1) + (SpecTokens + 1))
<1>1. MaxTokens \in Nat /\ Depth \in Nat /\ SpecTokens \in Nat /\ SpecTokens + 1 \in Nat
  BY MaxTokensBound, LimitsAssumption
<1>2. /\ Depth * (SpecTokens + 1) \in Nat
      /\ (Depth + 1) * (SpecTokens + 1) = Depth * (SpecTokens + 1) + (SpecTokens + 1)
  BY <1>1, TimesMore
<1>3. MaxAhead = MaxTokens + (Depth + 1) * (SpecTokens + 1)
  BY DEF MaxAhead
<1> QED
  BY <1>1, <1>2, <1>3

\* What the account of a request says of its counters.
LEMMA CountersWithin ==
  ASSUME steps \in Seq(Output), Len(steps) <= Depth, NEW r \in Reqs, Typed(r), Account(r), Settled(r)
  PROVE  Within(r)
<1>1. /\ Amounts(r) /\ Fine(steps, r) /\ Tallied(r) /\ Placed(r) /\ Promised(r)
      /\ status[r] \in Statuses
  BY DEF Account, Typed
<1>2. /\ Depth \in Nat /\ Budget \in Nat /\ SpecTokens + 1 \in Nat /\ Len(steps) \in 0 .. Depth
  BY LimitsAssumption, LenProperties
<1>3. /\ MaxTokens \in Nat /\ MaxAhead \in Nat /\ Depth * (SpecTokens + 1) \in Nat
      /\ MaxAhead = MaxTokens + (Depth * (SpecTokens + 1) + (SpecTokens + 1))
      /\ SpecTokens \in Nat
  BY AheadSize
<1>4. NumTokens(r) \in 1 .. MaxTokens
  BY <1>1, SizeOf DEF Amounts
<1>5. inFlight[r] \in 0 .. Depth * Budget /\ stale[r] \in 0 .. Depth * Budget
  <2>1. CASE status[r] = "done"
    BY <2>1 DEF Settled
  <2>2. CASE status[r] # "done"
    <3> DEFINE g == InSteps(steps, r)
               n == Len(steps)
    <3>1. \A i \in 1 .. n : g[i] \in 0 .. Budget
      BY <1>1 DEF Fine, InSteps
    <3>2. n \in Nat /\ n \in 0 .. n
      BY <1>2
    <3> HIDE DEF g
    <3>3. Total(g, n) \in 0 .. n * Budget
      BY <1>2, <3>1, <3>2, TotalBound
    <3>4. inFlight[r] = Total(g, n)
      BY <1>1, <2>2 DEF Tallied, Ahead, g
    <3>5. stale[r] \in Nat /\ inFlight[r] \in Nat /\ stale[r] <= inFlight[r]
      BY <1>1, <2>2, TallyFacts
    <3>6. n * Budget \in Nat /\ Depth * Budget \in Nat /\ n * Budget <= Depth * Budget
      BY <1>2, TimesGrows
    <3> HIDE DEF n
    <3>7. inFlight[r] <= n * Budget
      BY <3>3, <3>4, <3>6
    <3> QED
      BY <3>5, <3>6, <3>7
  <2> QED
    BY <2>1, <2>2
<1>6. ASSUME Alive(r) PROVE placeholders[r] \in 0 .. Depth * (SpecTokens + 1)
  <2>1. placeholders[r] = Pledged(steps, r, stale[r])
    BY <1>1, <1>6 DEF Promised
  <2>2. Pledged(steps, r, stale[r]) \in 0 .. Len(steps) * (SpecTokens + 1)
    BY <1>1, PledgedFacts
  <2>3. /\ Len(steps) * (SpecTokens + 1) \in Nat
        /\ Len(steps) * (SpecTokens + 1) <= Depth * (SpecTokens + 1)
    BY <1>2, TimesGrows
  <2> QED
    BY <1>3, <2>1, <2>2, <2>3
<1>7. ASSUME Alive(r) PROVE computed[r] \in 0 .. MaxAhead
  <2>1. placeholders[r] \in 0 .. Depth * (SpecTokens + 1)
    BY <1>6, <1>7
  <2>2. status[r] \in {"waiting", "loading", "running"}
    BY <1>7 DEF Alive
  <2>3. CASE status[r] \in {"waiting", "loading"}
    <3>1. computed[r] \in 0 .. NumTokens(r)
      BY <1>1, <1>4, <2>3 DEF Placed
    <3> QED
      BY <1>3, <1>4, <3>1
  <2>4. CASE status[r] = "running"
    <3>1. computed[r] \in 0 .. NumTokens(r) - 1 \/ computed[r] = NumTokens(r) + placeholders[r] - 1
      BY <1>1, <2>4 DEF Placed
    <3> QED
      BY <1>3, <1>4, <2>1, <3>1
  <2> QED
    BY <2>2, <2>3, <2>4
<1>8. CASE Alive(r)
  BY <1>5, <1>6, <1>7, <1>8 DEF Within
<1>9. CASE status[r] = "new"
  <2>1. computed[r] = 0 /\ placeholders[r] = 0
    BY <1>1, <1>9 DEF Placed
  <2> QED
    BY <1>3, <1>5, <2>1 DEF Within
<1>10. CASE status[r] \in {"aborted", "done"}
  BY <1>5, <1>10 DEF Within, Settled
<1> QED
  BY <1>1, <1>8, <1>9, <1>10 DEF Alive, Statuses

\* A request whose output is delivered and not stale runs: the promise of the oldest
\* step is among its placeholders, and lies below its computed tokens.
LEMMA HeardRuns ==
  ASSUME steps \in Seq(Output), steps # <<>>, NEW r \in Reqs, Typed(r), Account(r), Idle(r),
         Heard(r), ~(stale[r] > 0)
  PROVE  /\ steps[1].drafts[r] \in Nat /\ placeholders[r] >= 1 + steps[1].drafts[r]
         /\ computed[r] = NumTokens(r) + placeholders[r] - 1 /\ NumTokens(r) \in Nat \ {0}
<1>1. /\ Amounts(r) /\ Fine(steps, r) /\ Tallied(r) /\ Placed(r) /\ Promised(r)
  BY DEF Account
<1>2. /\ status[r] \in {"waiting", "loading", "running"} /\ steps[1].tokens[r] > 0
      /\ r \in steps[1].samples /\ status[r] # "done"
  BY DEF Heard, Alive
<1>3. /\ 1 \in 1 .. Len(steps) /\ steps[1].tokens[r] \in Nat
      /\ status[r] # "running" /\ stale[r] = 0 => steps[1].tokens[r] = 0
      /\ stale[r] \in Nat
  BY <1>1, <1>2, OldestFacts, TallyFacts
<1>4. stale[r] = 0
  BY <1>3
<1>5. status[r] = "running"
  BY <1>2, <1>3, <1>4
<1>6. placeholders[r] = Pledged(steps, r, 0)
  BY <1>1, <1>2, <1>4 DEF Promised, Alive
<1>7. Shortened(steps, Tail(steps), r)
  BY <1>1, AheadTail
<1>8. /\ Pledged(steps, r, 0) = Pledged(Tail(steps), r, 0) + (1 + steps[1].drafts[r])
      /\ Tail(steps) \in Seq(Output) /\ Fine(Tail(steps), r)
  BY <1>2, <1>7 DEF Shortened
<1>9. Pledged(Tail(steps), r, 0) \in Nat
  <2>1. Pledged(Tail(steps), r, 0) \in 0 .. Len(Tail(steps)) * (SpecTokens + 1)
    BY <1>8, PledgedFacts
  <2>2. Len(Tail(steps)) \in Nat /\ SpecTokens + 1 \in Nat
    BY <1>8, LimitsAssumption, LenProperties
  <2>3. Len(Tail(steps)) * (SpecTokens + 1) \in Nat
    BY <2>2, TimesMore
  <2> QED
    BY <2>1, <2>3
<1>10. steps[1].drafts[r] \in Nat
  BY <1>1, <1>3, LimitsAssumption DEF Fine
<1>11. placeholders[r] >= 1 + steps[1].drafts[r]
  BY <1>6, <1>8, <1>9, <1>10
<1>12. computed[r] = NumTokens(r) + placeholders[r] - 1
  <2>1. placeholders[r] # 0
    BY <1>10, <1>11
  <2> QED
    BY <1>1, <1>5, <2>1 DEF Placed, Idle
<1>13. NumTokens(r) \in Nat \ {0}
  BY <1>1, SizeOf DEF Amounts
<1> QED
  BY <1>10, <1>11, <1>12, <1>13

\* What is taken back of n computed tokens and p placeholders leaves both in range.
LEMMA LessInRange ==
  ASSUME NEW n \in Nat \ {0}, NEW p \in Nat, NEW d \in Nat, NEW a \in 0 .. d, NEW x \in 0 .. 1 + a,
         NEW c, NEW m \in Nat, NEW q \in Nat,
         p >= 1 + d, c = n + p - 1, c <= m, p <= q
  PROVE  c - (d - a) \in 0 .. m /\ p - (d - a) - x \in 0 .. q
OBVIOUS

\* The counters of a request that ends, or has ended, stay in range.
LEMMA SettledStep ==
  ASSUME steps \in Seq(Output), Len(steps) <= Depth, NEW r \in Reqs, Typed(r), Account(r), Settled(r),
         tokens[r] > 0 => status[r] = "running", Moved(r)
  PROVE  Settled(r)'
<1>1. Within(r)
  BY CountersWithin
<1>2. Amounts(r) /\ Fine(steps, r) /\ Tallied(r) /\ tokens[r] \in Nat
  BY LimitsAssumption DEF Account, Amounts
<1>3. CASE Stays(r) \/ Aborted(r) \/ Ended(r)
  <2>1. /\ computed'[r] = computed[r] /\ placeholders'[r] = placeholders[r]
        /\ inFlight'[r] = inFlight[r] /\ stale'[r] = stale[r]
    BY <1>3 DEF Stays, Aborted, Ended, StepsStay, CountStays, PlaceStays
  <2> QED
    BY <1>1, <2>1 DEF Settled, Within
<1>4. CASE Allocated(r) \/ Preempted(r) \/ Promoted(r) \/ LoadAsked(r) \/ Admitted(r) \/ Added(r)
  <2>1. status'[r] \in {"running", "waiting", "loading"}
    BY <1>4 DEF Allocated, Preempted, Promoted, LoadAsked, Admitted, Added
  <2> QED
    BY <2>1 DEF Settled
<1>5. CASE Dispatched(r)
  <2>1. /\ status'[r] = status[r] /\ stale'[r] = stale[r]
        /\ computed'[r] = computed[r] + tokens[r] /\ inFlight'[r] = inFlight[r] + tokens[r]
        /\ ~Reaches(r) => placeholders'[r] = placeholders[r]
    BY <1>5 DEF Dispatched, CountStays
  <2>2. CASE status[r] = "running"
    BY <2>1, <2>2 DEF Settled
  <2>3. CASE status[r] # "running"
    <3>1. tokens[r] = 0 /\ ~Reaches(r)
      BY <1>2, <2>3 DEF Reaches
    <3>2. computed'[r] = computed[r] /\ placeholders'[r] = placeholders[r] /\ inFlight'[r] = inFlight[r]
      BY <2>1, <3>1 DEF Typed
    <3> QED
      BY <1>1, <2>1, <3>2 DEF Settled, Within
  <2> QED
    BY <2>2, <2>3
<1>6. ASSUME NEW a \in 0 .. SpecTokens, Heeded(r, a), a <= steps[1].drafts[r]
      PROVE  Settled(r)'
  <2> DEFINE t == steps[1].tokens[r]
             d == steps[1].drafts[r]
             new == IF Heard(r) THEN Least(1 + a, MaxOut - out[r]) ELSE 0
             present == t > 0 /\ status[r] \notin {"new", "done"}
  <2>1. /\ steps # <<>> /\ Idle(r)
        /\ inFlight'[r] = inFlight[r] - (IF present THEN t ELSE 0)
        /\ stale'[r] = stale[r] - (IF present /\ stale[r] > 0 THEN t ELSE 0)
        /\ computed'[r] = IF Refused(r) THEN good[r]
                          ELSE IF Heard(r) /\ ~(stale[r] > 0) /\ computed[r] > 0
                            THEN computed[r] - (d - a) ELSE computed[r]
        /\ placeholders'[r] = IF Heard(r) /\ ~(stale[r] > 0) /\ placeholders[r] > 0
                                THEN placeholders[r] - (d - a) - new ELSE placeholders[r]
    BY <1>6 DEF Heeded
  <2>2. /\ MaxTokens \in Nat /\ MaxAhead \in Nat /\ Depth * (SpecTokens + 1) \in Nat
        /\ MaxAhead = MaxTokens + (Depth * (SpecTokens + 1) + (SpecTokens + 1))
        /\ SpecTokens \in Nat
    BY AheadSize
  <2>3. good[r] \in 0 .. MaxAhead
    <3>1. good[r] \in 0 .. MaxTokens
      BY <1>2 DEF Amounts
    <3> QED
      BY <2>2, <3>1
  <2>4. computed[r] \in 0 .. MaxAhead /\ placeholders[r] \in 0 .. Depth * (SpecTokens + 1)
    BY <1>1 DEF Within
  <2>5. new \in 0 .. 1 + a
    <3>1. out[r] \in 0 .. MaxOut /\ MaxOut \in Nat /\ a \in Nat
      BY <1>2, RequestsAssumption, LimitsAssumption DEF Amounts
    <3> QED
      BY <3>1 DEF Least
  <2> HIDE DEF new
  <2>6. /\ computed'[r] \in 0 .. MaxAhead
        /\ placeholders'[r] \in 0 .. Depth * (SpecTokens + 1)
    <3>1. CASE Heard(r) /\ ~(stale[r] > 0)
      <4>1. /\ d \in Nat /\ placeholders[r] >= 1 + d
            /\ computed[r] = NumTokens(r) + placeholders[r] - 1 /\ NumTokens(r) \in Nat \ {0}
        BY <2>1, <3>1, HeardRuns
      <4> HIDE DEF d
      <4>2. a \in 0 .. d /\ placeholders[r] \in Nat
        BY <1>6, <2>2, <2>4, <4>1 DEF d
      <4>3. /\ computed[r] - (d - a) \in 0 .. MaxAhead
            /\ placeholders[r] - (d - a) - new \in 0 .. Depth * (SpecTokens + 1)
        <5> DEFINE q == Depth * (SpecTokens + 1)
                   p == placeholders[r]
                   c == computed[r]
        <5>1. /\ c <= MaxAhead /\ p <= q /\ q \in Nat /\ p \in Nat /\ MaxAhead \in Nat
              /\ p >= 1 + d /\ d \in Nat /\ a \in 0 .. d /\ new \in 0 .. 1 + a
          BY <2>2, <2>4, <2>5, <4>1, <4>2
        <5>2. c = NumTokens(r) + p - 1 /\ NumTokens(r) \in Nat \ {0}
          BY <4>1
        <5> HIDE DEF q, p, c
        <5>3. c - (d - a) \in 0 .. MaxAhead /\ p - (d - a) - new \in 0 .. q
          BY <5>1, <5>2, LessInRange
        <5> QED
          BY <5>3 DEF q, p, c
      <4> QED
        BY <2>1, <2>3, <2>4, <4>3
    <3>2. CASE ~(Heard(r) /\ ~(stale[r] > 0))
      BY <2>1, <2>3, <2>4, <3>2
    <3> QED
      BY <3>1, <3>2
  <2>7. inFlight'[r] \in 0 .. Depth * Budget /\ stale'[r] \in 0 .. Depth * Budget
    <3>1. inFlight[r] \in 0 .. Depth * Budget /\ stale[r] \in 0 .. Depth * Budget
      BY <1>1 DEF Within
    <3>2. present => t \in Nat /\ t <= inFlight[r] /\ (stale[r] > 0 => t <= stale[r])
      BY <1>2, <2>1, OldestFacts
    <3>3. Depth * Budget \in Nat
      BY LimitsAssumption, TimesMore
    <3> HIDE DEF t, present
    <3> QED
      BY <2>1, <3>1, <3>2, <3>3
  <2> QED
    BY <2>6, <2>7 DEF Settled
<1> QED
  BY <1>3, <1>4, <1>5, <1>6 DEF Moved

\* What the runner knows stays in range, however many drafts it accepts.
LEMMA ReachStep ==
  ASSUME steps \in Seq(Output), Len(steps) <= Depth, Len(steps') <= Depth, NEW r \in Reqs,
         Typed(r), Account(r), Reach(r), tokens[r] > 0 => status[r] = "running", Moved(r)
  PROVE  Reach(r)'
<1> DEFINE K == SpecTokens + 1
           n == Len(steps)
<1>1. /\ Amounts(r) /\ Fine(steps, r) /\ Placed(r) /\ Chained(r) /\ tokens[r] \in Nat
      /\ base[r] \in Nat
  BY LimitsAssumption DEF Account, Amounts
<1>2. /\ MaxTokens \in Nat /\ MaxAhead \in Nat /\ Depth * K \in Nat
      /\ MaxAhead = MaxTokens + (Depth * K + K)
      /\ SpecTokens \in Nat /\ K \in Nat /\ Depth \in Nat
  <2>1. SpecTokens \in Nat /\ K \in Nat /\ Depth \in Nat
    BY LimitsAssumption
  <2> QED
    BY <2>1, AheadSize
<1>3. n \in Nat /\ n <= Depth
  BY LenProperties
<1>4. known[r] \in 0 .. MaxAhead
  BY DEF Reach
<1>5. CASE StepsStay(r)
  BY <1>5 DEF Reach, StepsStay
<1>6. CASE Dispatched(r)
  <2>1. known'[r] = known[r]
    BY <1>6 DEF Dispatched
  <2>2. CASE steps' = steps
    BY <2>1, <2>2 DEF Reach
  <2>3. ASSUME NEW step \in Output, steps' = Append(steps, step), step.tokens[r] = tokens[r],
               step.base[r] = base[r]
        PROVE  Reach(r)'
    <3>1. Len(steps') = n + 1 /\ steps'[n + 1] = step /\ \A i \in 1 .. n : steps'[i] = steps[i]
      BY <2>3, AppendProperties
    <3>2. n + 1 <= Depth
      BY <3>1
    <3>3. ASSUME NEW j \in 1 .. n + 1, steps'[j].tokens[r] > 0, \A i \in 1 .. j : steps'[i].base[r] = 0
          PROVE  known[r] + j * K <= MaxAhead
      <4>1. CASE j \in 1 .. n
        <5>1. \A i \in 1 .. j : i \in 1 .. n /\ steps[i].base[r] = 0
          BY <1>3, <3>1, <3>3, <4>1
        <5>2. steps[j].tokens[r] > 0
          BY <3>1, <3>3, <4>1
        <5> QED
          BY <4>1, <5>1, <5>2 DEF Reach
      <4>2. CASE j = n + 1
        <5>1. tokens[r] > 0 /\ base[r] = 0 /\ \A i \in 1 .. n : steps[i].base[r] = 0
          BY <1>3, <2>3, <3>1, <3>3, <4>2
        <5>2. status[r] = "running"
          BY <5>1
        <5>3. known[r] = NumTokens(r)
          <6>1. Linked(steps, r, drop[r], stale[r], NumTokens(r), base[r], known[r], "running")
            BY <1>1, <5>2 DEF Chained, Alive
          <6>2. \A i \in DueSteps(steps, r, drop[r], stale[r]) : i \in 1 .. n
            BY DEF DueSteps
          <6> QED
            BY <5>1, <6>1, <6>2 DEF Linked
        <5>4. NumTokens(r) \in 1 .. MaxTokens
          BY <1>1, SizeOf DEF Amounts
        <5>5. j \in 0 .. Depth
          BY <1>2, <3>2, <4>2, <1>3
        <5>6. j * K \in Nat /\ j * K <= Depth * K
          BY <1>2, <5>5, TimesGrows
        <5> DEFINE x == j * K
                   y == Depth * K
        <5>7. x \in Nat /\ x <= y /\ y \in Nat /\ MaxAhead = MaxTokens + (y + K)
          BY <1>2, <5>6
        <5> HIDE DEF K, x, y
        <5>8. known[r] + x <= MaxAhead
          BY <1>2, <5>3, <5>4, <5>7, SMTT(20)
        <5> QED
          BY <5>8 DEF x
      <4> QED
        BY <1>3, <4>1, <4>2
    <3>4. Reach(r)' <=> /\ known'[r] \in 0 .. MaxAhead
                        /\ \A j \in 1 .. Len(steps') :
                             steps'[j].tokens[r] > 0 /\ (\A i \in 1 .. j : steps'[i].base[r] = 0)
                               => known'[r] + j * K <= MaxAhead
      BY DEF Reach
    <3> QED
      BY <1>4, <2>1, <3>1, <3>3, <3>4
  <2> QED
    BY <1>6, <2>2, <2>3 DEF Dispatched
<1>7. ASSUME NEW a \in 0 .. SpecTokens, Heeded(r, a), a <= steps[1].drafts[r]
      PROVE  Reach(r)'
  <2> DEFINE step == steps[1]
             m == Len(steps')
  <2>1. /\ steps # <<>> /\ steps' = Tail(steps)
        /\ known'[r] = IF r \in step.samples THEN Before(r) + 1 + a
                       ELSE IF step.tokens[r] > 0 THEN Before(r) ELSE known[r]
    BY <1>7 DEF Heeded
  <2>2. m \in Nat /\ n = m + 1 /\ \A i \in 1 .. m : steps'[i] = steps[i + 1]
    <3>1. Shortened(steps, steps', r)
      BY <1>1, <2>1, AheadTail
    <3> QED
      BY <3>1 DEF Shortened
  <2>3. /\ step.base[r] \in 0 .. MaxTokens /\ step.tokens[r] \in 0 .. Budget
        /\ r \in step.samples \/ step.base[r] > 0 => step.tokens[r] > 0
    <3>1. 1 \in 1 .. Len(steps)
      BY <2>2
    <3> QED
      BY <1>1, <3>1 DEF Fine
  <2>4. Before(r) = IF step.base[r] > 0 THEN step.base[r] ELSE known[r]
    BY DEF Before
  <2>5. 1 * K = K
    BY <1>2
  <2> HIDE DEF step, K
  <2>6. CASE step.base[r] > 0
    <3>1. known'[r] \in 0 .. MaxTokens + K
      <4>1. Before(r) \in 0 .. MaxTokens /\ step.tokens[r] > 0
        BY <2>3, <2>4, <2>6
      <4> QED
        BY <1>2, <2>1, <4>1, SMTT(20) DEF K
    <3>2. ASSUME NEW j \in 1 .. m PROVE known'[r] + j * K <= MaxAhead
      <4>1. j \in Nat /\ j + 1 \in 0 .. Depth
        BY <1>2, <1>3, <2>2
      <4>2. (j + 1) * K = j * K + K /\ j * K \in Nat /\ (j + 1) * K <= Depth * K
        BY <1>2, <4>1, TimesMore, TimesGrows
      <4> DEFINE x == j * K
                 y == Depth * K
      <4>3. x + K <= y /\ x \in Nat /\ y \in Nat /\ MaxAhead = MaxTokens + (y + K)
        BY <1>2, <4>2
      <4>4. /\ K \in Nat /\ MaxTokens \in Nat /\ known'[r] \in Int
            /\ known'[r] <= MaxTokens + K
        BY <1>2, <3>1
      <4> HIDE DEF x, y
      <4>5. known'[r] + x <= MaxAhead
        BY <4>3, <4>4
      <4> QED
        BY <4>5 DEF x
    <3>3. known'[r] \in 0 .. MaxAhead
      BY <1>2, <3>1
    <3> QED
      BY <3>2, <3>3 DEF Reach, K, m
  <2>7. CASE step.base[r] = 0 /\ step.tokens[r] > 0
    <3>1. known[r] + K <= MaxAhead
      <4>1. /\ 1 \in 1 .. Len(steps) /\ \A i \in 1 .. 1 : steps[i].base[r] = 0
            /\ steps[1].tokens[r] > 0
        BY <2>2, <2>7 DEF step
      <4>2. known[r] + 1 * (SpecTokens + 1) <= MaxAhead
        BY <4>1 DEF Reach
      <4> QED
        BY <2>5, <4>2 DEF K
    <3>2. known'[r] \in 0 .. known[r] + K
      <4>1. Before(r) = known[r] /\ known[r] \in Int /\ 0 <= known[r] /\ K = SpecTokens + 1
        BY <1>2, <1>4, <2>4, <2>7 DEF K
      <4> HIDE DEF K
      <4> QED
        BY <1>2, <2>1, <4>1, SMTT(20)
    <3>3. ASSUME NEW j \in 1 .. m, steps'[j].tokens[r] > 0, \A i \in 1 .. j : steps'[i].base[r] = 0
          PROVE  known'[r] + j * K <= MaxAhead
      <4>1. j \in Nat /\ j + 1 \in 1 .. n /\ steps[j + 1].tokens[r] > 0
        BY <2>2, <3>3
      <4>2. \A i \in 1 .. j + 1 : steps[i].base[r] = 0
        <5> SUFFICES ASSUME NEW i \in 1 .. j + 1 PROVE steps[i].base[r] = 0
          OBVIOUS
        <5>1. CASE i = 1
          BY <2>7, <5>1 DEF step
        <5>2. CASE i # 1
          <6>1. i - 1 \in 1 .. j /\ i - 1 \in 1 .. m /\ (i - 1) + 1 = i
            BY <2>2, <5>2
          <6> QED
            BY <2>2, <3>3, <6>1
        <5> QED
          BY <5>1, <5>2
      <4>3. known[r] + (j + 1) * K <= MaxAhead
        BY <4>1, <4>2 DEF Reach, K
      <4>4. (j + 1) * K = j * K + K /\ j * K \in Nat
        BY <1>2, <4>1, TimesMore
      <4> DEFINE x == j * K
      <4>5. known[r] + (x + K) <= MaxAhead /\ x \in Nat
        BY <4>3, <4>4
      <4> HIDE DEF x
      <4>6. known'[r] + x <= MaxAhead
        BY <1>2, <1>4, <3>2, <4>5
      <4> QED
        BY <4>6 DEF x
    <3>4. known'[r] \in 0 .. MaxAhead
      BY <1>2, <1>4, <3>1, <3>2
    <3> QED
      BY <3>3, <3>4 DEF Reach, K, m
  <2>8. CASE step.base[r] = 0 /\ ~(step.tokens[r] > 0)
    <3>1. known'[r] = known[r]
      BY <2>1, <2>3, <2>8
    <3>2. ASSUME NEW j \in 1 .. m, steps'[j].tokens[r] > 0, \A i \in 1 .. j : steps'[i].base[r] = 0
          PROVE  known[r] + j * K <= MaxAhead
      <4>1. j \in Nat /\ j + 1 \in 1 .. n /\ steps[j + 1].tokens[r] > 0
        BY <2>2, <3>2
      <4>2. \A i \in 1 .. j + 1 : steps[i].base[r] = 0
        <5> SUFFICES ASSUME NEW i \in 1 .. j + 1 PROVE steps[i].base[r] = 0
          OBVIOUS
        <5>1. CASE i = 1
          BY <2>8, <5>1 DEF step
        <5>2. CASE i # 1
          <6>1. i - 1 \in 1 .. j /\ i - 1 \in 1 .. m /\ (i - 1) + 1 = i
            BY <2>2, <5>2
          <6> QED
            BY <2>2, <3>2, <6>1
        <5> QED
          BY <5>1, <5>2
      <4>3. known[r] + (j + 1) * K <= MaxAhead
        BY <4>1, <4>2 DEF Reach, K
      <4>4. (j + 1) * K = j * K + K /\ j * K \in Nat
        BY <1>2, <4>1, TimesMore
      <4> DEFINE x == j * K
      <4>5. known[r] + (x + K) <= MaxAhead /\ x \in Nat
        BY <4>3, <4>4
      <4>6. K \in Nat /\ known[r] \in Int /\ MaxAhead \in Nat
        BY <1>2, <1>4
      <4> HIDE DEF x
      <4>7. known[r] + x <= MaxAhead
        BY <4>5, <4>6
      <4> QED
        BY <4>7 DEF x
    <3> QED
      BY <1>4, <3>1, <3>2 DEF Reach, K, m
  <2> QED
    BY <1>2, <2>3, <2>6, <2>7, <2>8
<1> QED
  BY <1>5, <1>6, <1>7, StepsKept DEF Moved

-----------------------------------------------------------------------------
(* The third invariant holds, and the type invariant with it.                 *)

\* No more fences than steps in flight.
LEMMA FenceNowBound ==
  ASSUME Types
  PROVE  FenceNow \in 0 .. Len(steps) /\ Len(steps) \in Nat
<1> DEFINE n == Len(steps)
           A == {i \in 1 .. n : Scheduled(steps[i]) # {}}
<1>1. n \in Nat
  BY LenProperties DEF Types
<1>2. IsFiniteSet(1 .. n) /\ Cardinality(1 .. n) = n
  <2> HIDE DEF n
  <2>1. 1 \in Int /\ n \in Int
    BY <1>1
  <2>2. /\ IsFiniteSet(1 .. n)
        /\ Cardinality(1 .. n) = IF 1 > n THEN 0 ELSE n - 1 + 1
    BY <2>1, FS_Interval
  <2> QED
    BY <1>1, <2>2
<1>3. A \in SUBSET (1 .. n)
  OBVIOUS
<1>4. FenceNow = Cardinality(A)
  BY DEF FenceNow
<1> HIDE DEF A, n
<1>5. Cardinality(A) <= Cardinality(1 .. n)
  BY <1>2, <1>3, FS_Subset
<1>6. FenceNow \in Nat
  BY FenceNowType
<1> QED
  BY <1>1, <1>2, <1>4, <1>5, <1>6 DEF n

\* At first nothing is in flight.
LEMMA BoundsInit == Init => Bounds
<1> SUFFICES ASSUME Init PROVE Bounds
  OBVIOUS
<1>1. /\ Len(steps) = 0 /\ Len(deferred) = 0 /\ pc = "idle" /\ Depth \in Nat
  BY LimitsAssumption DEF Init
<1>2. FenceNow \in Nat
  <2>1. FenceNow = Count(steps, 0)
    BY <1>1 DEF FenceNow, Count
  <2> QED
    BY <2>1, CountType
<1>3. Slots
  BY <1>1 DEF Slots
<1>4. Fences
  <2>1. InOrder(deferred, FenceNow)
    BY <1>1 DEF InOrder
  <2>2. \A r \in Reqs : fence[r] = 0
    BY DEF Init, Nothing
  <2> QED
    BY <1>2, <2>1, <2>2 DEF Fences
<1>5. ASSUME NEW r \in Reqs PROVE Reach(r) /\ Settled(r)
  <2>1. known[r] = 0 /\ status[r] = "new"
    BY DEF Init, Nothing
  <2>2. MaxAhead \in Nat
    BY AheadSize
  <2> QED
    BY <1>1, <2>1, <2>2 DEF Reach, Settled
<1> QED
  BY <1>3, <1>4, <1>5 DEF Bounds

\* The third invariant is kept where the first two hold.
LEMMA BoundsStep == IInv /\ Ledger /\ Bounds /\ [Next]_vars => Bounds'
<1> SUFFICES ASSUME IInv, Ledger, Bounds, [Next]_vars PROVE Bounds'
  OBVIOUS
<1>1. Types /\ Queue /\ Given /\ Held /\ Received /\ MoreTypes /\ Wants
  BY Zenon DEF IInv, Ledger
<1>2. Fences'
  BY <1>1, FencesStep DEF Bounds
<1>3. Slots'
  BY <1>1, SlotsStep DEF Bounds
<1>4. \A r \in Reqs : Account(r) /\ Typed(r)
  BY <1>1, TypedHolds DEF Ledger
<1>5. \A r \in Reqs : Moved(r)
  <2>1. \A r \in Reqs : Basics(r)
    BY <1>4 DEF Basics, Account
  <2> QED
    BY <1>1, <2>1, Moves
<1>6. ASSUME NEW r \in Reqs PROVE Reach(r)' /\ Settled(r)'
  <2>1. steps \in Seq(Output) /\ Len(steps) <= Depth /\ Len(steps') <= Depth
    BY <1>1, <1>3 DEF Types, Bounds, Slots
  <2>2. tokens[r] > 0 => status[r] = "running"
    BY <1>1 DEF Given
  <2>3. Account(r) /\ Typed(r) /\ Moved(r) /\ Reach(r) /\ Settled(r)
    BY <1>4, <1>5 DEF Bounds
  <2> QED
    BY <2>1, <2>2, <2>3, ReachStep, SettledStep
<1> QED
  BY <1>2, <1>3, <1>6 DEF Bounds

\* The third invariant holds in every state.
LEMMA BoundsHold == Spec => []Bounds
<1>1. IInv /\ Ledger /\ Bounds /\ [Next]_vars => Bounds'
  BY BoundsStep
<1> QED
  BY <1>1, BoundsInit, IInvHolds, LedgerHolds, PTL DEF Spec

\* The steps in flight are what schedule() hands out.
LEMMA StepsTyped ==
  ASSUME Types, \A r \in Reqs : Fine(steps, r)
  PROVE  steps \in Seq(Step)
<1> DEFINE n == Len(steps)
<1>1. steps \in Seq(Output) /\ n \in Nat /\ \A i \in 1 .. n : steps[i] \in Output
  BY LenProperties, ElementOfSeq DEF Types
<1>2. ASSUME NEW i \in 1 .. n PROVE steps[i] \in Step
  <2> DEFINE s == steps[i]
  <2>1. /\ s.tokens \in [Reqs -> Int] /\ s.drafts \in [Reqs -> Int] /\ s.samples \in SUBSET Reqs
        /\ s.base \in [Reqs -> Int] /\ s.writes \in [Reqs -> SUBSET Blocks] /\ s.loads \in SUBSET Reqs
        /\ s = [tokens |-> s.tokens, drafts |-> s.drafts, samples |-> s.samples, base |-> s.base,
                writes |-> s.writes, loads |-> s.loads]
    BY <1>1 DEF Output
  <2>2. \A r \in Reqs : /\ s.tokens[r] \in 0 .. Budget /\ s.drafts[r] \in 0 .. SpecTokens
                        /\ s.base[r] \in 0 .. MaxTokens
    BY DEF Fine
  <2> HIDE DEF s
  <2>3. /\ s.tokens \in [Reqs -> 0 .. Budget] /\ s.drafts \in [Reqs -> 0 .. SpecTokens]
        /\ s.base \in [Reqs -> 0 .. MaxTokens]
    BY <2>1, <2>2
  <2>4. s \in Step
    BY <2>1, <2>3 DEF Step
  <2> QED
    BY <2>4 DEF s
<1>3. steps = [i \in 1 .. n |-> steps[i]]
  BY <1>1, LenProperties
<1> HIDE DEF n
<1>4. [i \in 1 .. n |-> steps[i]] \in Seq(Step)
  BY <1>1, <1>2
<1> QED
  BY <1>3, <1>4

\* So are the deferred frees, each of which waits for a step in flight.
LEMMA DeferredTyped ==
  ASSUME Types, Fences, Slots
  PROVE  deferred \in Seq([fence : 1 .. Depth, blocks : SUBSET Blocks])
<1> DEFINE n == Len(deferred)
           F == [fence : 1 .. Depth, blocks : SUBSET Blocks]
<1>1. deferred \in Seq(Freed) /\ n \in Nat /\ \A i \in 1 .. n : deferred[i] \in Freed
  BY LenProperties, ElementOfSeq DEF Types
<1>2. FenceNow \in 0 .. Depth
  BY FenceNowBound, LimitsAssumption DEF Slots
<1>3. ASSUME NEW i \in 1 .. n PROVE deferred[i] \in F
  <2>1. deferred[i].fence \in 1 .. FenceNow
    BY DEF Fences, InOrder
  <2>2. deferred[i].fence \in 1 .. Depth
    BY <1>2, <2>1, LimitsAssumption
  <2>3. deferred[i] \in Freed
    BY <1>1
  <2> QED
    BY <2>2, <2>3 DEF Freed
<1>4. deferred = [i \in 1 .. n |-> deferred[i]]
  BY <1>1, LenProperties
<1> HIDE DEF n, F
<1>5. [i \in 1 .. n |-> deferred[i]] \in Seq(F)
  BY <1>1, <1>3
<1> QED
  BY <1>4, <1>5 DEF F

\* The types and ranges follow from the three invariants.
LEMMA TypesFollow == IInv /\ Ledger /\ Bounds => TypeOK
<1> SUFFICES ASSUME IInv, Ledger, Bounds PROVE TypeOK
  OBVIOUS
<1>1. /\ Types /\ MoreTypes /\ Wants /\ Fences /\ Slots
      /\ \A r \in Reqs : Account(r) /\ Reach(r) /\ Settled(r)
  BY Zenon DEF IInv, Ledger, Bounds
<1>2. \A r \in Reqs : Within(r)
  <2> SUFFICES ASSUME NEW r \in Reqs PROVE Within(r)
    OBVIOUS
  <2>1. steps \in Seq(Output) /\ Len(steps) <= Depth /\ Typed(r)
    BY <1>1, TypedHolds DEF Types, Slots
  <2> QED
    BY <1>1, <2>1, CountersWithin
<1>3. steps \in Seq(Step) /\ Len(steps) <= Depth
  <2>1. \A r \in Reqs : Fine(steps, r)
    BY <1>1 DEF Account
  <2> QED
    BY <1>1, <2>1, StepsTyped DEF Slots
<1>4. deferred \in Seq([fence : 1 .. Depth, blocks : SUBSET Blocks])
  BY <1>1, DeferredTyped
<1>5. /\ out \in [Reqs -> 0 .. MaxOut] /\ good \in [Reqs -> 0 .. MaxTokens]
      /\ tokens \in [Reqs -> 0 .. Budget] /\ base \in [Reqs -> 0 .. MaxTokens]
  <2>1. \A r \in Reqs : /\ out[r] \in 0 .. MaxOut /\ good[r] \in 0 .. MaxTokens
                        /\ tokens[r] \in 0 .. Budget /\ base[r] \in 0 .. MaxTokens
    BY <1>1 DEF Account, Amounts
  <2>2. /\ out \in [Reqs -> Int] /\ good \in [Reqs -> Int] /\ tokens \in [Reqs -> Int]
        /\ base \in [Reqs -> Int]
    BY <1>1, Zenon DEF Types
  <2> QED
    BY <2>1, <2>2
<1>6. /\ computed \in [Reqs -> 0 .. MaxAhead]
      /\ placeholders \in [Reqs -> 0 .. Depth * (SpecTokens + 1)]
  <2>1. computed \in [Reqs -> Int] /\ placeholders \in [Reqs -> Int]
    BY <1>1, Zenon DEF Types
  <2> DEFINE a == 0 .. MaxAhead
             b == 0 .. Depth * (SpecTokens + 1)
  <2>2. \A r \in Reqs : computed[r] \in a /\ placeholders[r] \in b
    BY <1>2 DEF Within
  <2> HIDE DEF a, b
  <2>3. computed \in [Reqs -> a] /\ placeholders \in [Reqs -> b]
    BY <2>1, <2>2
  <2> QED
    BY <2>3 DEF a, b
<1>7. inFlight \in [Reqs -> 0 .. Depth * Budget] /\ stale \in [Reqs -> 0 .. Depth * Budget]
  <2>1. inFlight \in [Reqs -> Int] /\ stale \in [Reqs -> Int]
    BY <1>1, Zenon DEF MoreTypes
  <2> DEFINE a == 0 .. Depth * Budget
  <2>2. \A r \in Reqs : inFlight[r] \in a /\ stale[r] \in a
    BY <1>2 DEF Within
  <2> HIDE DEF a
  <2>3. inFlight \in [Reqs -> a] /\ stale \in [Reqs -> a]
    BY <2>1, <2>2
  <2> QED
    BY <2>3 DEF a
<1>8. fence \in [Reqs -> 0 .. Depth]
  <2>1. fence \in [Reqs -> Nat] /\ \A r \in Reqs : fence[r] <= FenceNow
    BY <1>1 DEF Types, Fences
  <2>2. FenceNow \in 0 .. Len(steps) /\ Len(steps) \in Nat /\ Depth \in Nat
    BY <1>1, FenceNowBound, LimitsAssumption
  <2>3. \A r \in Reqs : fence[r] \in 0 .. Depth
    BY <1>3, <2>1, <2>2
  <2> QED
    BY <2>1, <2>3
<1>9. known \in [Reqs -> 0 .. MaxAhead]
  <2>1. known \in [Reqs -> Int]
    BY <1>1, Zenon DEF MoreTypes
  <2>2. \A r \in Reqs : known[r] \in 0 .. MaxAhead
    BY <1>1 DEF Reach
  <2> QED
    BY <2>1, <2>2
<1>10. budget \in 0 .. Budget /\ want \in 0 .. Budget
  BY <1>1 DEF Wants
<1>11. /\ status \in [Reqs -> Statuses]
       /\ waiting \in Seq(Reqs) /\ skipped \in Seq(Reqs) /\ running \in Seq(Reqs)
       /\ passed \in Seq(Reqs) /\ blocks \in [Reqs -> SUBSET Blocks] /\ free \subseteq Blocks
       /\ received \subseteq Reqs /\ transfer \in [Reqs -> {"none", "asked", "going", "ended"}]
       /\ pc \in {"idle", "running", "waiting", "dispatch"} /\ index \in Nat \ {0}
  BY <1>1, Zenon DEF Types
<1>12. /\ drop \in [Reqs -> BOOLEAN] /\ chunk \in [Reqs -> BOOLEAN] /\ prefilling \subseteq Reqs
       /\ failed \subseteq Reqs /\ failures \in 0 .. MaxFailures /\ pad \subseteq Reqs
       /\ preempted \in BOOLEAN
  BY <1>1, Zenon DEF MoreTypes
<1> QED
  BY <1>3, <1>4, <1>5, <1>6, <1>7, <1>8, <1>9, <1>10, <1>11, <1>12, Zenon DEF TypeOK

\* Every variable keeps its type and its range: no counter outgrows what Depth steps of
\* at most Budget tokens and SpecTokens drafts can hold, no fence or deferred free waits
\* for a step that is not in flight, and the runner never knows more of a request than
\* its tokens and what the steps in flight may add.
THEOREM TypeCorrect == Spec => []TypeOK
BY TypesFollow, IInvHolds, LedgerHolds, BoundsHold, PTL

-----------------------------------------------------------------------------
(* The running requests are all in their queue, which does not outgrow its    *)
(* limit.                                                                     *)

\* Nobody else is taken out of a queue.
LEMMA WithoutRetains ==
  ASSUME NEW T, NEW s \in Seq(T), NEW S
  PROVE  /\ Len(Without(s, S)) <= Len(s)
         /\ \A i \in 1 .. Len(s) : s[i] \notin S =>
              \E k \in 1 .. Len(Without(s, S)) : Without(s, S)[k] = s[i]
<1> DEFINE f == CHOOSE g : Rest(s, S, g)
           Good(n) == /\ f[n] \in Seq(T) /\ Len(f[n]) <= n
                      /\ \A i \in 1 .. n : s[i] \notin S =>
                           \E k \in 1 .. Len(f[n]) : f[n][k] = s[i]
           Bad == {n \in Nat : n <= Len(s) /\ ~Good(n)}
<1>1. Len(s) \in Nat /\ \A i \in 1 .. Len(s) : s[i] \in T
  BY LenProperties
<1>2. Rest(s, S, f)
  BY RestExists, Zenon
<1>3. Without(s, S) = f[Len(s)]
  BY Zenon DEF Without, Rest
<1> HIDE DEF f
<1>4. f[0] = <<>> /\ \A i \in 1 .. Len(s) :
        f[i] = IF s[i] \in S THEN f[i - 1] ELSE Append(f[i - 1], s[i])
  <2>1. \A i \in 0 .. Len(s) :
          f[i] = IF i = 0 THEN <<>> ELSE IF s[i] \in S THEN f[i - 1] ELSE Append(f[i - 1], s[i])
    BY <1>2, Zenon DEF Rest
  <2>2. 0 \in 0 .. Len(s) /\ \A i \in 1 .. Len(s) : i \in 0 .. Len(s) /\ i # 0
    BY <1>1
  <2> QED
    BY <2>1, <2>2, Zenon
<1>5. Bad = {}
  <2> SUFFICES ASSUME Bad # {} PROVE FALSE
    OBVIOUS
  <2>1. PICK n \in Bad : \A m \in Bad : n <= m
    BY LeastIn
  <2>2. n # 0
    <3>1. Good(0)
      <4>1. <<>> \in Seq(T) /\ Len(<<>>) = 0
        OBVIOUS
      <4> QED
        BY <1>4, <4>1
    <3> HIDE DEF Good
    <3> QED
      BY <3>1, <2>1
  <2>3. n \in 1 .. Len(s) /\ Good(n - 1) /\ ~Good(n)
    <3> HIDE DEF Good
    <3>1. n \in 1 .. Len(s) /\ ~Good(n)
      BY <1>1, <2>1, <2>2
    <3>2. n - 1 \in Nat /\ n - 1 <= Len(s) /\ n - 1 \notin Bad
      BY <1>1, <2>1, <3>1
    <3> QED
      BY <3>1, <3>2
  <2>4. n \in Nat /\ \A i \in 1 .. n : i \in 1 .. n - 1 \/ i = n
    BY <1>1, <2>3
  <2>5. CASE s[n] \in S
    <3>1. f[n] = f[n - 1]
      BY <1>4, <2>3, <2>5
    <3>2. Len(f[n - 1]) <= n
      <4>1. Len(f[n - 1]) \in Nat
        BY <2>3, LenProperties
      <4> QED
        BY <2>3, <2>4, <4>1
    <3> QED
      BY <2>3, <2>4, <2>5, <3>1, <3>2, Zenon
  <2>6. CASE s[n] \notin S
    <3> DEFINE r == f[n - 1]
    <3>1. f[n] = Append(r, s[n]) /\ s[n] \in T /\ r \in Seq(T)
      BY <1>1, <1>4, <2>3, <2>6
    <3>2. /\ f[n] \in Seq(T) /\ Len(f[n]) = Len(r) + 1 /\ Len(r) \in Nat
          /\ \A k \in 1 .. Len(r) : f[n][k] = r[k]
          /\ f[n][Len(r) + 1] = s[n]
      BY <3>1, AppendProperties, LenProperties
    <3>3. Len(r) <= n - 1
      BY <2>3
    <3>4. \A i \in 1 .. n - 1 : s[i] \notin S => \E k \in 1 .. Len(r) : r[k] = s[i]
      BY <2>3
    <3> HIDE DEF r, Good
    <3>5. ASSUME NEW i \in 1 .. n, s[i] \notin S
          PROVE  \E k \in 1 .. Len(f[n]) : f[n][k] = s[i]
      <4>1. CASE i = n
        BY <3>2, <4>1
      <4>2. CASE i \in 1 .. n - 1
        <5>1. PICK k \in 1 .. Len(r) : r[k] = s[i]
          BY <3>4, <3>5, <4>2
        <5> QED
          BY <3>2, <5>1
      <4> QED
        BY <2>4, <4>1, <4>2
    <3>6. Len(f[n]) <= n
      BY <2>4, <3>2, <3>3
    <3> QED
      BY <2>3, <3>2, <3>5, <3>6, Zenon DEF Good
  <2> QED
    BY <2>5, <2>6
<1>6. Good(Len(s))
  <2> HIDE DEF Good
  <2>1. Len(s) \notin Bad /\ Len(s) <= Len(s)
    BY <1>1, <1>5
  <2> QED
    BY <1>1, <2>1
<1> QED
  BY <1>3, <1>6

\* r is in the queue of those that run.
InQueue(r) == \E i \in 1 .. Len(running) : running[i] = r

\* Whoever runs is in the queue, and there are not more than may be.
Listed ==
  /\ Len(running) <= MaxRunning
  /\ \A r \in Reqs : status[r] = "running" => InQueue(r)

\* Every step keeps that.
LEMMA ListedStep ==
  ASSUME Types, Listed, [Next]_vars
  PROVE  Listed'
<1> DEFINE Runs(r) == \E i \in 1 .. Len(running') : running'[i] = r
<1>0. /\ running \in Seq(Reqs) /\ status \in [Reqs -> Statuses]
      /\ Len(running) \in Nat /\ Len(running) <= MaxRunning /\ MaxRunning \in Nat
      /\ \A r \in Reqs : status[r] = "running" => \E i \in 1 .. Len(running) : running[i] = r
  BY LenProperties, LimitsAssumption DEF Types, Listed, InQueue
<1>1. ASSUME running' = running, \A r \in Reqs : status'[r] = "running" => status[r] = "running"
      PROVE  Listed'
  BY <1>0, <1>1 DEF Listed, InQueue
<1>2. ASSUME NEW S, running' = Without(running, S),
             \A r \in Reqs : status'[r] = "running" => status[r] = "running" /\ r \notin S
      PROVE  Listed'
  <2> DEFINE w == Without(running, S)
  <2>1. /\ Len(w) <= Len(running) /\ w \in Seq(Reqs)
        /\ \A i \in 1 .. Len(running) : running[i] \notin S =>
             \E k \in 1 .. Len(w) : w[k] = running[i]
    <3>1. running \in Seq(Reqs)
      BY <1>0
    <3> QED
      BY <3>1, WithoutRetains, WithoutKeeps
  <2>2. running' = w
    BY <1>2
  <2> HIDE DEF w
  <2>3. Len(w) <= MaxRunning
    <3>1. Len(w) \in Nat
      BY <2>1, LenProperties
    <3> QED
      BY <1>0, <2>1, <3>1
  <2>4. ASSUME NEW r \in Reqs, status'[r] = "running" PROVE \E k \in 1 .. Len(w) : w[k] = r
    <3>1. PICK i \in 1 .. Len(running) : running[i] = r
      BY <1>0, <1>2, <2>4
    <3>2. running[i] \notin S
      BY <1>2, <2>4, <3>1
    <3> QED
      BY <2>1, <3>1, <3>2
  <2> QED
    BY <2>2, <2>3, <2>4 DEF Listed, InQueue
<1>3. CASE Preempt
  <2>1. PICK v \in Reqs :
          /\ running' = SubSeq(running, 1, Len(running) - 1) /\ v = running[Len(running)]
          /\ status' = [status EXCEPT ![v] = "waiting"] /\ index <= Len(running)
    BY <1>3 DEF Preempt, Turn
  <2>2. Len(running) >= 1
    BY <1>0, <2>1 DEF Types
  <2>3. Len(running') = Len(running) - 1 /\ \A i \in 1 .. Len(running) - 1 : running'[i] = running[i]
    BY <1>0, <2>1, <2>2, FrontOfQueue
  <2>4. ASSUME NEW r \in Reqs, status'[r] = "running"
        PROVE  \E i \in 1 .. Len(running') : running'[i] = r
    <3>1. r # v /\ status[r] = "running"
      BY <1>0, <2>1, <2>4
    <3>2. PICK i \in 1 .. Len(running) : running[i] = r
      BY <1>0, <3>1
    <3>3. i \in 1 .. Len(running) - 1
      BY <1>0, <2>1, <3>1, <3>2
    <3> QED
      BY <2>3, <3>2, <3>3
  <2>5. Len(running') <= MaxRunning
    BY <1>0, <2>3
  <2> QED
    BY <2>4, <2>5 DEF Listed, InQueue
<1>4. CASE Admit
  <2>1. /\ running' = Append(running, Head1) /\ status' = [status EXCEPT ![Head1] = "running"]
        /\ Head1 \in Reqs /\ Len(running) < MaxRunning
    BY <1>4, HeadType DEF Admit, Admitting
  <2>2. /\ Len(running') = Len(running) + 1
        /\ \A i \in 1 .. Len(running) : running'[i] = running[i]
        /\ running'[Len(running) + 1] = Head1
    BY <1>0, <2>1, AppendProperties
  <2>3. ASSUME NEW r \in Reqs, status'[r] = "running"
        PROVE  \E i \in 1 .. Len(running') : running'[i] = r
    <3> HIDE DEF Head1
    <3>1. CASE r = Head1
      BY <1>0, <2>2, <3>1
    <3>2. CASE r # Head1
      <4>1. PICK i \in 1 .. Len(running) : running[i] = r
        BY <1>0, <2>1, <2>3, <3>2
      <4> QED
        BY <1>0, <2>2, <4>1
    <3> QED
      BY <3>1, <3>2
  <2>4. Len(running') <= MaxRunning
    BY <1>0, <2>1, <2>2
  <2> QED
    BY <2>3, <2>4 DEF Listed, InQueue
<1>5. CASE Updates
  <2>1. PICK accepted \in [Reqs -> 0 .. SpecTokens], eos \in SUBSET Head(steps).samples :
          steps # <<>> /\ Update(accepted, eos)
    BY <1>5 DEF Updates
  <2>2. PICK S \in SUBSET Reqs, gone \in SUBSET Reqs : Taken(S, gone)
    BY <2>1, UpdateTakes
  <2>3. /\ running' = Without(running, gone) /\ gone \subseteq S
        /\ status' = [r \in Reqs |-> IF r \in S THEN "done" ELSE status[r]]
    BY <2>2, Zenon DEF Taken
  <2>4. \A r \in Reqs : status'[r] = "running" => status[r] = "running" /\ r \notin gone
    BY <2>3
  <2> QED
    BY <1>2, <2>3, <2>4
<1>6. ASSUME NEW q \in Reqs, Abort(q) PROVE Listed'
  <2>1. /\ running' = Without(running, {q})
        /\ \/ status' = [status EXCEPT ![q] = "aborted"]
           \/ status' = [status EXCEPT ![q] = "done"]
    BY <1>6 DEF Abort
  <2>2. \A r \in Reqs : status'[r] = "running" => status[r] = "running" /\ r \notin {q}
    BY <1>0, <2>1
  <2> QED
    BY <1>2, <2>1, <2>2
<1>7. CASE Promote
  <2>1. running' = running /\ status' = [status EXCEPT ![Head1] = "waiting"]
    BY <1>7 DEF Promote, queues
  <2>2. \A r \in Reqs : status'[r] = "running" => status[r] = "running"
    <3> HIDE DEF Head1
    <3> QED
      BY <1>0, <2>1
  <2> QED
    BY <1>1, <2>1, <2>2
<1>8. ASSUME NEW n, Load(n) PROVE Listed'
  <2>1. running' = running /\ status' = [status EXCEPT ![Head1] = "loading"]
    BY <1>8 DEF Load
  <2>2. \A r \in Reqs : status'[r] = "running" => status[r] = "running"
    <3> HIDE DEF Head1
    <3> QED
      BY <1>0, <2>1
  <2> QED
    BY <1>1, <2>1, <2>2
<1>9. ASSUME NEW q \in Reqs, AddRequest(q) PROVE Listed'
  <2>1. running' = running /\ status' = [status EXCEPT ![q] = "waiting"]
    BY <1>9 DEF AddRequest
  <2>2. \A r \in Reqs : status'[r] = "running" => status[r] = "running"
    BY <1>0, <2>1
  <2> QED
    BY <1>1, <2>1, <2>2
<1>10. CASE Begin \/ Pass \/ Consider \/ Allocate \/ RunningDone \/ PassOver \/ WaitingDone
            \/ Dispatch \/ (\E r \in Reqs : TransferOf(r)) \/ UNCHANGED vars
  <2>1. running' = running /\ status' = status
    BY <1>10 DEF Begin, Pass, Consider, Allocate, RunningDone, PassOver, WaitingDone, Dispatch,
         TransferOf, EndTransfer, queues, vars
  <2> QED
    BY <1>1, <2>1
<1> QED
  BY <1>3, <1>4, <1>5, <1>6, <1>7, <1>8, <1>9, <1>10 DEF Next, Schedule

\* The longest chunk a turn hands out while a decode could run.
ChunkRoom == IF Guard > SpecTokens THEN Guard ELSE 1 + SpecTokens

\* The guard is on, and the budget is not used up before the last running request has
\* its turn, if nobody takes more than such a chunk.
HasRoom == Guard > 0 /\ Budget > (MaxRunning - 1) * ChunkRoom

\* A decode that could run.
Runnable(r) == status[r] = "running" /\ ~chunk[r] /\ ~Exhausted(r) /\ Behind(r) > 0

\* While a decode could run a turn spends no more than ChunkRoom on each request, and who
\* has had its turn has its tokens; a turn that preempts promises nothing.
Frugal ==
  /\ budget + (index - 1) * ChunkRoom >= Budget /\ want <= ChunkRoom
  /\ \A i \in 1 .. Len(running) : i < index /\ Runnable(running[i]) => tokens[running[i]] > 0
Spread ==
  ~preempted =>
    /\ pc = "running" => index <= Len(running) + 1 /\ ((\E r \in Reqs : Runnable(r)) => Frugal)
    /\ pc \in {"waiting", "dispatch"} => \A r \in Reqs : Runnable(r) => tokens[r] > 0

\* ChunkRoom is enough for a chunk that the guard cuts, and for a decode.
LEMMA RoomSize ==
  ChunkRoom \in Nat /\ Guard <= ChunkRoom /\ 1 + SpecTokens <= ChunkRoom
BY LimitsAssumption DEF ChunkRoom

\* A request that runs as before could run before.
LEMMA RunnableKept ==
  ASSUME NEW r, UNCHANGED <<out, chunk, placeholders>>,
         status'[r] = "running" => status[r] = "running" /\ computed'[r] = computed[r]
  PROVE  Runnable(r)' => Runnable(r)
<1> SUFFICES ASSUME Runnable(r)' PROVE Runnable(r)
  OBVIOUS
<1>1. status[r] = "running" /\ computed'[r] = computed[r] /\ ~chunk[r]
  BY DEF Runnable
<1>2. Behind(r)' = Behind(r)
  BY <1>1 DEF Behind, Drafts, NumTokens
<1>3. Exhausted(r)' = Exhausted(r)
  BY <1>1 DEF Exhausted
<1> QED
  BY <1>1, <1>2, <1>3 DEF Runnable

\* A request whose turn it is wants no more than ChunkRoom while a decode could run, and
\* is not passed over when it could run itself.
LEMMA Modest ==
  ASSUME Guard > 0, Types, Queue, Given, Listed, Turn,
         Typed(Current), Amounts(Current), Placed(Current)
  PROVE  /\ (\E r \in Reqs : Runnable(r)) => NewTokens(Current) <= ChunkRoom
         /\ Runnable(Current) => NewTokens(Current) > 0
<1> DEFINE c == Current
<1>1. c \in Reqs /\ status[c] = "running" /\ Idle(c)
  BY CurrentType, IdleInTurn DEF Current
<1>2. Behind(c) \in Int /\ budget \in Int /\ budget > 0 /\ Guard \in Nat
  BY <1>1, BehindType, LimitsAssumption DEF Types, Turn
<1> HIDE DEF c
<1>3. Runnable(c) => NewTokens(c) > 0
  <2> SUFFICES ASSUME Runnable(c) PROVE NewTokens(c) > 0
    OBVIOUS
  <2>1. Behind(c) > 0
    BY DEF Runnable
  <2> HIDE DEF Behind
  <2> QED
    BY <1>2, <2>1 DEF NewTokens, Least
<1>4. ASSUME NEW r \in Reqs, Runnable(r) PROVE NewTokens(c) <= ChunkRoom
  <2>1. CASE chunk[c]
    <3>1. r # c /\ status[r] = "running" /\ ~chunk[r] /\ Behind(r) > 0
      BY <1>4, <2>1 DEF Runnable
    <3>2. r \in Elements(running) \ {c}
      BY <3>1, PoolType DEF Listed, InQueue, Elements
    <3>3. \E q \in Elements(running) \ {c} : ~chunk[q] /\ Behind(q) > 0
      BY <3>1, <3>2
    <3> HIDE DEF Behind
    <3>4. NewTokens(c) <= Guard
      BY <1>2, <2>1, <3>3 DEF NewTokens, Least
    <3>5. NewTokens(c) \in Int
      BY <1>2 DEF NewTokens, Least
    <3> QED
      BY <1>2, <3>4, <3>5, RoomSize
  <2>2. CASE ~chunk[c]
    <3>1. placeholders[c] \in Int /\ NumTokens(c) \in Int /\ computed[c] = NumTokens(c) + placeholders[c] - 1
      BY <1>1, <2>2 DEF Placed, Typed, Idle, c
    <3>2. Behind(c) <= 1 + SpecTokens
      BY <1>1, <3>1, BehindType DEF c
    <3> HIDE DEF Behind
    <3>3. NewTokens(c) <= Behind(c) /\ NewTokens(c) \in Int
      BY <1>2, <2>2 DEF NewTokens, Least
    <3> QED
      BY <1>2, <3>2, <3>3, RoomSize, LimitsAssumption
  <2> QED
    BY <2>1, <2>2
<1> QED
  BY <1>3, <1>4 DEF c

\* What is left of the budget covers the requests whose turn is still to come.
LEMMA BudgetLeft ==
  ASSUME HasRoom, NEW i \in Nat, i <= MaxRunning, i > 0, NEW b \in Int,
         b + (i - 1) * ChunkRoom >= Budget
  PROVE  b > 0
<1> DEFINE k == i - 1
           m == MaxRunning - 1
<1>1. k \in 0 .. m /\ m \in Nat /\ ChunkRoom \in Nat /\ Budget \in Int
  BY LimitsAssumption, RoomSize
<1>2. /\ k * ChunkRoom \in Nat /\ m * ChunkRoom \in Nat /\ k * ChunkRoom <= m * ChunkRoom
  <2> HIDE DEF k, m, ChunkRoom
  <2> QED
    BY <1>1, TimesGrows
<1>3. Budget > m * ChunkRoom /\ b + k * ChunkRoom >= Budget
  BY DEF HasRoom
<1> HIDE DEF k, m, ChunkRoom
<1> DEFINE x == k * ChunkRoom
           y == m * ChunkRoom
<1>4. x \in Nat /\ y \in Nat /\ x <= y /\ Budget > y /\ b + x >= Budget
  BY <1>2, <1>3
<1> HIDE DEF x, y
<1> QED
  BY <1>1, <1>4

\* A turn that spends at most ChunkRoom keeps the reserve.
LEMMA SpendsRoom ==
  ASSUME NEW i \in Nat, i > 0, NEW b \in Int, NEW w \in Nat, w <= ChunkRoom,
         b + (i - 1) * ChunkRoom >= Budget, NEW c, c = b - w, NEW j, j = i + 1
  PROVE  c + (j - 1) * ChunkRoom >= Budget
<1> DEFINE k == i - 1
<1>1. k \in Nat /\ ChunkRoom \in Nat /\ Budget \in Int /\ j - 1 = k + 1
  BY LimitsAssumption, RoomSize
<1>2. b + k * ChunkRoom >= Budget
  OBVIOUS
<1> HIDE DEF k, ChunkRoom
<1>3. k * ChunkRoom \in Nat /\ (k + 1) * ChunkRoom = k * ChunkRoom + ChunkRoom
  BY <1>1, TimesMore
<1>4. b - w + (k + 1) * ChunkRoom >= Budget
  <2> DEFINE x == k * ChunkRoom
             y == (k + 1) * ChunkRoom
  <2>1. x \in Nat /\ y = x + ChunkRoom /\ b + x >= Budget
    BY <1>2, <1>3
  <2> HIDE DEF x, y
  <2>2. b - w + y >= Budget
    BY <1>1, <2>1
  <2> QED
    BY <2>2 DEF y
<1> QED
  BY <1>1, <1>4

\* Every step keeps that.
LEMMA SpreadStep ==
  ASSUME HasRoom, Types, MoreTypes, Queue, Given, Wants, Listed, Spread, [Next]_vars,
         \A r \in Reqs : Typed(r) /\ Amounts(r) /\ Placed(r) /\ Moved(r)
  PROVE  Spread'
<1>0. /\ index \in Nat /\ index > 0 /\ budget \in Int /\ want \in Nat /\ Budget \in Int
      /\ ChunkRoom \in Nat /\ Len(running) \in Nat /\ Len(running) <= MaxRunning
      /\ MaxRunning \in Nat /\ Guard > 0
  BY PoolType, RoomSize, LimitsAssumption DEF Types, Wants, Listed, HasRoom
<1>a. ASSUME pc' = "idle" \/ preempted' PROVE Spread'
  BY <1>a DEF Spread
<1>b. ASSUME pc' = pc, preempted' = preempted, tokens' = tokens, pc \in {"waiting", "dispatch"},
             \A r \in Reqs : Runnable(r)' => Runnable(r)
      PROVE  Spread'
  BY <1>b DEF Spread
<1>c. ASSUME UNCHANGED <<status, out, chunk, placeholders, computed>>
      PROVE  \A r : Runnable(r)' <=> Runnable(r)
  BY <1>c DEF Runnable, Behind, Drafts, NumTokens, Exhausted
<1>d. ASSUME Turn, ~preempted
      PROVE  /\ index <= Len(running) + 1
             /\ (\E r \in Reqs : Runnable(r)) => Frugal
  BY <1>d DEF Spread, Turn
<1>e. ASSUME Turn
      PROVE  /\ Current \in Reqs /\ Typed(Current) /\ Amounts(Current) /\ Placed(Current)
             /\ (\E r \in Reqs : Runnable(r)) => NewTokens(Current) <= ChunkRoom
             /\ Runnable(Current) => NewTokens(Current) > 0
  <2>1. Current \in Reqs
    BY <1>e, CurrentType
  <2>2. Typed(Current) /\ Amounts(Current) /\ Placed(Current)
    BY <2>1
  <2> QED
    BY <1>0, <1>e, <2>1, <2>2, Modest
<1>1. CASE Begin
  <2>1. /\ pc' = "running" /\ index' = 1 /\ budget' = Budget /\ want' = 0 /\ running' = running
    BY <1>1 DEF Begin, queues
  <2>2. ~\E i \in 1 .. Len(running) : i < 1
    BY <1>0
  <2>3. Frugal'
    <3>1. (index' - 1) * ChunkRoom = 0
      BY <1>0, <2>1
    <3> HIDE DEF ChunkRoom
    <3>2. budget' + (index' - 1) * ChunkRoom >= Budget /\ want' <= ChunkRoom
      BY <1>0, <2>1, <3>1
    <3> QED
      BY <2>1, <2>2, <3>2 DEF Frugal
  <2> QED
    BY <1>0, <2>1, <2>3 DEF Spread
<1>2. CASE Pass
  <2>1. /\ Turn /\ want = 0 /\ (Exhausted(Current) \/ NewTokens(Current) = 0) /\ index' = index + 1
        /\ UNCHANGED <<status, out, chunk, placeholders, computed, running, pc, budget, tokens,
                       preempted, want>>
    BY <1>2 DEF Pass, queues, counters
  <2> SUFFICES ASSUME ~preempted PROVE Spread'
    BY <2>1 DEF Spread
  <2>2. \A r : Runnable(r)' <=> Runnable(r)
    BY <1>c, <2>1
  <2>3. ~Runnable(running[index])
    BY <1>e, <2>1 DEF Runnable, Current
  <2>4. index' <= Len(running) + 1
    BY <1>0, <2>1 DEF Turn
  <2>5. ASSUME \E r \in Reqs : Runnable(r) PROVE Frugal'
    <3>1. Frugal
      BY <1>d, <2>1, <2>5
    <3>2. budget' + (index' - 1) * ChunkRoom >= Budget
      <4>1. /\ want <= ChunkRoom /\ budget + (index - 1) * ChunkRoom >= Budget
            /\ budget' = budget - want /\ index' = index + 1
        BY <1>0, <2>1, <3>1 DEF Frugal
      <4> HIDE DEF ChunkRoom
      <4> QED
        BY <1>0, <4>1, SpendsRoom, Zenon
    <3>3. budget' + (index' - 1) * ChunkRoom >= Budget /\ want' <= ChunkRoom
      BY <2>1, <3>1, <3>2, Zenon DEF Frugal
    <3>4. ASSUME NEW i \in 1 .. Len(running), i < index + 1, Runnable(running[i])
          PROVE  tokens[running[i]] > 0
      <4>1. i # index
        BY <2>3, <3>4
      <4>2. i < index
        BY <1>0, <3>4, <4>1
      <4> QED
        BY <3>1, <3>4, <4>2 DEF Frugal
    <3> QED
      BY <2>1, <2>2, <3>3, <3>4 DEF Frugal
  <2> QED
    BY <2>1, <2>2, <2>4, <2>5 DEF Spread, Turn
<1>3. CASE Consider
  <2>1. /\ Turn /\ want' = NewTokens(Current)
        /\ UNCHANGED <<status, out, chunk, placeholders, computed, running, pc, budget, tokens,
                       preempted, index>>
    BY <1>3 DEF Consider, queues, counters
  <2> SUFFICES ASSUME ~preempted PROVE Spread'
    BY <2>1 DEF Spread
  <2>2. \A r : Runnable(r)' <=> Runnable(r)
    BY <1>c, <2>1
  <2>3. ASSUME \E r \in Reqs : Runnable(r) PROVE Frugal'
    <3>1. Frugal /\ want' <= ChunkRoom
      BY <1>d, <1>e, <2>1, <2>3
    <3> QED
      BY <2>1, <2>2, <3>1 DEF Frugal
  <2> QED
    BY <1>d, <2>1, <2>2, <2>3 DEF Spread, Turn
<1>4. CASE Allocate
  <2>1. /\ Turn /\ want > 0 /\ index' = index + 1 /\ want' = 0 /\ budget' = budget - want
        /\ tokens' = [tokens EXCEPT ![Current] = want]
        /\ UNCHANGED <<status, out, chunk, placeholders, computed, running, pc, preempted>>
    BY <1>4 DEF Allocate, queues, counters
  <2> SUFFICES ASSUME ~preempted PROVE Spread'
    BY <2>1 DEF Spread
  <2>2. \A r : Runnable(r)' <=> Runnable(r)
    BY <1>c, <2>1
  <2>3. index' <= Len(running) + 1
    BY <1>0, <2>1 DEF Turn
  <2>4. ASSUME \E r \in Reqs : Runnable(r) PROVE Frugal'
    <3>1. Frugal
      BY <1>d, <2>1, <2>4
    <3>2. budget' + (index' - 1) * ChunkRoom >= Budget
      <4>1. /\ want <= ChunkRoom /\ budget + (index - 1) * ChunkRoom >= Budget
            /\ budget' = budget - want /\ index' = index + 1
        BY <1>0, <2>1, <3>1 DEF Frugal
      <4> HIDE DEF ChunkRoom
      <4> QED
        BY <1>0, <4>1, SpendsRoom, Zenon
    <3>3. budget' + (index' - 1) * ChunkRoom >= Budget /\ want' <= ChunkRoom
      BY <1>0, <2>1, <3>2
    <3>4. ASSUME NEW i \in 1 .. Len(running), i < index + 1, Runnable(running[i])
          PROVE  tokens'[running[i]] > 0
      <4>1. running[i] \in Reqs /\ tokens \in [Reqs -> Int]
        BY PoolType DEF Types
      <4>2. CASE running[i] = Current
        <5> HIDE DEF Current
        <5> QED
          BY <2>1, <4>1, <4>2
      <4>3. CASE running[i] # Current
        <5>1. i # index
          BY <4>3 DEF Current
        <5>2. i < index
          BY <1>0, <3>4, <5>1
        <5>3. tokens[running[i]] > 0
          BY <3>1, <3>4, <5>2 DEF Frugal
        <5> HIDE DEF Current
        <5> QED
          BY <2>1, <4>1, <4>3, <5>3
      <4> QED
        BY <4>2, <4>3
    <3> QED
      BY <2>1, <2>2, <3>3, <3>4 DEF Frugal
  <2> QED
    BY <2>1, <2>2, <2>3, <2>4 DEF Spread, Turn
<1>5. CASE Preempt
  BY <1>5, <1>a DEF Preempt
<1>6. CASE RunningDone
  <2>1. /\ pc = "running" /\ (index > Len(running) \/ budget = 0)
        /\ pc' = IF preempted THEN "dispatch" ELSE "waiting"
        /\ UNCHANGED <<status, out, chunk, placeholders, computed, tokens, preempted>>
    BY <1>6 DEF RunningDone, counters, locals
  <2> SUFFICES ASSUME ~preempted PROVE Spread'
    BY <2>1 DEF Spread
  <2>2. \A r : Runnable(r)' <=> Runnable(r)
    BY <1>c, <2>1
  <2>3. ASSUME NEW r \in Reqs, Runnable(r) PROVE tokens[r] > 0
    <3>1. Frugal
      BY <2>1, <2>3 DEF Spread
    <3>2. PICK i \in 1 .. Len(running) : running[i] = r
      BY <2>3 DEF Runnable, Listed, InQueue
    <3>3. i < index
      <4>1. CASE index > Len(running)
        BY <1>0, <4>1
      <4>2. CASE budget = 0
        <5>1. budget + (index - 1) * ChunkRoom >= Budget
          BY <3>1 DEF Frugal
        <5>2. ~(budget > 0)
          BY <4>2
        <5>3. ~(index <= MaxRunning)
          <6> HIDE DEF ChunkRoom, HasRoom
          <6> QED
            BY <1>0, <5>1, <5>2, BudgetLeft, Zenon
        <5> QED
          BY <1>0, <5>3
      <4> QED
        BY <2>1, <4>1, <4>2
    <3> QED
      BY <2>3, <3>1, <3>2, <3>3 DEF Frugal
  <2> QED
    BY <2>1, <2>2, <2>3 DEF Spread
<1>7. CASE PassOver \/ WaitingDone
  <2>1. /\ pc = "waiting" /\ pc' \in {"waiting", "dispatch"}
        /\ UNCHANGED <<status, out, chunk, placeholders, computed, tokens, preempted>>
    BY <1>7 DEF PassOver, WaitingDone, Admitting, counters, locals
  <2>2. \A r : Runnable(r)' <=> Runnable(r)
    BY <1>c, <2>1
  <2> QED
    BY <2>1, <2>2 DEF Spread
<1>8. CASE Promote
  <2>1. /\ pc = "waiting" /\ status' = [status EXCEPT ![Head1] = "waiting"]
        /\ \/ computed' = computed
           \/ \E x : computed' = [computed EXCEPT ![Head1] = x]
        /\ UNCHANGED <<out, chunk, placeholders, pc, tokens, preempted>>
    BY <1>8 DEF Promote, Admitting, locals
  <2>2. status \in [Reqs -> Statuses] /\ computed \in [Reqs -> Int]
    BY DEF Types
  <2>3. ASSUME NEW r \in Reqs PROVE Runnable(r)' => Runnable(r)
    <3>1. status'[r] = "running" => status[r] = "running" /\ computed'[r] = computed[r]
      <4> HIDE DEF Head1
      <4> QED
        BY <2>1, <2>2
    <3> QED
      BY <2>1, <3>1, RunnableKept
  <2> QED
    BY <1>b, <2>1, <2>3
<1>9. CASE \E r \in Reqs : \E n \in Matches(r) : Load(n)
  <2>1. /\ pc = "waiting" /\ status' = [status EXCEPT ![Head1] = "loading"]
        /\ \E x : computed' = [computed EXCEPT ![Head1] = x]
        /\ UNCHANGED <<out, chunk, placeholders, pc, tokens, preempted>>
    BY <1>9 DEF Load, Admitting
  <2>2. status \in [Reqs -> Statuses] /\ computed \in [Reqs -> Int]
    BY DEF Types
  <2>3. ASSUME NEW r \in Reqs PROVE Runnable(r)' => Runnable(r)
    <3>1. status'[r] = "running" => status[r] = "running" /\ computed'[r] = computed[r]
      <4> HIDE DEF Head1
      <4> QED
        BY <2>1, <2>2
    <3> QED
      BY <2>1, <3>1, RunnableKept
  <2> QED
    BY <1>b, <2>1, <2>3
<1>10. CASE Admit
  <2>1. /\ pc = "waiting" /\ pc' = pc /\ preempted' = preempted
        /\ status' = [status EXCEPT ![Head1] = "running"] /\ status[Head1] = "waiting"
        /\ Head1 \in Reqs /\ tokens' = [tokens EXCEPT ![Head1] = FirstTokens(Head1)]
        /\ UNCHANGED <<out, chunk, placeholders, computed>>
    BY <1>10, HeadType DEF Admit, Admitting, Ready, counters
  <2> SUFFICES ASSUME ~preempted, NEW r \in Reqs, Runnable(r)' PROVE tokens'[r] > 0
    BY <2>1 DEF Spread
  <2>2. status \in [Reqs -> Statuses] /\ tokens \in [Reqs -> Int]
    BY DEF Types
  <2>3. CASE r = Head1
    <3>1. status[r] = "waiting" /\ status'[r] = "running"
      <4> HIDE DEF Head1
      <4> QED
        BY <2>1, <2>2, <2>3
    <3>2. Admitted(r)
      BY <3>1 DEF Moved, Stays, Allocated, Preempted, Promoted, LoadAsked, Added, Aborted, Ended,
         Dispatched, Heeded
    <3> QED
      BY <3>2, LimitsAssumption DEF Admitted
  <2>4. CASE r # Head1
    <3>1. status'[r] = status[r] /\ tokens'[r] = tokens[r]
      <4> HIDE DEF Head1
      <4> QED
        BY <2>1, <2>2, <2>4
    <3>2. Runnable(r)
      BY <2>1, <3>1, RunnableKept
    <3> QED
      BY <2>1, <3>1, <3>2 DEF Spread
  <2> QED
    BY <2>3, <2>4
<1>11. CASE Dispatch
  BY <1>11, <1>a DEF Dispatch
<1>12. CASE Updates
  BY <1>12, <1>a DEF Updates, Update
<1>13. CASE \E r \in Reqs : AddRequest(r)
  BY <1>13, <1>a DEF AddRequest
<1>14. CASE \E r \in Reqs : Abort(r)
  BY <1>14, <1>a DEF Abort
<1>15. CASE \E r \in Reqs : TransferOf(r)
  BY <1>15, <1>a DEF TransferOf, EndTransfer
<1>16. CASE UNCHANGED vars
  <2>1. UNCHANGED <<status, out, chunk, placeholders, computed, pc, budget, index, want, tokens,
                    preempted, running>>
    BY <1>16 DEF vars, queues, counters, locals
  <2>2. \A r : Runnable(r)' <=> Runnable(r)
    BY <1>c, <2>1
  <2>3. Frugal' <=> Frugal
    BY <2>1, <2>2 DEF Frugal
  <2> QED
    BY <2>1, <2>2, <2>3 DEF Spread
<1> QED
  BY <1>1, <1>2, <1>3, <1>4, <1>5, <1>6, <1>7, <1>8, <1>9, <1>10, <1>11, <1>12, <1>13, <1>14,
     <1>15,
     <1>16 DEF Next, Schedule

\* Nobody runs at first; and both hold in every state.
LEMMA ListedHolds == Spec => []Listed
<1>1. Init => Listed
  <2> SUFFICES ASSUME Init PROVE Listed
    OBVIOUS
  <2>1. Len(running) = 0 /\ \A r \in Reqs : status[r] = "new"
    BY EmptySeq DEF Init
  <2> QED
    BY <2>1, LimitsAssumption DEF Listed
<1>2. IInv /\ Listed /\ [Next]_vars => Listed'
  BY ListedStep DEF IInv
<1> QED
  BY <1>1, <1>2, IInvHolds, PTL DEF Spec

\* With room in the budget, what a turn has spent and handed out holds in every state.
LEMMA SpreadHolds ==
  ASSUME HasRoom
  PROVE  Spec => []Spread
<1>1. Init => Spread
  BY DEF Init, Spread
<1>2. IInv /\ Ledger /\ Listed /\ Spread /\ [Next]_vars => Spread'
  <2> SUFFICES ASSUME IInv, Ledger, Listed, Spread, [Next]_vars PROVE Spread'
    OBVIOUS
  <2>1. Types /\ Queue /\ Given /\ Held /\ Received /\ MoreTypes /\ Wants
    BY Zenon DEF IInv, Ledger
  <2>2. \A r \in Reqs : Typed(r) /\ Amounts(r) /\ Placed(r)
    BY <2>1, TypedHolds DEF Ledger, Account
  <2>3. \A r \in Reqs : Moved(r)
    <3>1. \A r \in Reqs : Basics(r)
      BY <2>2 DEF Basics
    <3> QED
      BY <2>1, <3>1, Moves
  <2> QED
    BY <2>1, <2>2, <2>3, SpreadStep
<1> QED
  BY <1>1, <1>2, IInvHolds, LedgerHolds, ListedHolds, PTL DEF Spec

\* With the guard on and room in the budget for a cut chunk, or a decode with its
\* drafts, of each running request but one, a step that preempts nobody gives tokens to
\* every decode that could run: no prefill, no place in the queue and no order of
\* admissions leaves it out.
THEOREM DecodesGuarded ==
  ASSUME HasRoom
  PROVE  Spec => GuardedDecodes
<1>1. Spread =>
        [Dispatch /\ ~preempted => \A r \in Reqs :
           status[r] = "running" /\ ~chunk[r] /\ ~Exhausted(r) /\ Behind(r) > 0 => tokens[r] > 0]_vars
  BY DEF Spread, Dispatch, Runnable
<1> QED
  BY <1>1, SpreadHolds, PTL DEF GuardedDecodes
=============================================================================
