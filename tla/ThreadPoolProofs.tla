--------------------------- MODULE ThreadPoolProofs ---------------------------
(***************************************************************************)
(* Proofs of the invariants of ThreadPool for any number of workers, jobs  *)
(* and changes of the limits.  The first half is about what the operations *)
(* do to the counts of workers and to the job list, for pools of any size. *)
(*                                                                         *)
(* Normal and priority workers obey the same rules with counters of their  *)
(* own, so the argument is made once, for a class of workers (ClassInv),   *)
(* as a property of a function w from workers to states: the operations    *)
(* pass such functions on before one of them becomes worker'.              *)
(***************************************************************************)
EXTENDS ThreadPool, FiniteSetTheorems, TLAPS

Live == {"starting", "asleep", "woken", "busy"}
States == Live \cup {"none"}

\* The workers of a class that are in one of the states S.
Members(w, class, S) == {x \in class : w[x] \in S}
Count(w, class, S) == Cardinality(Members(w, class, S))

Maps == [AllWorkers -> States]

-----------------------------------------------------------------------------
(***************************************************************************)
(* Counting workers.                                                       *)
(***************************************************************************)

\* The classes are finite sets of workers.
LEMMA ClassFinite ==
  ASSUME NEW class \in {Workers, PrioWorkers}
  PROVE  IsFiniteSet(class) /\ class \subseteq AllWorkers
BY ThreadPoolAssumption DEF AllWorkers

\* Counts are natural numbers, and 0 only of the empty set.
LEMMA CountType ==
  ASSUME NEW class \in {Workers, PrioWorkers}, NEW w, NEW S
  PROVE  /\ Count(w, class, S) \in Nat /\ IsFiniteSet(Members(w, class, S))
         /\ Count(w, class, S) = 0 <=> Members(w, class, S) = {}
<1>1. Members(w, class, S) \in SUBSET class
  BY DEF Members
<1>2. IsFiniteSet(Members(w, class, S))
  BY <1>1, ClassFinite, FS_Subset
<1> QED
  BY <1>2, FS_CardinalityType, FS_EmptySet DEF Count

\* Only the worker x has another state in v than in w.
Moved(v, w, x) == \A y \in AllWorkers \ {x} : v[y] = w[y]

\* What a move of one worker does to a count.
LEMMA CountMoves ==
  ASSUME NEW class \in {Workers, PrioWorkers}, NEW v, NEW w, NEW x \in class,
         Moved(v, w, x), NEW S
  PROVE  /\ v[x] \in S /\ w[x] \notin S => Count(v, class, S) = Count(w, class, S) + 1
         /\ v[x] \notin S /\ w[x] \in S => Count(v, class, S) = Count(w, class, S) - 1
         /\ (v[x] \in S <=> w[x] \in S) => Count(v, class, S) = Count(w, class, S)
<1> DEFINE M == Members(w, class, S)
           N == Members(v, class, S)
<1>1. IsFiniteSet(M) /\ Cardinality(M) \in Nat
  BY CountType DEF Count
<1>2. \A y \in class \ {x} : y \in N <=> y \in M
  BY ClassFinite DEF Members, Moved
<1>3. (x \in M <=> w[x] \in S) /\ (x \in N <=> v[x] \in S) /\ M \subseteq class /\ N \subseteq class
  BY DEF Members
<1>4. Count(w, class, S) = Cardinality(M) /\ Count(v, class, S) = Cardinality(N)
  BY DEF Count
<1> HIDE DEF M, N
<1>5. CASE v[x] \in S /\ w[x] \notin S
  <2>1. N = M \cup {x}
    BY <1>2, <1>3, <1>5
  <2> QED
    BY <1>1, <1>3, <1>4, <1>5, <2>1, FS_AddElement
<1>6. CASE v[x] \notin S /\ w[x] \in S
  <2>1. N = M \ {x}
    BY <1>2, <1>3, <1>6
  <2> QED
    BY <1>1, <1>3, <1>4, <1>6, <2>1, FS_RemoveElement, Zenon
<1>7. CASE v[x] \in S <=> w[x] \in S
  <2>1. N = M
    BY <1>2, <1>3, <1>7
  <2> QED
    BY <1>4, <1>7, <2>1
<1> QED
  BY <1>5, <1>6, <1>7

\* Counts of disjoint sets of states add up.
LEMMA CountSum ==
  ASSUME NEW class \in {Workers, PrioWorkers}, NEW w, NEW S, NEW T, S \cap T = {}
  PROVE  Count(w, class, S \cup T) = Count(w, class, S) + Count(w, class, T)
<1> DEFINE A == Members(w, class, S)
           B == Members(w, class, T)
<1>1. Members(w, class, S \cup T) = A \cup B /\ A \cap B = {}
  BY DEF Members
<1>2. IsFiniteSet(A) /\ IsFiniteSet(B) /\ Cardinality(A) \in Nat /\ Cardinality(B) \in Nat
  BY CountType DEF Count
<1> HIDE DEF A, B
<1>3. Cardinality(A \cup B) = Cardinality(A) + Cardinality(B) - Cardinality(A \cap B)
  BY <1>2, FS_Union
<1>4. Cardinality(A \cap B) = 0
  BY <1>1, FS_EmptySet
<1>5. Cardinality(Members(w, class, S \cup T)) = Cardinality(A \cup B)
  BY <1>1, Zenon
<1> QED
  BY <1>2, <1>3, <1>4, <1>5 DEF Count, A, B

\* The live workers are those that sleep, those that are awake and those that are busy.
LEMMA CountLive ==
  ASSUME NEW class \in {Workers, PrioWorkers}, NEW w
  PROVE  /\ Count(w, class, Live) = Count(w, class, {"asleep"})
              + Count(w, class, {"starting", "woken", "busy"})
         /\ Count(w, class, {"starting", "woken", "busy"}) =
              Count(w, class, {"starting", "woken"}) + Count(w, class, {"busy"})
<1>1. /\ Live = {"asleep"} \cup {"starting", "woken", "busy"}
      /\ {"starting", "woken", "busy"} = {"starting", "woken"} \cup {"busy"}
      /\ {"asleep"} \cap {"starting", "woken", "busy"} = {}
      /\ {"starting", "woken"} \cap {"busy"} = {}
  BY DEF Live
<1> QED
  BY <1>1, CountSum

\* Counts look at the workers of the class only.
LEMMA CountSame ==
  ASSUME NEW class \in {Workers, PrioWorkers}, NEW v, NEW w, NEW S,
         \A x \in class : v[x] \in S <=> w[x] \in S
  PROVE  Count(v, class, S) = Count(w, class, S)
BY DEF Count, Members

-----------------------------------------------------------------------------
(***************************************************************************)
(* One class of workers: n of them live, max may, jobs are queued that     *)
(* they could take.                                                        *)
(***************************************************************************)

\* The counter is exact, no more workers sleep than may live, and while one of
\* them sleeps enough others are awake for the jobs and for the limit.
ClassInv(w, class, n, max, jobs, quit) ==
  /\ n = Count(w, class, Live)
  /\ Count(w, class, {"asleep"}) <= max
  /\ ~quit /\ Count(w, class, {"asleep"}) # 0 =>
       jobs + Positive(n - max) <= Count(w, class, {"starting", "woken"})

\* What the lemmas below have in common.
Class(w, class, n, max, jobs, quit) ==
  /\ class \in {Workers, PrioWorkers} /\ w \in Maps
  /\ max \in Nat /\ jobs \in Nat /\ quit \in BOOLEAN
  /\ ClassInv(w, class, n, max, jobs, quit)

Active == {"starting", "woken", "busy"}

\* The counts that ClassInv speaks of are natural numbers.
LEMMA ClassTypes ==
  ASSUME NEW class \in {Workers, PrioWorkers}, NEW w
  PROVE  /\ Count(w, class, Live) \in Nat
         /\ Count(w, class, {"asleep"}) \in Nat
         /\ Count(w, class, {"starting", "woken"}) \in Nat
         /\ Count(w, class, {"asleep", "woken"}) \in Nat
         /\ Count(w, class, {"busy"}) \in Nat
         /\ Count(w, class, {"starting", "woken", "busy"}) \in Nat
BY CountType

\* What a move of one worker does to the counts of ClassInv.
LEMMA ClassMoves ==
  ASSUME NEW class \in {Workers, PrioWorkers}, NEW v \in Maps, NEW w \in Maps,
         NEW x \in class, Moved(v, w, x)
  PROVE  /\ Count(v, class, Live) = Count(w, class, Live)
              + (IF v[x] = "none" THEN 0 ELSE 1) - (IF w[x] = "none" THEN 0 ELSE 1)
         /\ Count(v, class, {"asleep"}) = Count(w, class, {"asleep"})
              + (IF v[x] = "asleep" THEN 1 ELSE 0) - (IF w[x] = "asleep" THEN 1 ELSE 0)
         /\ Count(v, class, {"starting", "woken"}) = Count(w, class, {"starting", "woken"})
              + (IF v[x] \in {"starting", "woken"} THEN 1 ELSE 0)
              - (IF w[x] \in {"starting", "woken"} THEN 1 ELSE 0)
<1>1. w[x] \in States /\ v[x] \in States
  BY ClassFinite DEF Maps
<1>2. (w[x] \in Live <=> w[x] # "none") /\ (v[x] \in Live <=> v[x] # "none")
  BY <1>1 DEF Live, States
<1>3. /\ Count(w, class, Live) \in Nat /\ Count(w, class, {"asleep"}) \in Nat
      /\ Count(w, class, {"starting", "woken"}) \in Nat
  BY ClassTypes
<1>4. Count(v, class, Live) = Count(w, class, Live)
              + (IF v[x] = "none" THEN 0 ELSE 1) - (IF w[x] = "none" THEN 0 ELSE 1)
  BY <1>2, <1>3, CountMoves
<1>5. Count(v, class, {"asleep"}) = Count(w, class, {"asleep"})
              + (IF v[x] = "asleep" THEN 1 ELSE 0) - (IF w[x] = "asleep" THEN 1 ELSE 0)
  BY <1>3, CountMoves
<1>6. Count(v, class, {"starting", "woken"}) = Count(w, class, {"starting", "woken"})
              + (IF v[x] \in {"starting", "woken"} THEN 1 ELSE 0)
              - (IF w[x] \in {"starting", "woken"} THEN 1 ELSE 0)
  BY <1>3, CountMoves
<1> QED
  BY <1>4, <1>5, <1>6

\* An assignment to one worker is such a move.
LEMMA Assigned ==
  ASSUME NEW w \in Maps, NEW x \in AllWorkers, NEW b \in States
  PROVE  /\ [w EXCEPT ![x] = b] \in Maps /\ [w EXCEPT ![x] = b][x] = b
         /\ Moved([w EXCEPT ![x] = b], w, x)
BY DEF Maps, Moved

\* A worker beyond the limit ends, or any when the pool quits.
LEMMA ClassLeave ==
  ASSUME NEW class, NEW w, NEW n, NEW max, NEW jobs, NEW quit,
         Class(w, class, n, max, jobs, quit),
         NEW x \in class, NEW v \in Maps, Moved(v, w, x),
         w[x] \in Active, v[x] = "none", n > max \/ quit
  PROVE  Class(v, class, n - 1, max, jobs, quit)
<1>1. class \in {Workers, PrioWorkers} /\ w \in Maps
  BY DEF Class
<1>2. /\ Count(v, class, Live) = Count(w, class, Live) - 1
      /\ Count(v, class, {"asleep"}) = Count(w, class, {"asleep"})
      /\ Count(v, class, {"starting", "woken"}) >= Count(w, class, {"starting", "woken"}) - 1
  BY <1>1, ClassMoves, ClassTypes DEF Active
<1> QED
  BY <1>1, <1>2, ClassTypes DEF Class, ClassInv, Positive

\* A worker within the limit that finds no job sleeps.
LEMMA ClassSleep ==
  ASSUME NEW class, NEW w, NEW n, NEW max, NEW jobs, NEW quit,
         Class(w, class, n, max, jobs, quit),
         NEW x \in class, NEW v \in Maps, Moved(v, w, x),
         w[x] \in Active, v[x] = "asleep", n <= max, jobs = 0
  PROVE  Class(v, class, n, max, jobs, quit)
<1>1. class \in {Workers, PrioWorkers} /\ w \in Maps
  BY DEF Class
<1>2. Count(v, class, Live) = Count(w, class, Live)
  BY <1>1, ClassMoves, ClassTypes DEF Active
<1>3. Count(v, class, {"asleep"}) <= Count(v, class, Live)
  BY <1>1, CountLive, ClassTypes
<1> QED
  BY <1>1, <1>2, <1>3, ClassTypes DEF Class, ClassInv, Positive

\* A worker takes a job.
LEMMA ClassTake ==
  ASSUME NEW class, NEW w, NEW n, NEW max, NEW jobs, NEW quit,
         Class(w, class, n, max, jobs, quit),
         NEW x \in class, NEW v \in Maps, Moved(v, w, x),
         w[x] \in Active, v[x] = "busy", jobs > 0
  PROVE  Class(v, class, n, max, jobs - 1, quit)
<1>1. class \in {Workers, PrioWorkers} /\ w \in Maps
  BY DEF Class
<1>2. /\ Count(v, class, Live) = Count(w, class, Live)
      /\ Count(v, class, {"asleep"}) = Count(w, class, {"asleep"})
      /\ Count(v, class, {"starting", "woken"}) >= Count(w, class, {"starting", "woken"}) - 1
  BY <1>1, ClassMoves, ClassTypes DEF Active
<1> QED
  BY <1>1, <1>2, ClassTypes DEF Class, ClassInv, Positive

\* A sleeper wakes up, with or without a new job for it.
LEMMA ClassWake ==
  ASSUME NEW class, NEW w, NEW n, NEW max, NEW jobs, NEW quit,
         Class(w, class, n, max, jobs, quit),
         NEW x \in class, NEW v \in Maps, Moved(v, w, x),
         w[x] = "asleep", v[x] = "woken", NEW more \in {0, 1}
  PROVE  Class(v, class, n, max, jobs + more, quit)
<1>1. class \in {Workers, PrioWorkers} /\ w \in Maps
  BY DEF Class
<1>2. /\ Count(v, class, Live) = Count(w, class, Live)
      /\ Count(v, class, {"asleep"}) = Count(w, class, {"asleep"}) - 1
      /\ Count(v, class, {"starting", "woken"}) = Count(w, class, {"starting", "woken"}) + 1
  BY <1>1, ClassMoves, ClassTypes
<1> QED
  BY <1>1, <1>2, ClassTypes DEF Class, ClassInv, Positive

\* A change outside the class, or in the number of jobs if it falls.
LEMMA ClassOther ==
  ASSUME NEW class, NEW w, NEW n, NEW max, NEW jobs, NEW quit,
         Class(w, class, n, max, jobs, quit),
         NEW v \in Maps, \A x \in class : v[x] = w[x],
         NEW fewer \in Nat, fewer <= jobs
  PROVE  Class(v, class, n, max, fewer, quit)
<1>1. class \in {Workers, PrioWorkers} /\ w \in Maps
  BY DEF Class
<1>2. \A S : Count(v, class, S) = Count(w, class, S)
  BY <1>1, CountSame
<1> QED
  BY <1>1, <1>2, ClassTypes DEF Class, ClassInv, Positive

\* When nobody sleeps, any limit and any number of jobs will do.
LEMMA ClassAwake ==
  ASSUME NEW class, NEW w, NEW n, NEW max, NEW jobs, NEW quit,
         Class(w, class, n, max, jobs, quit), Members(w, class, {"asleep"}) = {},
         NEW max2 \in Nat, NEW jobs2 \in Nat
  PROVE  Class(w, class, n, max2, jobs2, quit)
<1>1. class \in {Workers, PrioWorkers}
  BY DEF Class
<1>2. Count(w, class, {"asleep"}) = 0
  BY <1>1, CountType
<1> QED
  BY <1>1, <1>2 DEF Class, ClassInv

\* A limit that is not below the number of workers.
LEMMA ClassRaised ==
  ASSUME NEW class, NEW w, NEW n, NEW max, NEW jobs, NEW quit,
         Class(w, class, n, max, jobs, quit), NEW max2 \in Nat, max2 >= n
  PROVE  Class(w, class, n, max2, jobs, quit)
<1>1. class \in {Workers, PrioWorkers}
  BY DEF Class
<1>2. Count(w, class, {"asleep"}) <= Count(w, class, Live)
  BY <1>1, CountLive, ClassTypes
<1> QED
  BY <1>1, <1>2, ClassTypes DEF Class, ClassInv, Positive

\* A pool that quits has no jobs for its workers.
LEMMA ClassQuit ==
  ASSUME NEW class, NEW w, NEW n, NEW max, NEW jobs, NEW quit,
         Class(w, class, n, max, jobs, quit), NEW jobs2 \in Nat
  PROVE  Class(w, class, n, max, jobs2, TRUE)
BY DEF Class, ClassInv

-----------------------------------------------------------------------------
(***************************************************************************)
(* Condition variables and new threads.                                    *)
(***************************************************************************)

\* A signal wakes one sleeper of the class if there is one, which is enough for one
\* more job.
LEMMA SignalKeeps ==
  ASSUME NEW class, NEW w, NEW n, NEW max, NEW jobs, NEW quit,
         Class(w, class, n, max, jobs, quit), NEW v \in Signal(w, class)
  PROVE  /\ Class(v, class, n, max, jobs + 1, quit)
         /\ \A y \in AllWorkers \ class : v[y] = w[y]
         /\ \A y \in AllWorkers : v[y] \in {"asleep", "woken"} <=> w[y] \in {"asleep", "woken"}
<1>1. class \in {Workers, PrioWorkers} /\ w \in Maps /\ jobs \in Nat /\ max \in Nat
  BY DEF Class
<1>2. CASE {x \in class : w[x] = "asleep"} = {}
  <2>1. v = w
    BY <1>2 DEF Signal
  <2>2. Members(w, class, {"asleep"}) = {}
    BY <1>2 DEF Members
  <2>3. Class(w, class, n, max, jobs + 1, quit)
    BY <1>1, <2>2, ClassAwake
  <2> QED
    BY <2>1, <2>3
<1>3. CASE {x \in class : w[x] = "asleep"} # {}
  <2>1. PICK x \in class : w[x] = "asleep" /\ v = [w EXCEPT ![x] = "woken"]
    BY <1>3 DEF Signal
  <2>2. x \in AllWorkers /\ "woken" \in States
    BY <1>1, ClassFinite DEF States, Live
  <2>3. v \in Maps /\ v[x] = "woken" /\ Moved(v, w, x)
    BY <1>1, <2>1, <2>2, Assigned, Zenon
  <2>4. Class(v, class, n, max, jobs + 1, quit)
    BY <2>1, <2>3, ClassWake, Zenon
  <2> QED
    BY <2>1, <2>3, <2>4 DEF Moved
<1> QED
  BY <1>2, <1>3

\* A broadcast leaves no sleeper, so that the limit may be changed.
LEMMA BroadcastKeeps ==
  ASSUME NEW class, NEW w, NEW n, NEW max, NEW jobs, NEW quit,
         Class(w, class, n, max, jobs, quit), NEW max2 \in Nat,
         NEW v, v = Broadcast(w, class)
  PROVE  /\ Class(v, class, n, max2, jobs, quit)
         /\ \A y \in AllWorkers \ class : v[y] = w[y]
         /\ \A y \in AllWorkers : v[y] \in {"asleep", "woken"} <=> w[y] \in {"asleep", "woken"}
<1>1. class \in {Workers, PrioWorkers} /\ w \in Maps /\ jobs \in Nat /\ quit \in BOOLEAN
  BY DEF Class
<1>2. \A y \in AllWorkers :
        v[y] = IF y \in class /\ w[y] = "asleep" THEN "woken" ELSE w[y]
  BY DEF Broadcast
<1>3. v \in Maps
  BY <1>1 DEF Broadcast, Maps, States, Live
<1>4. Members(v, class, {"asleep"}) = {}
  BY <1>1, <1>2, ClassFinite DEF Members
<1>5. Count(v, class, {"asleep"}) = 0
  BY <1>1, <1>4, CountType
<1>6. \A y \in class : v[y] \in Live <=> w[y] \in Live
  BY <1>1, <1>2, ClassFinite DEF Live
<1>7. Count(v, class, Live) = Count(w, class, Live)
  BY <1>1, <1>6, CountSame
<1>8. Class(v, class, n, max2, jobs, quit)
  BY <1>1, <1>3, <1>5, <1>7 DEF Class, ClassInv
<1> QED
  BY <1>2, <1>8

\* A finite set has subsets of every size up to its own.
LEMMA SubsetOfSize ==
  ASSUME NEW S, IsFiniteSet(S), NEW k \in Nat, k <= Cardinality(S)
  PROVE  \E T \in SUBSET S : Cardinality(T) = k
<1>1. Cardinality(S) \in Nat /\ ExistsBijection(1..Cardinality(S), S)
  BY FS_CardinalityType
<1>2. PICK f : f \in Bijection(1..Cardinality(S), S)
  BY <1>1 DEF ExistsBijection
<1> DEFINE T == {f[i] : i \in 1..k}
           g == [i \in 1..k |-> f[i]]
<1>3. \A i \in 1..k : i \in 1..Cardinality(S)
  BY <1>1
<1>4. /\ \A i \in 1..Cardinality(S) : f[i] \in S
      /\ \A i, j \in 1..Cardinality(S) : f[i] = f[j] => i = j
  BY <1>2 DEF Bijection, Injection, Surjection, IsInjective
<1>5. T \in SUBSET S
  BY <1>3, <1>4
<1>6. g \in Bijection(1..k, T)
  BY <1>3, <1>4 DEF Bijection, Injection, Surjection, IsInjective
<1>7. Cardinality(T) = k
  BY <1>6, FS_CountingElements DEF ExistsBijection
<1> QED
  BY <1>5, <1>7

\* New threads start awake.
LEMMA ClassAdded ==
  ASSUME NEW class, NEW w, NEW n, NEW max, NEW jobs, NEW quit,
         Class(w, class, n, max, jobs, quit),
         NEW new \in SUBSET Members(w, class, {"none"}),
         NEW v \in Maps, \A x \in AllWorkers : v[x] = IF x \in new THEN "starting" ELSE w[x]
  PROVE  Class(v, class, n + Cardinality(new), max, jobs, quit)
<1>1. class \in {Workers, PrioWorkers} /\ w \in Maps
  BY DEF Class
<1>2. \A x \in class : x \in AllWorkers /\ (x \in new => w[x] = "none")
  BY <1>1, ClassFinite DEF Members
<1>3. IsFiniteSet(new) /\ Cardinality(new) \in Nat
  BY <1>1, CountType, FS_Subset, FS_CardinalityType
<1>4. ASSUME NEW S, "starting" \in S, "none" \notin S
      PROVE  Count(v, class, S) = Count(w, class, S) + Cardinality(new)
  <2> DEFINE M == Members(w, class, S)
  <2>1. Members(v, class, S) = M \cup new /\ M \cap new = {}
    BY <1>2, <1>4 DEF Members
  <2>2. IsFiniteSet(M) /\ Cardinality(M) \in Nat /\ Count(w, class, S) = Cardinality(M)
    BY <1>1, CountType DEF Count
  <2> HIDE DEF M
  <2>3. Cardinality(M \cup new) = Cardinality(M) + Cardinality(new) - Cardinality(M \cap new)
    BY <1>3, <2>2, FS_Union
  <2>4. Cardinality(M \cap new) = 0
    BY <2>1, FS_EmptySet
  <2>5. Count(v, class, S) = Cardinality(M \cup new)
    BY <2>1, Zenon DEF Count
  <2> QED
    BY <1>3, <2>2, <2>3, <2>4, <2>5
<1>5. \A x \in class : v[x] \in {"asleep"} <=> w[x] \in {"asleep"}
  BY <1>2
<1>6. Count(v, class, {"asleep"}) = Count(w, class, {"asleep"})
  BY <1>1, <1>5, CountSame
<1>7. /\ Count(v, class, Live) = Count(w, class, Live) + Cardinality(new)
      /\ Count(v, class, {"starting", "woken"}) =
           Count(w, class, {"starting", "woken"}) + Cardinality(new)
  BY <1>4 DEF Live
<1> QED
  BY <1>1, <1>3, <1>6, <1>7, ClassTypes DEF Class, ClassInv, Positive

-----------------------------------------------------------------------------
(***************************************************************************)
(* The pool p with the workers w while len jobs are queued, prio of them   *)
(* with a priority.                                                        *)
(***************************************************************************)

Pools ==
  [quit : BOOLEAN, jobQueueDepth : Int, freeWorkers : Int, nWorkers : Int, minWorkers : Int,
   maxWorkers : Nat, nPrioWorkers : Int, maxPrioWorkers : Nat]

PoolInv(p, w, len, prio) ==
  /\ p \in Pools /\ w \in Maps
  /\ Class(w, Workers, p.nWorkers, p.maxWorkers, len, p.quit)
  /\ Class(w, PrioWorkers, p.nPrioWorkers, p.maxPrioWorkers, prio, p.quit)
  /\ p.freeWorkers = Count(w, Workers, {"asleep", "woken"})

\* What a call of virThreadPoolExpand and virThreadPoolSetParameters passes on.
Outcomes == [ok : BOOLEAN, pool : Pools, worker : Maps]

\* Both classes have members of their own.
LEMMA Disjoint ==
  /\ \A x \in Workers : x \in AllWorkers \ PrioWorkers
  /\ \A x \in PrioWorkers : x \in AllWorkers \ Workers
BY ThreadPoolAssumption DEF AllWorkers

\* The threads new have been created.
Started(w, new) == [x \in AllWorkers |-> IF x \in new THEN "starting" ELSE w[x]]

\* There is a set of unused threads for virThreadPoolExpand to choose.
LEMMA ChosenSubset ==
  ASSUME NEW w, NEW class \in {Workers, PrioWorkers}, NEW k \in Nat,
         k <= Cardinality({x \in class : w[x] = "none"})
  PROVE  LET new == CHOOSE s \in SUBSET {x \in class : w[x] = "none"} : Cardinality(s) = k
         IN  new \in SUBSET Members(w, class, {"none"}) /\ Cardinality(new) = k
<1>1. {x \in class : w[x] = "none"} = Members(w, class, {"none"})
  BY DEF Members
<1>2. IsFiniteSet({x \in class : w[x] = "none"})
  BY <1>1, CountType
<1>3. \E s \in SUBSET {x \in class : w[x] = "none"} : Cardinality(s) = k
  BY <1>2, SubsetOfSize
<1> QED
  BY <1>1, <1>3

\* What virThreadPoolExpand leaves of the pool p: its class has n threads where it
\* should have goal.
Expanded(e, p, goal, n, len, prio) ==
  /\ e \in Outcomes /\ PoolInv(e.pool, e.worker, len, prio)
  /\ e.pool.jobQueueDepth = p.jobQueueDepth /\ e.pool.quit = p.quit
  /\ e.pool.maxWorkers = p.maxWorkers /\ e.pool.maxPrioWorkers = p.maxPrioWorkers
  /\ e.ok => n = goal

\* virThreadPoolExpand keeps the counters exact, however many threads it can create.
LEMMA ExpandWorkers ==
  ASSUME NEW p, NEW w, NEW len, NEW prio, PoolInv(p, w, len, prio),
         NEW gain \in Nat, NEW e \in Expand(p, w, gain, FALSE)
  PROVE  Expanded(e, p, p.nWorkers + gain, e.pool.nWorkers, len, prio)
<1> DEFINE unused == {x \in Workers : w[x] = "none"}
<1>1. p \in Pools /\ w \in Maps
  BY DEF PoolInv
<1>2. PICK k \in {i \in 0..gain : i <= Cardinality(unused)} :
        e = [ok |-> k = gain, pool |-> [p EXCEPT !.nWorkers = @ + k],
             worker |-> Started(w, CHOOSE s \in SUBSET unused : Cardinality(s) = k)]
  BY DEF Expand, Started
<1> DEFINE new == CHOOSE s \in SUBSET unused : Cardinality(s) = k
<1>3. /\ new \in SUBSET Members(w, Workers, {"none"}) /\ Cardinality(new) = k
      /\ e = [ok |-> k = gain, pool |-> [p EXCEPT !.nWorkers = @ + k],
              worker |-> Started(w, new)]
  BY <1>2, ChosenSubset
<1> HIDE DEF new, unused
<1>4. /\ Started(w, new) \in Maps
      /\ \A x \in AllWorkers : Started(w, new)[x] = IF x \in new THEN "starting" ELSE w[x]
  BY <1>1 DEF Maps, States, Live, Started
<1> DEFINE v == e.worker
<1>5. /\ v \in Maps /\ \A x \in AllWorkers : v[x] = IF x \in new THEN "starting" ELSE w[x]
      /\ e.ok = (k = gain) /\ k \in Nat /\ e.pool = [p EXCEPT !.nWorkers = @ + k]
  BY <1>3, <1>4
<1>6. e \in Outcomes
  <2>1. e.pool \in Pools
    BY <1>1, <1>5 DEF Pools
  <2>2. e = [ok |-> e.ok, pool |-> e.pool, worker |-> e.worker] /\ e.ok \in BOOLEAN
    BY <1>3
  <2> QED
    BY <1>5, <2>1, <2>2, Zenon DEF Outcomes
<1> HIDE DEF v
<1>7. \A x \in new : x \in Workers /\ w[x] = "none"
  BY <1>3 DEF Members
<1>8. Class(v, Workers, p.nWorkers + k, p.maxWorkers, len, p.quit)
  BY <1>3, <1>5, ClassAdded DEF PoolInv
<1>9. \A x \in PrioWorkers : v[x] = w[x]
  BY <1>5, <1>7, Disjoint
<1>10. Class(v, PrioWorkers, p.nPrioWorkers, p.maxPrioWorkers, prio, p.quit)
  BY <1>5, <1>9, ClassOther DEF PoolInv, Class
<1>11. \A x \in Workers : v[x] \in {"asleep", "woken"} <=> w[x] \in {"asleep", "woken"}
  BY <1>5, <1>7 DEF AllWorkers
<1>12. Count(v, Workers, {"asleep", "woken"}) = Count(w, Workers, {"asleep", "woken"})
  BY <1>11, CountSame
<1>13. /\ e.pool.nWorkers = p.nWorkers + k /\ e.pool.nPrioWorkers = p.nPrioWorkers
       /\ e.pool.maxWorkers = p.maxWorkers /\ e.pool.maxPrioWorkers = p.maxPrioWorkers
       /\ e.pool.jobQueueDepth = p.jobQueueDepth /\ e.pool.quit = p.quit
       /\ e.pool.freeWorkers = p.freeWorkers
  BY <1>1, <1>5 DEF Pools
<1> QED
  BY <1>5, <1>6, <1>8, <1>10, <1>12, <1>13 DEF PoolInv, Outcomes, Expanded, v

\* The same for priority workers.
LEMMA ExpandPrio ==
  ASSUME NEW p, NEW w, NEW len, NEW prio, PoolInv(p, w, len, prio),
         NEW gain \in Nat, NEW e \in Expand(p, w, gain, TRUE)
  PROVE  Expanded(e, p, p.nPrioWorkers + gain, e.pool.nPrioWorkers, len, prio)
<1> DEFINE unused == {x \in PrioWorkers : w[x] = "none"}
<1>1. p \in Pools /\ w \in Maps
  BY DEF PoolInv
<1>2. PICK k \in {i \in 0..gain : i <= Cardinality(unused)} :
        e = [ok |-> k = gain, pool |-> [p EXCEPT !.nPrioWorkers = @ + k],
             worker |-> Started(w, CHOOSE s \in SUBSET unused : Cardinality(s) = k)]
  BY DEF Expand, Started
<1> DEFINE new == CHOOSE s \in SUBSET unused : Cardinality(s) = k
<1>3. /\ new \in SUBSET Members(w, PrioWorkers, {"none"}) /\ Cardinality(new) = k
      /\ e = [ok |-> k = gain, pool |-> [p EXCEPT !.nPrioWorkers = @ + k],
              worker |-> Started(w, new)]
  BY <1>2, ChosenSubset
<1> HIDE DEF new, unused
<1>4. /\ Started(w, new) \in Maps
      /\ \A x \in AllWorkers : Started(w, new)[x] = IF x \in new THEN "starting" ELSE w[x]
  BY <1>1 DEF Maps, States, Live, Started
<1> DEFINE v == e.worker
<1>5. /\ v \in Maps /\ \A x \in AllWorkers : v[x] = IF x \in new THEN "starting" ELSE w[x]
      /\ e.ok = (k = gain) /\ k \in Nat /\ e.pool = [p EXCEPT !.nPrioWorkers = @ + k]
  BY <1>3, <1>4
<1>6. e \in Outcomes
  <2>1. e.pool \in Pools
    BY <1>1, <1>5 DEF Pools
  <2>2. e = [ok |-> e.ok, pool |-> e.pool, worker |-> e.worker] /\ e.ok \in BOOLEAN
    BY <1>3
  <2> QED
    BY <1>5, <2>1, <2>2, Zenon DEF Outcomes
<1> HIDE DEF v
<1>7. \A x \in new : x \in PrioWorkers /\ w[x] = "none"
  BY <1>3 DEF Members
<1>8. Class(v, PrioWorkers, p.nPrioWorkers + k, p.maxPrioWorkers, prio, p.quit)
  BY <1>3, <1>5, ClassAdded DEF PoolInv
<1>9. \A x \in Workers : v[x] = w[x]
  BY <1>5, <1>7, Disjoint
<1>10. Class(v, Workers, p.nWorkers, p.maxWorkers, len, p.quit)
  BY <1>5, <1>9, ClassOther DEF PoolInv, Class
<1>11. \A x \in Workers : v[x] \in {"asleep", "woken"} <=> w[x] \in {"asleep", "woken"}
  BY <1>5, <1>7 DEF AllWorkers
<1>12. Count(v, Workers, {"asleep", "woken"}) = Count(w, Workers, {"asleep", "woken"})
  BY <1>11, CountSame
<1>13. /\ e.pool.nPrioWorkers = p.nPrioWorkers + k /\ e.pool.nWorkers = p.nWorkers
       /\ e.pool.maxWorkers = p.maxWorkers /\ e.pool.maxPrioWorkers = p.maxPrioWorkers
       /\ e.pool.jobQueueDepth = p.jobQueueDepth /\ e.pool.quit = p.quit
       /\ e.pool.freeWorkers = p.freeWorkers
  BY <1>1, <1>5 DEF Pools
<1> QED
  BY <1>5, <1>6, <1>8, <1>10, <1>12, <1>13 DEF PoolInv, Outcomes, Expanded, v

\* A change of a field that PoolInv does not look at.
LEMMA PoolField ==
  ASSUME NEW p, NEW q \in Pools, NEW w, NEW len, NEW prio, PoolInv(p, w, len, prio),
         q.nWorkers = p.nWorkers, q.maxWorkers = p.maxWorkers, q.quit = p.quit,
         q.nPrioWorkers = p.nPrioWorkers, q.maxPrioWorkers = p.maxPrioWorkers,
         q.freeWorkers = p.freeWorkers
  PROVE  PoolInv(q, w, len, prio)
BY DEF PoolInv

\* What virThreadPoolSetParameters keeps from one of its steps to the next.
SetInv(e, len, prio, depth, quit) ==
  /\ e \in Outcomes /\ PoolInv(e.pool, e.worker, len, prio)
  /\ e.pool.jobQueueDepth = depth /\ e.pool.quit = quit

\* virThreadPoolExpand as a step of virThreadPoolSetParameters.
LEMMA SetExpands ==
  ASSUME NEW s, NEW len, NEW prio, NEW depth, NEW quit, SetInv(s, len, prio, depth, quit),
         NEW gain \in Nat
  PROVE  /\ \A e \in Expand(s.pool, s.worker, gain, FALSE) : SetInv(e, len, prio, depth, quit)
         /\ \A e \in Expand(s.pool, s.worker, gain, TRUE) :
              /\ SetInv(e, len, prio, depth, quit)
              /\ e.ok => e.pool.nPrioWorkers = s.pool.nPrioWorkers + gain
<1> DEFINE q == s.pool
           w == s.worker
<1>1. PoolInv(q, w, len, prio) /\ q.jobQueueDepth = depth /\ q.quit = quit
  BY DEF SetInv
<1> HIDE DEF q, w
<1>2. ASSUME NEW e \in Expand(q, w, gain, FALSE)
      PROVE  SetInv(e, len, prio, depth, quit)
  <2>1. Expanded(e, q, q.nWorkers + gain, e.pool.nWorkers, len, prio)
    BY <1>1, ExpandWorkers, Zenon
  <2> QED
    BY <1>1, <2>1 DEF SetInv, Expanded
<1>3. ASSUME NEW e \in Expand(q, w, gain, TRUE)
      PROVE  /\ SetInv(e, len, prio, depth, quit)
             /\ e.ok => e.pool.nPrioWorkers = q.nPrioWorkers + gain
  <2>1. Expanded(e, q, q.nPrioWorkers + gain, e.pool.nPrioWorkers, len, prio)
    BY <1>1, ExpandPrio, Zenon
  <2> QED
    BY <1>1, <2>1 DEF SetInv, Expanded
<1> QED
  BY <1>2, <1>3, Zenon DEF q, w

\* The new minimum of normal workers is reached, or as many as can be created.
LEMMA SetMinKeeps ==
  ASSUME NEW s, NEW len, NEW prio, NEW depth, NEW quit, SetInv(s, len, prio, depth, quit),
         NEW min \in Int, NEW a \in SetMinWorkers(s, min)
  PROVE  SetInv(a, len, prio, depth, quit)
<1>1. CASE min < 0
  BY <1>1 DEF SetMinWorkers
<1>2. CASE min >= 0
  <2> DEFINE tries == IF min > s.pool.nWorkers
                      THEN Expand(s.pool, s.worker, min - s.pool.nWorkers, FALSE) ELSE {s}
  <2>2. s.pool.nWorkers \in Nat
    BY ClassTypes DEF SetInv, PoolInv, Class, ClassInv
  <2>3. \A f \in tries : SetInv(f, len, prio, depth, quit)
    <3>1. CASE min > s.pool.nWorkers
      <4> DEFINE gain == min - s.pool.nWorkers
      <4>1. gain \in Nat
        BY <2>2, <3>1
      <4>2. tries = Expand(s.pool, s.worker, gain, FALSE)
        BY <3>1, Zenon
      <4> HIDE DEF tries, gain
      <4> QED
        BY <4>1, <4>2, SetExpands, Zenon
    <3>2. CASE ~(min > s.pool.nWorkers)
      BY <3>2, Zenon
    <3> QED
      BY <3>1, <3>2, Zenon
  <2>7. a \in {IF e.ok THEN [e EXCEPT !.pool.minWorkers = min] ELSE e : e \in tries}
    <3>1. ~(min < 0)
      BY <1>2
    <3> QED
      BY <3>1, Zenon DEF SetMinWorkers
  <2> HIDE DEF tries
  <2>1. PICK e \in tries : a = IF e.ok THEN [e EXCEPT !.pool.minWorkers = min] ELSE e
    BY <2>7
  <2>6. SetInv(e, len, prio, depth, quit)
    BY <2>1, <2>3
  <2>4. CASE ~e.ok
    BY <2>1, <2>6, <2>4
  <2>5. CASE e.ok
    <3>1. a = [e EXCEPT !.pool.minWorkers = min]
      BY <2>1, <2>5
    <3>2. /\ a \in Outcomes /\ a.worker = e.worker
          /\ a.pool = [e.pool EXCEPT !.minWorkers = min]
      BY <2>6, <3>1 DEF SetInv, Outcomes, Pools
    <3>3. PoolInv(a.pool, e.worker, len, prio) /\ a.pool.quit = e.pool.quit
          /\ a.pool.jobQueueDepth = e.pool.jobQueueDepth
      BY <2>6, <3>2, PoolField DEF SetInv, Outcomes, Pools
    <3> QED
      BY <2>6, <3>2, <3>3 DEF SetInv
  <2> QED
    BY <2>4, <2>5
<1> QED
  BY <1>1, <1>2

\* A new maximum wakes all normal workers.
LEMMA SetMaxKeeps ==
  ASSUME NEW s, NEW len, NEW prio, NEW depth, NEW quit, SetInv(s, len, prio, depth, quit),
         NEW max \in Int
  PROVE  SetInv(SetMaxWorkers(s, max), len, prio, depth, quit)
<1>1. CASE max < 0 \/ ~s.ok
  BY <1>1 DEF SetMaxWorkers
<1>2. CASE ~(max < 0 \/ ~s.ok)
  <2> DEFINE a == SetMaxWorkers(s, max)
             v == Broadcast(s.worker, Workers)
  <2>1. a = [s EXCEPT !.pool.maxWorkers = max, !.worker = v] /\ max \in Nat
    BY <1>2 DEF SetMaxWorkers
  <2>2. /\ Class(v, Workers, s.pool.nWorkers, max, len, s.pool.quit)
        /\ \A y \in AllWorkers \ Workers : v[y] = s.worker[y]
        /\ \A y \in AllWorkers : v[y] \in {"asleep", "woken"} <=> s.worker[y] \in {"asleep", "woken"}
    BY <2>1, BroadcastKeeps DEF SetInv, PoolInv
  <2>3. v \in Maps
    BY <2>2 DEF Class
  <2>4. Count(v, Workers, {"asleep", "woken"}) = Count(s.worker, Workers, {"asleep", "woken"})
    BY <2>2, CountSame DEF AllWorkers
  <2>5. Class(v, PrioWorkers, s.pool.nPrioWorkers, s.pool.maxPrioWorkers, prio, s.pool.quit)
    BY <2>2, <2>3, Disjoint, ClassOther DEF SetInv, PoolInv, Class
  <2> HIDE DEF v, a
  <2>6. /\ a \in Outcomes /\ a.worker = v
        /\ a.pool = [s.pool EXCEPT !.maxWorkers = max]
    BY <2>1, <2>3, Zenon DEF SetInv, Outcomes, Pools
  <2>7. /\ a.pool \in Pools /\ a.pool.nWorkers = s.pool.nWorkers /\ a.pool.maxWorkers = max
        /\ a.pool.quit = s.pool.quit /\ a.pool.nPrioWorkers = s.pool.nPrioWorkers
        /\ a.pool.maxPrioWorkers = s.pool.maxPrioWorkers
        /\ a.pool.freeWorkers = s.pool.freeWorkers
        /\ a.pool.jobQueueDepth = s.pool.jobQueueDepth
    BY <2>1, <2>6 DEF SetInv, Outcomes, Pools
  <2>8. PoolInv(a.pool, v, len, prio)
    BY <2>2, <2>3, <2>4, <2>5, <2>7 DEF SetInv, PoolInv
  <2> QED
    BY <2>6, <2>7, <2>8 DEF SetInv, a
<1> QED
  BY <1>1, <1>2

\* A new number of priority workers: the workers are woken when it is lower, and
\* created when it is higher.
LEMMA SetPrioKeeps ==
  ASSUME NEW s, NEW len, NEW prio, NEW depth, NEW quit, SetInv(s, len, prio, depth, quit),
         NEW max \in Int, NEW b \in SetPrioWorkers(s, max)
  PROVE  SetInv(b, len, prio, depth, quit)
<1>1. CASE max < 0 \/ ~s.ok
  BY <1>1, Zenon DEF SetPrioWorkers
<1>2. CASE ~(max < 0 \/ ~s.ok)
  <2> DEFINE n == s.pool.nPrioWorkers
             woken == [s EXCEPT !.worker = Broadcast(@, PrioWorkers)]
             tries == CASE max < n -> {woken}
                        [] max > n -> Expand(s.pool, s.worker, max - n, TRUE)
                        [] OTHER -> {s}
             Ready(f) == /\ SetInv(f, len, prio, depth, quit)
                         /\ f.ok => \/ max >= f.pool.nPrioWorkers
                                    \/ Members(f.worker, PrioWorkers, {"asleep"}) = {}
  <2>2. max \in Nat /\ n \in Nat
    BY <1>2, ClassTypes DEF SetInv, PoolInv, Class, ClassInv
  <2>3. \A f \in tries : Ready(f)
    <3>1. CASE max < n
      <4> DEFINE v == Broadcast(s.worker, PrioWorkers)
                 f == woken
      <4>1. tries = {f}
        <5>1. ~(max > n)
          BY <2>2, <3>1
        <5> HIDE DEF woken
        <5> QED
          BY <3>1, <5>1, Zenon
      <4>2. /\ Class(v, PrioWorkers, n, s.pool.maxPrioWorkers, prio, s.pool.quit)
            /\ \A y \in AllWorkers \ PrioWorkers : v[y] = s.worker[y]
        BY BroadcastKeeps DEF SetInv, PoolInv, Pools
      <4>3. v \in Maps
        BY <4>2 DEF Class
      <4>4. \A y \in Workers : v[y] = s.worker[y]
        BY <4>2, Disjoint
      <4>5. Count(v, Workers, {"asleep", "woken"}) = Count(s.worker, Workers, {"asleep", "woken"})
        BY <4>4, CountSame
      <4>6. Class(v, Workers, s.pool.nWorkers, s.pool.maxWorkers, len, s.pool.quit)
        BY <4>3, <4>4, ClassOther DEF SetInv, PoolInv, Class
      <4>7. Members(v, PrioWorkers, {"asleep"}) = {}
        BY DEF Members, Broadcast, AllWorkers
      <4>10. f = [s EXCEPT !.worker = v]
        OBVIOUS
      <4> HIDE DEF v, woken, tries
      <4>8. f \in Outcomes /\ f.pool = s.pool /\ f.worker = v
        BY <4>3, <4>10 DEF SetInv, Outcomes
      <4>9. Ready(f)
        BY <4>2, <4>3, <4>5, <4>6, <4>7, <4>8 DEF SetInv, PoolInv
      <4> QED
        BY <4>1, <4>9
    <3>2. CASE max > n
      <4> DEFINE gain == max - n
      <4>1. ~(max < n) /\ gain \in Nat /\ n + gain = max
        BY <2>2, <3>2
      <4>2. tries = Expand(s.pool, s.worker, gain, TRUE)
        BY <3>2, <4>1, Zenon
      <4> HIDE DEF tries, gain
      <4>3. \A f \in Expand(s.pool, s.worker, gain, TRUE) :
              /\ SetInv(f, len, prio, depth, quit)
              /\ f.ok => f.pool.nPrioWorkers = n + gain
        BY <4>1, SetExpands, ZenonT(30)
      <4>4. ASSUME NEW f \in tries PROVE Ready(f)
        <5>1. /\ SetInv(f, len, prio, depth, quit)
              /\ f.ok => f.pool.nPrioWorkers = n + gain
          BY <4>2, <4>3, <4>4, Zenon
        <5> HIDE DEF n
        <5> QED
          BY <2>2, <4>1, <5>1
      <4> QED
        BY <4>4, Zenon
    <3>3. CASE max = n
      <4>1. ~(max < n) /\ ~(max > n)
        BY <2>2, <3>3
      <4>2. tries = {s}
        BY <4>1, Zenon
      <4>3. Ready(s)
        BY <2>2, <3>3
      <4> QED
        BY <4>2, <4>3, Zenon
    <3>4. max < n \/ max > n \/ max = n
      BY <2>2
    <3> QED
      BY <3>1, <3>2, <3>3, <3>4, Zenon
  <2>6. b \in {IF e.ok THEN [e EXCEPT !.pool.maxPrioWorkers = max] ELSE e : e \in tries}
    BY <1>2, Zenon DEF SetPrioWorkers
  <2> HIDE DEF tries
  <2>1. PICK e \in tries : b = IF e.ok THEN [e EXCEPT !.pool.maxPrioWorkers = max] ELSE e
    BY <2>6
  <2>7. Ready(e)
    BY <2>1, <2>3
  <2>4. CASE ~e.ok
    BY <2>1, <2>7, <2>4
  <2>5. CASE e.ok
    <3>1. b = [e EXCEPT !.pool.maxPrioWorkers = max]
      BY <2>1, <2>5
    <3>2. /\ b \in Outcomes /\ b.worker = e.worker
          /\ b.pool = [e.pool EXCEPT !.maxPrioWorkers = max]
      BY <2>2, <2>7, <3>1 DEF SetInv, Outcomes, Pools
    <3>3. Class(e.worker, PrioWorkers, e.pool.nPrioWorkers, max, prio, e.pool.quit)
      <4>1. Class(e.worker, PrioWorkers, e.pool.nPrioWorkers, e.pool.maxPrioWorkers, prio,
                  e.pool.quit) /\ prio \in Nat
        BY <2>7 DEF SetInv, PoolInv, Class
      <4> QED
        BY <2>2, <2>7, <2>5, <4>1, ClassRaised, ClassAwake, SMTT(30)
    <3>4. /\ b.pool \in Pools /\ b.pool.nWorkers = e.pool.nWorkers
          /\ b.pool.maxPrioWorkers = max
          /\ b.pool.quit = e.pool.quit /\ b.pool.nPrioWorkers = e.pool.nPrioWorkers
          /\ b.pool.maxWorkers = e.pool.maxWorkers
          /\ b.pool.freeWorkers = e.pool.freeWorkers
          /\ b.pool.jobQueueDepth = e.pool.jobQueueDepth
      BY <2>7, <3>2 DEF SetInv, Outcomes, Pools
    <3>5. PoolInv(b.pool, e.worker, len, prio)
      BY <2>7, <3>3, <3>4 DEF SetInv, PoolInv
    <3> QED
      BY <2>7, <3>2, <3>4, <3>5 DEF SetInv
  <2> QED
    BY <2>4, <2>5
<1> QED
  BY <1>1, <1>2
-----------------------------------------------------------------------------
(***************************************************************************)
(* The job list.                                                           *)
(***************************************************************************)

\* A list without duplicates.
List(q) ==
  /\ q \in Seq(Jobs)
  /\ \A k, l \in 1..Len(q) : q[k] = q[l] => k = l

Prio(q) == Range(q) \cap PrioJobs

\* first is the oldest priority job of the list q.
FirstOf(q, first) ==
  IF Prio(q) = {} THEN first = NoJob
  ELSE \E k \in 1..Len(q) : /\ q[k] = first /\ first \in PrioJobs
                            /\ \A l \in 1..k-1 : q[l] \notin PrioJobs

\* Every set of positions has a first one.
LEMMA Least ==
  ASSUME NEW S \in SUBSET Nat, S # {}
  PROVE  \E k \in S : \A l \in S : k <= l
<1>1. PICK k \in S : \A l \in S : ~(<<l, k>> \in OpToRel(<, Nat))
  BY NatLessThanWellFounded, WFMin
<1>2. \A l \in S : ~(l < k)
  BY <1>1, Zenon DEF OpToRel
<1> QED
  BY <1>2

\* What is in a list.
LEMMA RangeOf ==
  ASSUME NEW q \in Seq(Jobs)
  PROVE  /\ Len(q) \in Nat /\ DOMAIN q = 1..Len(q)
         /\ \A k \in 1..Len(q) : q[k] \in Jobs
         /\ \A x : x \in Range(q) <=> \E k \in 1..Len(q) : q[k] = x
BY DEF Range

\* There are finitely many priority jobs in a list.
LEMMA PrioFinite ==
  ASSUME NEW q \in Seq(Jobs)
  PROVE  IsFiniteSet(Prio(q)) /\ Cardinality(Prio(q)) \in Nat
<1>1. Len(q) \in Nat /\ DOMAIN q = 1..Len(q)
  BY RangeOf
<1>2. IsFiniteSet(1..Len(q))
  BY <1>1, FS_Interval
<1>3. q \in Surjection(1..Len(q), Range(q))
  BY <1>1 DEF Surjection, Range
<1>4. IsFiniteSet(Range(q))
  BY <1>2, <1>3, FS_Surjection
<1>5. IsFiniteSet(Prio(q))
  BY <1>4, FS_Intersection DEF Prio
<1> QED
  BY <1>5, FS_CardinalityType

\* What is at a place of a list.
LEMMA ElementIn ==
  ASSUME NEW T, NEW q \in Seq(T), NEW k \in 1..Len(q)
  PROVE  q[k] \in T
OBVIOUS

\* Two parts of a list, one behind the other.
LEMMA Concatenated ==
  ASSUME NEW a \in Seq(Jobs), NEW b \in Seq(Jobs)
  PROVE  /\ a \o b \in Seq(Jobs) /\ Len(a \o b) = Len(a) + Len(b)
         /\ \A k \in 1..Len(a) + Len(b) : (a \o b)[k] = IF k <= Len(a) THEN a[k] ELSE b[k - Len(a)]
OBVIOUS

\* A job is taken out of a list.
LEMMA Removed ==
  ASSUME NEW q \in Seq(Jobs), NEW i \in 1..Len(q)
  PROVE  /\ RemoveAt(q, i) \in Seq(Jobs) /\ Len(RemoveAt(q, i)) = Len(q) - 1
         /\ \A k \in 1..Len(q)-1 : RemoveAt(q, i)[k] = IF k < i THEN q[k] ELSE q[k+1]
<1> DEFINE a == SubSeq(q, 1, i-1)
           b == SubSeq(q, i+1, Len(q))
<1>1. Len(q) \in Nat /\ \A k \in 1..Len(q) : q[k] \in Jobs
  BY RangeOf
<1>2. /\ a \in Seq(Jobs) /\ Len(a) = i - 1
      /\ \A k \in 1..i-1 : a[k] = q[k]
  <2>1. \A k \in 1..i-1 : q[k] \in Jobs
    BY <1>1
  <2>2. /\ a \in Seq(Jobs) /\ Len(a) = IF 1 <= i - 1 THEN (i - 1) - 1 + 1 ELSE 0
        /\ \A k \in 1..(i - 1) - 1 + 1 : a[k] = q[1 + k - 1]
    BY <1>1, <2>1
  <2> HIDE DEF a
  <2> QED
    BY <1>1, <2>2
<1>3. /\ b \in Seq(Jobs) /\ Len(b) = Len(q) - i
      /\ \A k \in 1..Len(q)-i : b[k] = q[i+k]
  <2>1. \A k \in i+1..Len(q) : q[k] \in Jobs
    BY <1>1
  <2>2. /\ b \in Seq(Jobs) /\ Len(b) = IF i + 1 <= Len(q) THEN Len(q) - (i + 1) + 1 ELSE 0
        /\ \A k \in 1..Len(q) - (i + 1) + 1 : b[k] = q[(i + 1) + k - 1]
    BY <1>1, <2>1
  <2> HIDE DEF b
  <2> QED
    BY <1>1, <2>2
<1> HIDE DEF a, b
<1>4. /\ a \o b \in Seq(Jobs) /\ Len(a \o b) = Len(a) + Len(b)
      /\ \A k \in 1..Len(a) + Len(b) : (a \o b)[k] = IF k <= Len(a) THEN a[k] ELSE b[k - Len(a)]
  BY <1>2, <1>3, Concatenated, Zenon
<1>5. RemoveAt(q, i) = a \o b
  BY DEF RemoveAt, a, b
<1>6. ASSUME NEW k \in 1..Len(q)-1
      PROVE  (a \o b)[k] = IF k < i THEN q[k] ELSE q[k+1]
  <2>1. CASE k < i
    BY <1>1, <1>2, <1>3, <1>4, <2>1
  <2>2. CASE ~(k < i)
    <3>1. k - (i - 1) \in 1..Len(q)-i /\ i + (k - (i - 1)) = k + 1
      BY <1>1, <2>2
    <3>2. (a \o b)[k] = b[k - (i - 1)]
      BY <1>1, <1>2, <1>3, <1>4, <2>2
    <3>3. b[k - (i - 1)] = q[k + 1]
      BY <1>3, <3>1
    <3> QED
      BY <2>2, <3>2, <3>3
  <2> QED
    BY <2>1, <2>2, Zenon
<1> QED
  BY <1>1, <1>2, <1>3, <1>4, <1>5, <1>6

\* Unlinking the job at position i: the list stays free of duplicates and firstPrio
\* moves on to the next priority job if it was the one that went.
LEMMA ListTake ==
  ASSUME List(jobList), NEW i \in 1..Len(jobList), NEW q, q = RemoveAt(jobList, i)
  PROVE  /\ List(q) /\ Len(q) = Len(jobList) - 1
         /\ Range(q) \subseteq Range(jobList)
         /\ Prio(q) = Prio(jobList) \ {jobList[i]}
         /\ \A first : FirstOf(jobList, first) =>
              FirstOf(q, IF jobList[i] = first THEN NextPrio(i) ELSE first)
<1>1. jobList \in Seq(Jobs) /\ Len(jobList) \in Nat
      /\ \A k, l \in 1..Len(jobList) : jobList[k] = jobList[l] => k = l
  BY RangeOf DEF List
<1>2. /\ q \in Seq(Jobs) /\ Len(q) = Len(jobList) - 1
      /\ \A k \in 1..Len(q) : q[k] = IF k < i THEN jobList[k] ELSE jobList[k+1]
  BY <1>1, Removed, Zenon
<1>3. List(q)
  <2> SUFFICES ASSUME NEW k \in 1..Len(q), NEW l \in 1..Len(q), q[k] = q[l]
               PROVE  k = l
    BY <1>2 DEF List
  <2>1. k \in 1..Len(jobList) /\ k + 1 \in 1..Len(jobList)
        /\ l \in 1..Len(jobList) /\ l + 1 \in 1..Len(jobList)
    BY <1>1, <1>2
  <2> QED
    BY <1>1, <1>2, <2>1
<1>4. \A x : x \in Range(q) <=> x \in Range(jobList) /\ x # jobList[i]
  <2>1. ASSUME NEW x, x \in Range(q) PROVE x \in Range(jobList) /\ x # jobList[i]
    <3>1. PICK k \in 1..Len(q) : q[k] = x
      BY <1>2, <2>1, RangeOf
    <3>2. k \in 1..Len(jobList) /\ k + 1 \in 1..Len(jobList)
      BY <1>1, <1>2
    <3>3. \E l \in 1..Len(jobList) : l # i /\ jobList[l] = x
      BY <1>1, <1>2, <3>1, <3>2
    <3> QED
      BY <1>1, <3>3, RangeOf
  <2>2. ASSUME NEW x, x \in Range(jobList), x # jobList[i] PROVE x \in Range(q)
    <3>1. PICK k \in 1..Len(jobList) : jobList[k] = x
      BY <1>1, <2>2, RangeOf
    <3>2. k # i
      BY <2>2, <3>1
    <3>3. CASE k < i
      <4>1. k \in 1..Len(q) /\ q[k] = x
        BY <1>1, <1>2, <3>1, <3>3
      <4> QED
        BY <1>2, <4>1, RangeOf
    <3>4. CASE k > i
      <4>1. k - 1 \in 1..Len(q) /\ ~(k - 1 < i) /\ (k - 1) + 1 = k
        BY <1>1, <1>2, <3>4
      <4>2. q[k - 1] = x
        BY <1>2, <3>1, <4>1
      <4> QED
        BY <1>2, <4>1, <4>2, RangeOf
    <3> QED
      BY <1>1, <3>2, <3>3, <3>4
  <2> QED
    BY <2>1, <2>2
<1>5. Prio(q) = Prio(jobList) \ {jobList[i]}
  BY <1>4 DEF Prio
<1>6. ASSUME NEW first, FirstOf(jobList, first)
      PROVE  FirstOf(q, IF jobList[i] = first THEN NextPrio(i) ELSE first)
  <2>1. CASE jobList[i] = first
    <3> DEFINE later == {k \in i+1..Len(jobList) : jobList[k] \in PrioJobs}
    <3>1. first \in PrioJobs /\ \A l \in 1..i-1 : jobList[l] \notin PrioJobs
      <4>1. first \in Jobs /\ first # NoJob
        BY <1>1, <2>1, RangeOf, ThreadPoolAssumption
      <4>2. PICK k \in 1..Len(jobList) : /\ jobList[k] = first /\ first \in PrioJobs
                                         /\ \A l \in 1..k-1 : jobList[l] \notin PrioJobs
        BY <1>6, <4>1 DEF FirstOf
      <4>3. k = i
        BY <1>1, <2>1, <4>2
      <4> QED
        BY <4>2, <4>3
    <3>2. CASE later = {}
      <4>1. ASSUME NEW k \in 1..Len(q) PROVE q[k] \notin PrioJobs
        <5>1. CASE k < i
          BY <1>1, <1>2, <3>1, <5>1
        <5>2. CASE ~(k < i)
          <6>1. k + 1 \in i+1..Len(jobList) /\ q[k] = jobList[k+1]
            BY <1>1, <1>2, <5>2
          <6> QED
            BY <3>2, <6>1
        <5> QED
          BY <5>1, <5>2
      <4>2. Prio(q) = {}
        BY <1>2, <4>1, RangeOf DEF Prio
      <4>3. NextPrio(i) = NoJob
        BY <3>2 DEF NextPrio
      <4> QED
        BY <2>1, <4>2, <4>3 DEF FirstOf
    <3>3. CASE later # {}
      <4>1. later \in SUBSET Nat
        BY <1>1
      <4> DEFINE m == CHOOSE k \in later : \A l \in later : k <= l
      <4>2. m \in later /\ \A l \in later : m <= l
        <5> HIDE DEF later
        <5> QED
          BY <3>3, <4>1, Least, Zenon
      <4>3. NextPrio(i) = jobList[m]
        BY <3>3, Zenon DEF NextPrio
      <4> HIDE DEF m
      <4>4. /\ m - 1 \in 1..Len(q) /\ ~(m - 1 < i) /\ (m - 1) + 1 = m
            /\ jobList[m] \in PrioJobs
        BY <1>1, <1>2, <4>2
      <4>5. q[m - 1] = jobList[m]
        BY <1>2, <4>4
      <4>6. ASSUME NEW l \in 1..(m-1)-1 PROVE q[l] \notin PrioJobs
        <5>1. CASE l < i
          <6>1. l \in 1..i-1 /\ l \in 1..Len(q)
            BY <4>4, <5>1
          <6> QED
            BY <1>2, <3>1, <5>1, <6>1
        <5>2. CASE ~(l < i)
          <6>1. l + 1 \in i+1..Len(jobList) /\ l + 1 < m /\ q[l] = jobList[l+1]
            BY <1>1, <1>2, <4>2, <5>2
          <6>2. l + 1 \notin later
            BY <1>1, <4>2, <6>1
          <6> QED
            BY <6>1, <6>2
        <5> QED
          BY <5>1, <5>2
      <4>7. jobList[m] \in Prio(q)
        BY <1>2, <4>4, <4>5, RangeOf DEF Prio
      <4>8. FirstOf(q, jobList[m])
        BY <4>4, <4>5, <4>6, <4>7 DEF FirstOf
      <4> QED
        BY <2>1, <4>3, <4>8
    <3> QED
      BY <3>2, <3>3
  <2>2. CASE jobList[i] # first
    <3>1. CASE Prio(jobList) = {}
      BY <1>5, <1>6, <2>2, <3>1 DEF FirstOf
    <3>2. CASE Prio(jobList) # {}
      <4>1. PICK k \in 1..Len(jobList) : /\ jobList[k] = first /\ first \in PrioJobs
                                         /\ \A l \in 1..k-1 : jobList[l] \notin PrioJobs
        BY <1>6, <3>2 DEF FirstOf
      <4>2. first \in Prio(q)
        BY <1>1, <1>4, <2>2, <4>1, RangeOf DEF Prio
      <4>3. PICK m \in 1..Len(q) : q[m] = first /\ m = IF k < i THEN k ELSE k - 1
        <5>1. k # i
          BY <2>2, <4>1
        <5>2. CASE k < i
          BY <1>1, <1>2, <4>1, <5>2
        <5>3. CASE k > i
          <6>1. k - 1 \in 1..Len(q) /\ ~(k - 1 < i) /\ (k - 1) + 1 = k /\ ~(k < i)
            BY <1>1, <1>2, <5>3
          <6>2. q[k - 1] = first
            BY <1>2, <4>1, <6>1
          <6> QED
            BY <6>1, <6>2
        <5> QED
          BY <1>1, <5>1, <5>2, <5>3
      <4>4. ASSUME NEW l \in 1..m-1 PROVE q[l] \notin PrioJobs
        <5>1. l \in 1..Len(q) /\ l \in 1..k-1 /\ (~(l < i) => l + 1 \in 1..k-1)
          BY <1>1, <1>2, <4>3
        <5> QED
          BY <1>2, <4>1, <5>1
      <4>5. FirstOf(q, first)
        BY <4>1, <4>2, <4>3, <4>4 DEF FirstOf
      <4> QED
        BY <2>2, <4>5
    <3> QED
      BY <3>1, <3>2
  <2> QED
    BY <2>1, <2>2
<1> QED
  BY <1>2, <1>3, <1>4, <1>5, <1>6

\* virThreadPoolSendJob links a new job at the tail.
LEMMA ListSend ==
  ASSUME NEW q, List(q), NEW j \in Jobs, j \notin Range(q), NEW r, r = Append(q, j)
  PROVE  /\ List(r) /\ Len(r) = Len(q) + 1
         /\ \A x : x \in Range(r) <=> x \in Range(q) \/ x = j
         /\ Prio(r) = IF j \in PrioJobs THEN Prio(q) \cup {j} ELSE Prio(q)
         /\ \A first : FirstOf(q, first) =>
              FirstOf(r, IF j \in PrioJobs /\ first = NoJob THEN j ELSE first)
<1>1. /\ q \in Seq(Jobs) /\ Len(q) \in Nat
      /\ \A k, l \in 1..Len(q) : q[k] = q[l] => k = l
      /\ \A k \in 1..Len(q) : q[k] # j
  BY RangeOf DEF List
<1>2. /\ r \in Seq(Jobs) /\ Len(r) = Len(q) + 1 /\ r[Len(q) + 1] = j
      /\ \A k \in 1..Len(q) : r[k] = q[k]
  BY <1>1
<1>3. \A k \in 1..Len(r) : k \in 1..Len(q) \/ k = Len(q) + 1
  BY <1>1, <1>2
<1>4. List(r)
  BY <1>1, <1>2, <1>3 DEF List
<1>5. \A x : x \in Range(r) <=> x \in Range(q) \/ x = j
  <2>1. 1..Len(q) \subseteq 1..Len(r) /\ Len(q) + 1 \in 1..Len(r)
    BY <1>1, <1>2
  <2>2. ASSUME NEW x, x \in Range(r) PROVE x \in Range(q) \/ x = j
    <3>1. PICK k \in 1..Len(r) : r[k] = x
      BY <1>2, <2>2, RangeOf, Zenon
    <3> QED
      BY <1>1, <1>2, <1>3, <3>1, RangeOf
  <2>3. ASSUME NEW x, x \in Range(q) PROVE x \in Range(r)
    <3>1. PICK k \in 1..Len(q) : q[k] = x
      BY <1>1, <2>3, RangeOf
    <3>2. k \in 1..Len(r) /\ r[k] = x
      BY <1>2, <2>1, <3>1
    <3> QED
      BY <1>2, <3>2, RangeOf, Zenon
  <2>4. j \in Range(r)
    BY <1>2, <2>1, RangeOf, Zenon
  <2> QED
    BY <2>2, <2>3, <2>4
<1>6. Prio(r) = IF j \in PrioJobs THEN Prio(q) \cup {j} ELSE Prio(q)
  BY <1>5 DEF Prio
<1>7. ASSUME NEW first, FirstOf(q, first)
      PROVE  FirstOf(r, IF j \in PrioJobs /\ first = NoJob THEN j ELSE first)
  <2>1. CASE Prio(q) = {}
    <3>1. first = NoJob /\ \A k \in 1..Len(q) : q[k] \notin PrioJobs
      BY <1>1, <1>7, <2>1, RangeOf DEF FirstOf, Prio
    <3>2. CASE j \notin PrioJobs
      BY <1>6, <2>1, <3>1, <3>2 DEF FirstOf
    <3>3. CASE j \in PrioJobs
      <4>1. Prio(r) # {}
        BY <1>6, <3>3
      <4>2. \A l \in 1..(Len(q)+1)-1 : r[l] \notin PrioJobs
        BY <1>1, <1>2, <3>1
      <4>3. Len(q) + 1 \in 1..Len(r)
        BY <1>1, <1>2
      <4>4. FirstOf(r, j)
        BY <1>2, <3>3, <4>1, <4>2, <4>3 DEF FirstOf
      <4> QED
        BY <3>1, <3>3, <4>4
    <3> QED
      BY <3>2, <3>3
  <2>2. CASE Prio(q) # {}
    <3>1. PICK k \in 1..Len(q) : /\ q[k] = first /\ first \in PrioJobs
                                 /\ \A l \in 1..k-1 : q[l] \notin PrioJobs
      BY <1>7, <2>2 DEF FirstOf
    <3>2. first # NoJob
      BY <3>1, ThreadPoolAssumption
    <3>3. k \in 1..Len(r) /\ \A l \in 1..k-1 : l \in 1..Len(q)
      BY <1>1, <1>2
    <3>4. Prio(r) # {}
      BY <1>6, <2>2
    <3>5. FirstOf(r, first)
      BY <1>2, <3>1, <3>3, <3>4 DEF FirstOf
    <3> QED
      BY <3>2, <3>5
  <2> QED
    BY <2>1, <2>2
<1> QED
  BY <1>2, <1>4, <1>5, <1>6, <1>7

\* A list without priority jobs has no first one, and else the first one is in it.
LEMMA FirstIn ==
  ASSUME NEW q, List(q), NEW first, FirstOf(q, first)
  PROVE  /\ first = NoJob <=> Prio(q) = {}
         /\ first # NoJob => first \in Prio(q) /\ \E k \in 1..Len(q) : q[k] = first
<1>1. q \in Seq(Jobs)
  BY DEF List
<1>2. CASE Prio(q) = {}
  BY <1>2 DEF FirstOf
<1>3. CASE Prio(q) # {}
  <2>1. PICK k \in 1..Len(q) : q[k] = first /\ first \in PrioJobs
    BY <1>3 DEF FirstOf
  <2> QED
    BY <1>1, <1>3, <2>1, RangeOf, ThreadPoolAssumption DEF Prio
<1> QED
  BY <1>2, <1>3

(***************************************************************************)
(* The inductive invariant and what a worker does to it.                   *)
(***************************************************************************)

\* The list while the pool is in use.
JobsInv ==
  /\ List(jobList) /\ Range(jobList) \subseteq sent
  /\ ~pool.quit => pool.jobQueueDepth = Len(jobList) /\ FirstOf(jobList, firstPrio)

\* Whoever drains the pool has stopped it.
DrainerInv ==
  /\ drainer \in [call : {"none", "drain", "free"}, at : {"returned", "waiting", "woken"}]
  /\ drainer.at # "returned" => pool.quit /\ drainer.call # "none"

IInv ==
  /\ PoolInv(pool, worker, Len(jobList), Cardinality(Prio(jobList)))
  /\ JobsInv /\ DrainerInv /\ FreedAlone

\* A normal worker moves.
LEMMA WorkerMoves ==
  ASSUME NEW p, NEW w, NEW len, NEW prio, PoolInv(p, w, len, prio),
         NEW x \in Workers, NEW v \in Maps, Moved(v, w, x),
         NEW q \in Pools, q.quit = p.quit,
         q.nPrioWorkers = p.nPrioWorkers, q.maxPrioWorkers = p.maxPrioWorkers,
         q.freeWorkers = p.freeWorkers + (IF v[x] \in {"asleep", "woken"} THEN 1 ELSE 0)
                           - (IF w[x] \in {"asleep", "woken"} THEN 1 ELSE 0),
         NEW len2, NEW prio2 \in Nat, prio2 <= prio,
         Class(v, Workers, q.nWorkers, q.maxWorkers, len2, q.quit)
  PROVE  PoolInv(q, v, len2, prio2)
<1>1. w \in Maps /\ Count(w, Workers, {"asleep", "woken"}) \in Nat
  BY ClassTypes DEF PoolInv
<1>2. Count(v, Workers, {"asleep", "woken"}) = q.freeWorkers
  BY <1>1, CountMoves DEF PoolInv
<1>3. \A y \in PrioWorkers : v[y] = w[y]
  BY Disjoint DEF Moved
<1>4. Class(v, PrioWorkers, q.nPrioWorkers, q.maxPrioWorkers, prio2, q.quit)
  BY <1>3, ClassOther DEF PoolInv
<1> QED
  BY <1>2, <1>4 DEF PoolInv

\* A priority worker moves.
LEMMA PrioWorkerMoves ==
  ASSUME NEW p, NEW w, NEW len, NEW prio, PoolInv(p, w, len, prio),
         NEW x \in PrioWorkers, NEW v \in Maps, Moved(v, w, x),
         NEW q \in Pools, q.quit = p.quit,
         q.nWorkers = p.nWorkers, q.maxWorkers = p.maxWorkers,
         q.freeWorkers = p.freeWorkers,
         NEW len2 \in Nat, len2 <= len, NEW prio2,
         Class(v, PrioWorkers, q.nPrioWorkers, q.maxPrioWorkers, prio2, q.quit)
  PROVE  PoolInv(q, v, len2, prio2)
<1>1. \A y \in Workers : v[y] = w[y]
  BY Disjoint DEF Moved
<1>2. Count(v, Workers, {"asleep", "woken"}) = Count(w, Workers, {"asleep", "woken"})
  BY <1>1, CountSame
<1>3. Class(v, Workers, q.nWorkers, q.maxWorkers, len2, q.quit)
  BY <1>1, ClassOther DEF PoolInv
<1> QED
  BY <1>2, <1>3 DEF PoolInv

\* What WorkerLoop is called with: the worker x is awake, and if it was in
\* virCondWait it has taken itself off freeWorkers.
Awake(x, p) ==
  /\ x \in AllWorkers /\ worker[x] \in Active /\ p \in Pools
  /\ p.quit = pool.quit /\ p.jobQueueDepth = pool.jobQueueDepth
  /\ p.nWorkers = pool.nWorkers /\ p.maxWorkers = pool.maxWorkers
  /\ p.nPrioWorkers = pool.nPrioWorkers /\ p.maxPrioWorkers = pool.maxPrioWorkers
  /\ p.freeWorkers = pool.freeWorkers
                       - (IF x \in Workers /\ worker[x] = "woken" THEN 1 ELSE 0)

\* What a worker may do to the thread that drains the pool.
DrainerStep ==
  \/ drainer' = drainer
  \/ drainer.at = "waiting" /\ drainer' = [drainer EXCEPT !.at = "woken"]

\* A worker that lives has not been outlived by virThreadPoolFree.
LEMMA NotFreed ==
  ASSUME IInv, NEW x \in AllWorkers, worker[x] # "none",
         pool'.quit = pool.quit, DrainerStep
  PROVE  (DrainerInv /\ FreedAlone)'
<1>1. drainer # [call |-> "free", at |-> "returned"] /\ DrainerInv
  BY DEF IInv, FreedAlone
<1>2. DrainerInv' /\ drainer' # [call |-> "free", at |-> "returned"]
  <2>1. CASE drainer' = drainer
    BY <1>1, <2>1 DEF DrainerInv
  <2>2. CASE drainer.at = "waiting" /\ drainer' = [drainer EXCEPT !.at = "woken"]
    <3>1. drainer'.at = "woken" /\ DrainerInv'
      BY <1>1, <2>2 DEF DrainerInv
    <3> QED
      BY <3>1
  <2> QED
    BY <2>1, <2>2 DEF DrainerStep
<1> QED
  BY <1>2 DEF FreedAlone

\* The move of one worker in a step of WorkerLoop.
LEMMA LoopMove ==
  ASSUME IInv, NEW x \in AllWorkers, NEW b \in States, worker' = [worker EXCEPT ![x] = b]
  PROVE  worker' \in Maps /\ worker'[x] = b /\ Moved(worker', worker, x)
BY Assigned, Zenon DEF IInv, PoolInv

\* WorkerLoop never touches what is known of the list of a pool that it leaves alone.
LEMMA SameJobs ==
  ASSUME JobsInv, UNCHANGED <<jobList, firstPrio>>, pool'.quit = pool.quit,
         pool'.jobQueueDepth = pool.jobQueueDepth, sent \subseteq sent'
  PROVE  JobsInv'
BY DEF JobsInv

\* A worker ends only beyond the limit or when the pool quits.
LEMMA OutKeeps ==
  ASSUME IInv, NEW x, NEW p, Awake(x, p), WorkerOut(x, p), sent' = sent,
         p.quit \/ (IF x \in PrioWorkers THEN p.nPrioWorkers > p.maxPrioWorkers
                    ELSE p.nWorkers > p.maxWorkers)
  PROVE  IInv'
<1> DEFINE len == Len(jobList)
           prio == Cardinality(Prio(jobList))
           q == IF x \in PrioWorkers THEN [p EXCEPT !.nPrioWorkers = @ - 1]
                ELSE [p EXCEPT !.nWorkers = @ - 1]
<1>1. /\ worker' = [worker EXCEPT ![x] = "none"] /\ pool' = q
      /\ UNCHANGED <<jobList, firstPrio>>
      /\ DrainerStep
  BY DEF WorkerOut, DrainerStep
<1>2. /\ x \in AllWorkers /\ worker[x] \in Active /\ p \in Pools
      /\ "none" \in States
  BY DEF Awake, States
<1>3. worker' \in Maps /\ worker'[x] = "none" /\ Moved(worker', worker, x)
  BY <1>1, <1>2, LoopMove, Zenon
<1>4. PoolInv(pool, worker, len, prio) /\ prio \in Nat /\ len \in Nat
  BY PrioFinite, RangeOf DEF IInv, JobsInv, List
<1>5. pool' \in Pools /\ pool'.quit = pool.quit /\ pool'.jobQueueDepth = pool.jobQueueDepth
      /\ pool'.freeWorkers = p.freeWorkers
      /\ pool'.maxWorkers = pool.maxWorkers /\ pool'.maxPrioWorkers = pool.maxPrioWorkers
  BY <1>1, <1>2 DEF Awake, Pools
<1>6. (DrainerInv /\ FreedAlone)'
  BY <1>1, <1>2, <1>5, NotFreed DEF Active
<1>7. JobsInv'
  BY <1>1, <1>5, SameJobs DEF IInv
<1>8. PoolInv(pool', worker', len, prio)
  <2>1. CASE x \in PrioWorkers
    <3>1. pool'.nPrioWorkers = pool.nPrioWorkers - 1 /\ pool'.nWorkers = pool.nWorkers
      BY <1>1, <1>2, <2>1 DEF Awake, Pools
    <3>2. Class(worker, PrioWorkers, pool.nPrioWorkers, pool.maxPrioWorkers, prio, pool.quit)
          /\ (pool.nPrioWorkers > pool.maxPrioWorkers \/ pool.quit)
      BY <1>4, <2>1 DEF PoolInv, Awake
    <3> HIDE DEF len, prio, q
    <3>3. Class(worker', PrioWorkers, pool'.nPrioWorkers, pool'.maxPrioWorkers, prio, pool'.quit)
      BY <1>2, <1>3, <1>5, <2>1, <3>1, <3>2, ClassLeave
    <3>4. pool'.freeWorkers = pool.freeWorkers
      BY <1>4, <1>5, <2>1, Disjoint DEF Awake, PoolInv, Pools
    <3> QED
      BY <1>3, <1>4, <1>5, <2>1, <3>1, <3>3, <3>4, PrioWorkerMoves
  <2>2. CASE x \notin PrioWorkers
    <3>1. /\ x \in Workers
          /\ pool'.nWorkers = pool.nWorkers - 1 /\ pool'.nPrioWorkers = pool.nPrioWorkers
      BY <1>1, <1>2, <2>2 DEF Awake, Pools, AllWorkers
    <3>2. Class(worker, Workers, pool.nWorkers, pool.maxWorkers, len, pool.quit)
          /\ (pool.nWorkers > pool.maxWorkers \/ pool.quit)
      BY <1>4, <2>2 DEF PoolInv, Awake
    <3> HIDE DEF len, prio, q
    <3>3. Class(worker', Workers, pool'.nWorkers, pool'.maxWorkers, len, pool'.quit)
      BY <1>2, <1>3, <1>5, <3>1, <3>2, ClassLeave
    <3>4. pool'.freeWorkers = pool.freeWorkers
            + (IF worker'[x] \in {"asleep", "woken"} THEN 1 ELSE 0)
            - (IF worker[x] \in {"asleep", "woken"} THEN 1 ELSE 0)
      BY <1>2, <1>3, <1>4, <1>5, <3>1 DEF Awake, Active, PoolInv, Pools
    <3> QED
      BY <1>3, <1>4, <1>5, <3>1, <3>3, <3>4, WorkerMoves
  <2> QED
    BY <2>1, <2>2
<1> QED
  BY <1>1, <1>6, <1>7, <1>8 DEF IInv

\* The step of WorkerLoop to virCondWait.
SleepStep(x, p) ==
  /\ IF x \in PrioWorkers THEN p.nPrioWorkers <= p.maxPrioWorkers /\ firstPrio = NoJob
     ELSE p.nWorkers <= p.maxWorkers /\ jobList = <<>>
  /\ pool' = IF x \in PrioWorkers THEN p ELSE [p EXCEPT !.freeWorkers = @ + 1]
  /\ worker' = [worker EXCEPT ![x] = "asleep"]
  /\ UNCHANGED <<jobList, firstPrio, drainer>>

\* A worker sleeps only within the limit and when there is no job for it.
LEMMA SleepKeeps ==
  ASSUME IInv, NEW x, NEW p, Awake(x, p), sent' = sent,
         ~pool.quit, SleepStep(x, p)
  PROVE  IInv'
<1> DEFINE len == Len(jobList)
           prio == Cardinality(Prio(jobList))
<1>2. /\ x \in AllWorkers /\ worker[x] \in Active /\ p \in Pools
      /\ "asleep" \in States
  BY DEF Awake, States, Live
<1>3. worker' \in Maps /\ worker'[x] = "asleep" /\ Moved(worker', worker, x)
  BY <1>2, LoopMove, Zenon DEF SleepStep
<1>4. PoolInv(pool, worker, len, prio) /\ prio \in Nat /\ len \in Nat
  BY PrioFinite, RangeOf DEF IInv, JobsInv, List
<1>5. /\ pool' \in Pools /\ pool'.quit = pool.quit
      /\ pool'.jobQueueDepth = pool.jobQueueDepth
      /\ pool'.maxWorkers = pool.maxWorkers /\ pool'.maxPrioWorkers = pool.maxPrioWorkers
      /\ pool'.nWorkers = pool.nWorkers /\ pool'.nPrioWorkers = pool.nPrioWorkers
  BY <1>2 DEF Awake, Pools, SleepStep
<1>6. (DrainerInv /\ FreedAlone)'
  BY <1>2, <1>5, NotFreed DEF Active, SleepStep, DrainerStep
<1>7. JobsInv'
  BY <1>5, SameJobs DEF IInv, SleepStep
<1>8. PoolInv(pool', worker', len, prio)
  <2>1. CASE x \in PrioWorkers
    <3>1. prio = 0
      <4>1. Prio(jobList) = {}
        BY <2>1, FirstIn DEF IInv, JobsInv, SleepStep
      <4> QED
        BY <4>1, FS_EmptySet
    <3>2. Class(worker, PrioWorkers, pool.nPrioWorkers, pool.maxPrioWorkers, prio, pool.quit)
          /\ pool.nPrioWorkers <= pool.maxPrioWorkers
      BY <1>4, <2>1 DEF PoolInv, Awake, SleepStep
    <3>4. pool'.freeWorkers = pool.freeWorkers
      BY <1>4, <1>5, <2>1, Disjoint DEF Awake, PoolInv, Pools, SleepStep
    <3> HIDE DEF len, prio
    <3>3. Class(worker', PrioWorkers, pool'.nPrioWorkers, pool'.maxPrioWorkers, prio, pool'.quit)
      BY <1>2, <1>3, <1>5, <2>1, <3>1, <3>2, ClassSleep
    <3> QED
      BY <1>3, <1>4, <1>5, <2>1, <3>3, <3>4, PrioWorkerMoves
  <2>2. CASE x \notin PrioWorkers
    <3>1. x \in Workers /\ len = 0
      BY <1>2, <2>2 DEF AllWorkers, SleepStep
    <3>2. Class(worker, Workers, pool.nWorkers, pool.maxWorkers, len, pool.quit)
          /\ pool.nWorkers <= pool.maxWorkers
      BY <1>4, <2>2 DEF PoolInv, Awake, SleepStep
    <3>4. pool'.freeWorkers = pool.freeWorkers
            + (IF worker'[x] \in {"asleep", "woken"} THEN 1 ELSE 0)
            - (IF worker[x] \in {"asleep", "woken"} THEN 1 ELSE 0)
      <4>1. pool'.freeWorkers = p.freeWorkers + 1
        BY <1>2, <2>2 DEF Pools, SleepStep
      <4> QED
        BY <1>2, <1>3, <1>4, <3>1, <4>1 DEF Awake, Active, PoolInv, Pools
    <3> HIDE DEF len, prio
    <3>3. Class(worker', Workers, pool'.nWorkers, pool'.maxWorkers, len, pool'.quit)
      BY <1>2, <1>3, <1>5, <3>1, <3>2, ClassSleep
    <3> QED
      BY <1>3, <1>4, <1>5, <3>1, <3>3, <3>4, WorkerMoves
  <2> QED
    BY <2>1, <2>2
<1> QED
  BY <1>6, <1>7, <1>8 DEF IInv, SleepStep

\* A worker takes a job: a normal one the head of the list, a priority worker the
\* first job with a priority.
LEMMA TakeKeeps ==
  ASSUME IInv, NEW x, NEW p, Awake(x, p), sent' = sent, ~pool.quit,
         NEW j, IF x \in PrioWorkers THEN j = firstPrio /\ firstPrio # NoJob
                ELSE j = Head(jobList) /\ jobList # <<>>,
         TakeJob(x, j, p)
  PROVE  IInv'
<1> DEFINE len == Len(jobList)
           prio == Cardinality(Prio(jobList))
           i == CHOOSE k \in DOMAIN jobList : jobList[k] = j
<1>1. /\ worker' = [worker EXCEPT ![x] = "busy"]
      /\ pool' = [p EXCEPT !.jobQueueDepth = @ - 1]
      /\ jobList' = RemoveAt(jobList, i)
      /\ firstPrio' = IF j = firstPrio THEN NextPrio(i) ELSE firstPrio
      /\ drainer' = drainer
  BY DEF TakeJob
<1>2. /\ x \in AllWorkers /\ worker[x] \in Active /\ p \in Pools
      /\ "busy" \in States
  BY DEF Awake, States, Live
<1>3. worker' \in Maps /\ worker'[x] = "busy" /\ Moved(worker', worker, x)
  BY <1>1, <1>2, LoopMove, Zenon
<1>4. /\ PoolInv(pool, worker, len, prio) /\ prio \in Nat /\ len \in Nat
      /\ IsFiniteSet(Prio(jobList)) /\ DOMAIN jobList = 1..len
      /\ List(jobList) /\ FirstOf(jobList, firstPrio) /\ jobList \in Seq(Jobs)
      /\ pool.jobQueueDepth = len /\ Range(jobList) \subseteq sent
  BY PrioFinite, RangeOf DEF IInv, JobsInv, List
<1>5. /\ pool' \in Pools /\ pool'.quit = pool.quit
      /\ pool'.jobQueueDepth = pool.jobQueueDepth - 1 /\ pool'.freeWorkers = p.freeWorkers
      /\ pool'.maxWorkers = pool.maxWorkers /\ pool'.maxPrioWorkers = pool.maxPrioWorkers
      /\ pool'.nWorkers = pool.nWorkers /\ pool'.nPrioWorkers = pool.nPrioWorkers
  BY <1>1, <1>2 DEF Awake, Pools
<1>6. (DrainerInv /\ FreedAlone)'
  BY <1>1, <1>2, <1>5, NotFreed DEF Active, DrainerStep
<1>7. i \in 1..len /\ jobList[i] = j
  <2>1. \E k \in DOMAIN jobList : jobList[k] = j
    <3>1. CASE x \in PrioWorkers
      BY <1>4, <3>1, FirstIn
    <3>2. CASE x \notin PrioWorkers
      BY <1>4, <3>2
    <3> QED
      BY <3>1, <3>2
  <2>2. i \in DOMAIN jobList /\ jobList[i] = j
    BY <2>1, SMTT(30)
  <2> QED
    BY <1>4, <2>2
<1> HIDE DEF i
<1>8. /\ List(jobList') /\ Len(jobList') = len - 1 /\ Range(jobList') \subseteq Range(jobList)
      /\ Prio(jobList') = Prio(jobList) \ {j}
      /\ FirstOf(jobList', firstPrio')
  BY <1>1, <1>4, <1>7, ListTake, ZenonT(30)
<1>9. JobsInv'
  BY <1>4, <1>5, <1>8 DEF JobsInv
<1> DEFINE prio2 == Cardinality(Prio(jobList'))
<1>10. /\ Cardinality(Prio(jobList) \ {j}) =
            IF j \in Prio(jobList) THEN Cardinality(Prio(jobList)) - 1
            ELSE Cardinality(Prio(jobList))
       /\ prio2 = Cardinality(Prio(jobList) \ {j})
  BY <1>4, <1>8, FS_RemoveElement, Zenon
<1>11. prio2 = (IF j \in Prio(jobList) THEN prio - 1 ELSE prio) /\ prio2 \in Nat
  BY <1>8, <1>10, PrioFinite, Zenon DEF List
<1>12. len > 0 /\ len - 1 \in Nat /\ Len(jobList') = len - 1
  BY <1>4, <1>7, <1>8
<1> HIDE DEF len, prio, prio2
<1>13. PoolInv(pool', worker', len - 1, prio2)
  <2>1. CASE x \in PrioWorkers
    <3>1. prio2 = prio - 1
      BY <1>4, <1>11, <2>1, FirstIn, SMTT(30)
    <3>2. Class(worker, PrioWorkers, pool.nPrioWorkers, pool.maxPrioWorkers, prio, pool.quit)
      BY <1>4, SMTT(30) DEF PoolInv
    <3>3. Class(worker', PrioWorkers, pool'.nPrioWorkers, pool'.maxPrioWorkers, prio - 1, pool'.quit)
      BY <1>2, <1>3, <1>4, <1>5, <1>11, <2>1, <3>1, <3>2, ClassTake
    <3>4. pool'.freeWorkers = pool.freeWorkers
      BY <1>4, <1>5, <2>1, Disjoint DEF Awake, PoolInv, Pools
    <3>5. len - 1 <= len
      BY <1>4
    <3> QED
      BY <1>3, <1>4, <1>5, <1>12, <2>1, <3>1, <3>3, <3>4, <3>5, PrioWorkerMoves
  <2>2. CASE x \notin PrioWorkers
    <3>1. x \in Workers
      BY <1>2, <2>2, SMTT(30) DEF AllWorkers
    <3>2. Class(worker, Workers, pool.nWorkers, pool.maxWorkers, len, pool.quit)
      BY <1>4, ZenonT(30) DEF PoolInv
    <3>3. Class(worker', Workers, pool'.nWorkers, pool'.maxWorkers, len - 1, pool'.quit)
      BY <1>2, <1>3, <1>5, <1>12, <3>1, <3>2, ClassTake
    <3>4. pool'.freeWorkers = pool.freeWorkers
            + (IF worker'[x] \in {"asleep", "woken"} THEN 1 ELSE 0)
            - (IF worker[x] \in {"asleep", "woken"} THEN 1 ELSE 0)
      BY <1>2, <1>3, <1>4, <1>5, <3>1 DEF Awake, Active, PoolInv, Pools
    <3>5. prio2 <= prio
      BY <1>4, <1>11
    <3> QED
      BY <1>3, <1>4, <1>5, <1>11, <3>1, <3>3, <3>4, <3>5, WorkerMoves
  <2> QED
    BY <2>1, <2>2, SMTT(30)
<1> QED
  BY <1>6, <1>9, <1>12, <1>13 DEF IInv, prio2

\* The body of virThreadPoolWorker.
LEMMA LoopKeeps ==
  ASSUME IInv, NEW x, NEW p, Awake(x, p), WorkerLoop(x, p), sent' = sent
  PROVE  IInv'
<1> DEFINE priority == x \in PrioWorkers
           count == IF priority THEN p.nPrioWorkers ELSE p.nWorkers
           limit == IF priority THEN p.maxPrioWorkers ELSE p.maxWorkers
           job == IF priority THEN firstPrio
                  ELSE IF jobList = <<>> THEN NoJob ELSE Head(jobList)
<1>1. count \in Int /\ limit \in Int /\ p.quit = pool.quit /\ p.quit \in BOOLEAN
  BY DEF Awake, Pools
<1>2. CASE count > limit
  <2>1. WorkerOut(x, p)
    BY <1>2 DEF WorkerLoop, WorkerQuitHelper
  <2> QED
    BY <1>2, <2>1, OutKeeps
<1>3. CASE ~(count > limit) /\ p.quit
  <2>1. WorkerOut(x, p)
    BY <1>3 DEF WorkerLoop, WorkerQuitHelper
  <2> QED
    BY <1>3, <2>1, OutKeeps
<1>4. CASE ~(count > limit) /\ ~p.quit /\ job = NoJob
  <2>1. /\ pool' = IF priority THEN p ELSE [p EXCEPT !.freeWorkers = @ + 1]
        /\ worker' = [worker EXCEPT ![x] = "asleep"]
        /\ UNCHANGED <<jobList, firstPrio, drainer>>
    BY <1>4 DEF WorkerLoop, WorkerQuitHelper
  <2>2. IF priority THEN firstPrio = NoJob ELSE jobList = <<>>
    <3>1. jobList \in Seq(Jobs)
      BY DEF IInv, JobsInv, List
    <3>2. jobList # <<>> => Head(jobList) # NoJob
      BY <3>1, ThreadPoolAssumption
    <3>3. CASE priority
      BY <1>4, <3>3
    <3>4. CASE ~priority
      BY <1>4, <3>2, <3>4
    <3> QED
      BY <3>3, <3>4
  <2>3. IF priority THEN p.nPrioWorkers <= p.maxPrioWorkers ELSE p.nWorkers <= p.maxWorkers
    BY <1>1, <1>4
  <2>4. SleepStep(x, p)
    BY <2>1, <2>2, <2>3 DEF SleepStep
  <2> QED
    BY <1>1, <1>4, <2>4, SleepKeeps
<1>5. CASE ~(count > limit) /\ ~p.quit /\ job # NoJob
  <2>1. TakeJob(x, job, p)
    BY <1>5 DEF WorkerLoop, WorkerQuitHelper
  <2>2. IF priority THEN job = firstPrio /\ firstPrio # NoJob
        ELSE job = Head(jobList) /\ jobList # <<>>
    BY <1>5
  <2> HIDE DEF job, count, limit
  <2> QED
    BY <1>1, <1>5, <2>1, <2>2, TakeKeeps
<1> QED
  BY <1>2, <1>3, <1>4, <1>5, SMTT(30)

\* The actions of a worker.
LEMMA WorkerStepKeeps ==
  ASSUME IInv, NEW x \in AllWorkers, WorkerStep(x)
  PROVE  IInv'
<1>1. pool \in Pools /\ PoolInv(pool, worker, Len(jobList), Cardinality(Prio(jobList)))
  BY DEF IInv, PoolInv
<1>2. CASE WorkerStart(x)
  <2>1. Awake(x, pool)
    BY <1>1, <1>2 DEF WorkerStart, Awake, Active, Pools
  <2> QED
    BY <1>2, <2>1, LoopKeeps DEF WorkerStart
<1>3. CASE WorkerDone(x)
  <2>1. Awake(x, pool)
    BY <1>1, <1>3 DEF WorkerDone, Awake, Active, Pools
  <2> QED
    BY <1>3, <2>1, LoopKeeps DEF WorkerDone
<1>4. CASE WorkerWakeup(x)
  <2> DEFINE p == IF x \in PrioWorkers THEN pool ELSE [pool EXCEPT !.freeWorkers = @ - 1]
  <2>1. worker[x] = "woken" /\ WorkerLoop(x, p) /\ sent' = sent
    BY <1>4 DEF WorkerWakeup
  <2>2. Awake(x, p)
    <3>1. CASE x \in PrioWorkers
      BY <1>1, <2>1, <3>1, Disjoint DEF Awake, Active, Pools
    <3>2. CASE x \notin PrioWorkers
      BY <1>1, <2>1, <3>2 DEF Awake, Active, Pools, AllWorkers
    <3> QED
      BY <3>1, <3>2
  <2> HIDE DEF p
  <2> QED
    BY <2>1, <2>2, LoopKeeps
<1> QED
  BY <1>2, <1>3, <1>4, SMTT(30) DEF WorkerStep

\* virCondWait returns without a signal.
LEMMA SpuriousKeeps ==
  ASSUME IInv, NEW x \in AllWorkers, SpuriousWakeup(x)
  PROVE  IInv'
<1> DEFINE len == Len(jobList)
           prio == Cardinality(Prio(jobList))
<1>1. /\ worker[x] = "asleep" /\ worker' = [worker EXCEPT ![x] = "woken"]
      /\ UNCHANGED <<jobList, firstPrio, pool, sent, drainer>> /\ "woken" \in States
  BY DEF SpuriousWakeup, States, Live
<1>2. worker' \in Maps /\ worker'[x] = "woken" /\ Moved(worker', worker, x)
  BY <1>1, LoopMove, Zenon
<1>3. PoolInv(pool, worker, len, prio) /\ pool \in Pools /\ prio \in Nat /\ len \in Nat
  BY PrioFinite, RangeOf DEF IInv, PoolInv, JobsInv, List
<1>4. (DrainerInv /\ FreedAlone)' /\ JobsInv'
  BY <1>1, NotFreed, SameJobs DEF IInv, DrainerStep
<1>5. len + 0 = len /\ prio + 0 = prio /\ len <= len /\ prio <= prio
  BY <1>3
<1>8. UNCHANGED <<pool, jobList>>
  BY <1>1
<1> HIDE DEF len, prio
<1>6. PoolInv(pool, worker', len, prio)
  <2>1. CASE x \in Workers
    <3>1. Class(worker', Workers, pool.nWorkers, pool.maxWorkers, len + 0, pool.quit)
      BY <1>1, <1>2, <1>3, <2>1, ClassWake, Zenon DEF PoolInv
    <3>2. pool.freeWorkers = pool.freeWorkers
            + (IF worker'[x] \in {"asleep", "woken"} THEN 1 ELSE 0)
            - (IF worker[x] \in {"asleep", "woken"} THEN 1 ELSE 0)
      BY <1>1, <1>2, <1>3 DEF Pools
    <3> QED
      BY <1>2, <1>3, <1>5, <2>1, <3>1, <3>2, WorkerMoves
  <2>2. CASE x \in PrioWorkers
    <3>1. Class(worker', PrioWorkers, pool.nPrioWorkers, pool.maxPrioWorkers, prio + 0, pool.quit)
      BY <1>1, <1>2, <1>3, <2>2, ClassWake, Zenon DEF PoolInv
    <3> QED
      BY <1>2, <1>3, <1>5, <2>2, <3>1, PrioWorkerMoves
  <2> QED
    BY <2>1, <2>2 DEF AllWorkers
<1> QED
  BY <1>4, <1>6, <1>8 DEF IInv, len, prio

-----------------------------------------------------------------------------
(***************************************************************************)
(* The interface.                                                          *)
(***************************************************************************)

\* As long as the pool is shared it has not been freed.
LEMMA StillShared ==
  ASSUME IInv, Shared, drainer' = drainer, pool.quit => pool'.quit
  PROVE  (DrainerInv /\ FreedAlone)'
<1>1. drainer # [call |-> "free", at |-> "returned"] /\ DrainerInv
  BY DEF IInv, Shared
<1> QED
  BY <1>1 DEF DrainerInv, FreedAlone

\* virThreadPoolSendJob signals a normal worker for one more job.
LEMMA SignalWorkers ==
  ASSUME NEW p, NEW w, NEW len, NEW prio, PoolInv(p, w, len, prio),
         NEW v \in Signal(w, Workers)
  PROVE  PoolInv(p, v, len + 1, prio)
<1>1. /\ Class(v, Workers, p.nWorkers, p.maxWorkers, len + 1, p.quit)
      /\ \A y \in AllWorkers \ Workers : v[y] = w[y]
      /\ \A y \in AllWorkers : v[y] \in {"asleep", "woken"} <=> w[y] \in {"asleep", "woken"}
  BY SignalKeeps DEF PoolInv
<1>2. v \in Maps /\ prio \in Nat
  BY <1>1 DEF PoolInv, Class
<1>3. \A y \in PrioWorkers : v[y] = w[y]
  BY <1>1, Disjoint
<1>4. Class(v, PrioWorkers, p.nPrioWorkers, p.maxPrioWorkers, prio, p.quit)
  BY <1>2, <1>3, ClassOther DEF PoolInv
<1>5. Count(v, Workers, {"asleep", "woken"}) = Count(w, Workers, {"asleep", "woken"})
  BY <1>1, CountSame DEF AllWorkers
<1> QED
  BY <1>1, <1>2, <1>4, <1>5, SMTT(30) DEF PoolInv

\* The same for the priority workers and a job with a priority.
LEMMA SignalPrioWorkers ==
  ASSUME NEW p, NEW w, NEW len, NEW prio, PoolInv(p, w, len, prio),
         NEW v \in Signal(w, PrioWorkers)
  PROVE  PoolInv(p, v, len, prio + 1)
<1>1. /\ Class(v, PrioWorkers, p.nPrioWorkers, p.maxPrioWorkers, prio + 1, p.quit)
      /\ \A y \in AllWorkers \ PrioWorkers : v[y] = w[y]
  BY SignalKeeps DEF PoolInv
<1>2. v \in Maps /\ len \in Nat
  BY <1>1 DEF PoolInv, Class
<1>3. \A y \in Workers : v[y] = w[y]
  BY <1>1, Disjoint, SMTT(30)
<1>4. Class(v, Workers, p.nWorkers, p.maxWorkers, len, p.quit)
  BY <1>2, <1>3, ClassOther DEF PoolInv
<1>5. Count(v, Workers, {"asleep", "woken"}) = Count(w, Workers, {"asleep", "woken"})
  BY <1>3, CountSame, SMTT(30)
<1> QED
  BY <1>1, <1>2, <1>4, <1>5, SMTT(30) DEF PoolInv

\* virThreadPoolSendJob: a new thread may have been created, then the job is linked and
\* a worker of each class that can take it is signalled.
LEMMA SendKeeps ==
  ASSUME IInv, NEW j \in Jobs, SendJob(j)
  PROVE  IInv'
<1> DEFINE len == Len(jobList)
           prio == Cardinality(Prio(jobList))
           outcomes == IF NoFreeWorker(pool) /\ pool.nWorkers < pool.maxWorkers
                       THEN Expand(pool, worker, 1, FALSE)
                       ELSE {[ok |-> TRUE, pool |-> pool, worker |-> worker]}
<1>1. /\ Shared /\ j \notin sent /\ ~pool.quit /\ jobList' = Append(jobList, j)
      /\ firstPrio' = IF j \in PrioJobs /\ firstPrio = NoJob THEN j ELSE firstPrio
      /\ sent' = sent \cup {j} /\ drainer' = drainer
  BY DEF SendJob
<1>2. \E e \in outcomes : /\ pool' = [e.pool EXCEPT !.jobQueueDepth = @ + 1]
                          /\ \E w \in Signal(e.worker, Workers) :
                               worker' \in IF j \in PrioJobs THEN Signal(w, PrioWorkers) ELSE {w}
  BY ZenonT(30) DEF SendJob
<1>3. /\ PoolInv(pool, worker, len, prio) /\ pool \in Pools /\ prio \in Nat /\ len \in Nat
      /\ worker \in Maps
      /\ IsFiniteSet(Prio(jobList)) /\ List(jobList) /\ FirstOf(jobList, firstPrio)
      /\ pool.jobQueueDepth = len /\ Range(jobList) \subseteq sent
  BY <1>1, PrioFinite, RangeOf, Zenon DEF IInv, PoolInv, JobsInv, List
<1>4. ASSUME NEW e \in outcomes
      PROVE  /\ e \in Outcomes /\ PoolInv(e.pool, e.worker, len, prio)
             /\ e.pool.jobQueueDepth = pool.jobQueueDepth /\ e.pool.quit = pool.quit
  <2>1. ASSUME NEW f \in Expand(pool, worker, 1, FALSE)
        PROVE  /\ f \in Outcomes /\ PoolInv(f.pool, f.worker, len, prio)
               /\ f.pool.jobQueueDepth = pool.jobQueueDepth /\ f.pool.quit = pool.quit
    <3>1. Expanded(f, pool, pool.nWorkers + 1, f.pool.nWorkers, len, prio)
      BY <1>3, ExpandWorkers, Zenon
    <3> QED
      BY <3>1 DEF Expanded
  <2>2. CASE NoFreeWorker(pool) /\ pool.nWorkers < pool.maxWorkers
    <3>1. e \in Expand(pool, worker, 1, FALSE)
      BY <2>2, Zenon
    <3> QED
      BY <2>1, <3>1, Zenon
  <2>3. CASE ~(NoFreeWorker(pool) /\ pool.nWorkers < pool.maxWorkers)
    <3>1. e = [ok |-> TRUE, pool |-> pool, worker |-> worker]
      BY <2>3, Zenon
    <3> QED
      BY <1>3, <3>1 DEF Outcomes
  <2> QED
    BY <2>2, <2>3
<1> HIDE DEF outcomes
<1>5. PICK e \in outcomes : /\ pool' = [e.pool EXCEPT !.jobQueueDepth = @ + 1]
                          /\ \E w \in Signal(e.worker, Workers) :
                               worker' \in IF j \in PrioJobs THEN Signal(w, PrioWorkers) ELSE {w}
  BY <1>2, Zenon
<1>6. PICK w \in Signal(e.worker, Workers) :
             worker' \in IF j \in PrioJobs THEN Signal(w, PrioWorkers) ELSE {w}
  BY <1>5
<1>7. /\ e \in Outcomes /\ PoolInv(e.pool, e.worker, len, prio)
      /\ e.pool.jobQueueDepth = pool.jobQueueDepth /\ e.pool.quit = pool.quit
  BY <1>4
<1>8. /\ List(jobList') /\ Len(jobList') = len + 1
      /\ Range(jobList') \subseteq sent'
      /\ Prio(jobList') = IF j \in PrioJobs THEN Prio(jobList) \cup {j} ELSE Prio(jobList)
      /\ FirstOf(jobList', firstPrio')
  BY <1>1, <1>3, ListSend, Zenon
<1>9. Cardinality(Prio(jobList')) = IF j \in PrioJobs THEN prio + 1 ELSE prio
  <2>1. CASE j \in PrioJobs
    <3>1. j \notin Prio(jobList)
      BY <1>1, <1>3 DEF Prio
    <3>2. Cardinality(Prio(jobList) \cup {j}) = prio + 1
      BY <1>3, <3>1, FS_AddElement, Zenon
    <3>3. Cardinality(Prio(jobList')) = Cardinality(Prio(jobList) \cup {j})
      BY <1>8, <2>1, Zenon
    <3> QED
      BY <2>1, <3>2, <3>3, SMTT(30)
  <2>2. CASE j \notin PrioJobs
    BY <1>8, <2>2, ZenonT(30)
  <2> QED
    BY <2>1, <2>2
<1> HIDE DEF len, prio
<1>10. PoolInv(e.pool, w, len + 1, prio)
  BY <1>7, SignalWorkers
<1>11. PoolInv(e.pool, worker', len + 1, IF j \in PrioJobs THEN prio + 1 ELSE prio)
  <2>1. CASE j \in PrioJobs
    <3>1. worker' \in Signal(w, PrioWorkers)
      BY <1>6, <2>1, SMTT(30)
    <3>2. PoolInv(e.pool, worker', len + 1, prio + 1)
      BY <1>10, <3>1, SignalPrioWorkers
    <3> QED
      BY <2>1, <3>2
  <2>2. CASE j \notin PrioJobs
    BY <1>6, <1>10, <2>2
  <2> QED
    BY <2>1, <2>2
<1>12. /\ pool' \in Pools /\ pool'.jobQueueDepth = pool.jobQueueDepth + 1
       /\ pool'.quit = e.pool.quit /\ pool'.nWorkers = e.pool.nWorkers
       /\ pool'.maxWorkers = e.pool.maxWorkers /\ pool'.nPrioWorkers = e.pool.nPrioWorkers
       /\ pool'.maxPrioWorkers = e.pool.maxPrioWorkers
       /\ pool'.freeWorkers = e.pool.freeWorkers
  BY <1>5, <1>7, SMTT(30) DEF Outcomes, Pools
<1>13. PoolInv(pool', worker', Len(jobList'), Cardinality(Prio(jobList')))
  BY <1>8, <1>9, <1>11, <1>12, PoolField
<1>14. JobsInv'
  BY <1>3, <1>8, <1>12 DEF JobsInv
<1> QED
  BY <1>1, <1>7, <1>12, <1>13, <1>14, StillShared DEF IInv

\* virThreadPoolSetParameters, wherever one of its calls to virThreadPoolExpand fails.
LEMMA SetKeeps ==
  ASSUME IInv, NEW min \in Int, NEW max \in Int, NEW pri \in Int, SetParameters(min, max, pri)
  PROVE  IInv'
<1> DEFINE len == Len(jobList)
           prio == Cardinality(Prio(jobList))
           start == [ok |-> TRUE, pool |-> pool, worker |-> worker]
           Good(e) == SetInv(e, len, prio, pool.jobQueueDepth, pool.quit)
<1>1. /\ Shared /\ UNCHANGED <<jobList, firstPrio, sent, drainer>>
      /\ \E a \in SetMinWorkers(start, min) :
           \E b \in SetPrioWorkers(SetMaxWorkers(a, max), pri) :
             pool' = b.pool /\ worker' = b.worker
  BY SMTT(30) DEF SetParameters
<1>2. Good(start)
  BY DEF IInv, PoolInv, SetInv, Outcomes
<1> HIDE DEF start, len, prio
<1>3. PICK a \in SetMinWorkers(start, min) :
        \E b \in SetPrioWorkers(SetMaxWorkers(a, max), pri) :
             pool' = b.pool /\ worker' = b.worker
  BY <1>1
<1>4. Good(a)
  BY <1>2, SetMinKeeps
<1> DEFINE c == SetMaxWorkers(a, max)
<1>5. Good(c)
  BY <1>4, SetMaxKeeps
<1> HIDE DEF c
<1>6. PICK b \in SetPrioWorkers(c, pri) : pool' = b.pool /\ worker' = b.worker
  BY <1>3 DEF c
<1>7. Good(b)
  BY <1>5, SetPrioKeeps
<1>8. /\ PoolInv(pool', worker', len, prio)
      /\ pool'.quit = pool.quit /\ pool'.jobQueueDepth = pool.jobQueueDepth
  BY <1>6, <1>7 DEF SetInv
<1>9. JobsInv'
  BY <1>1, <1>8, SameJobs DEF IInv
<1> QED
  BY <1>1, <1>8, <1>9, StillShared DEF IInv, len, prio

\* virThreadPoolStopLocked wakes everybody; from then on the list does not matter.
LEMMA StopKeeps ==
  ASSUME IInv, StopLocked
  PROVE  /\ pool'.quit /\ \A len2, prio2 \in Nat : PoolInv(pool', worker', len2, prio2)
<1> DEFINE len == Len(jobList)
           prio == Cardinality(Prio(jobList))
<1>1. PoolInv(pool, worker, len, prio) /\ pool \in Pools
  BY DEF IInv, PoolInv
<1> HIDE DEF len, prio
<1>2. CASE pool.quit
  <2>1. UNCHANGED <<pool, worker>>
    BY <1>2 DEF StopLocked
  <2>2. pool.quit = TRUE
    BY <1>1, <1>2 DEF Pools
  <2>3. \A len2, prio2 \in Nat : PoolInv(pool, worker, len2, prio2)
    BY <1>1, <2>2, ClassQuit, Zenon DEF PoolInv
  <2> QED
    BY <1>2, <2>1, <2>3
<1>3. CASE ~pool.quit
  <2> DEFINE u == Broadcast(worker, Workers)
             v == Broadcast(u, PrioWorkers)
  <2>1. pool' = [pool EXCEPT !.quit = TRUE] /\ worker' = v
    BY <1>3 DEF StopLocked
  <2>2. /\ Class(u, Workers, pool.nWorkers, pool.maxWorkers, len, pool.quit)
        /\ \A y \in AllWorkers \ Workers : u[y] = worker[y]
        /\ \A y \in AllWorkers : u[y] \in {"asleep", "woken"} <=> worker[y] \in {"asleep", "woken"}
    BY <1>1, BroadcastKeeps DEF PoolInv, Pools
  <2> HIDE DEF u
  <2>3. u \in Maps /\ \A y \in PrioWorkers : u[y] = worker[y]
    BY <2>2, Disjoint, SMTT(30) DEF Class
  <2>4. Class(u, PrioWorkers, pool.nPrioWorkers, pool.maxPrioWorkers, prio, pool.quit)
    BY <1>1, <2>3, ClassOther, SMTT(30) DEF PoolInv, Class
  <2>5. /\ Class(v, PrioWorkers, pool.nPrioWorkers, pool.maxPrioWorkers, prio, pool.quit)
        /\ \A y \in AllWorkers \ PrioWorkers : v[y] = u[y]
    BY <1>1, <2>4, BroadcastKeeps DEF Pools
  <2> HIDE DEF v
  <2>6. v \in Maps /\ \A y \in Workers : v[y] = u[y]
    BY <2>5, Disjoint DEF Class
  <2>7. Class(v, Workers, pool.nWorkers, pool.maxWorkers, len, pool.quit)
    BY <2>2, <2>6, ClassOther DEF Class
  <2>8. Count(u, Workers, {"asleep", "woken"}) = Count(worker, Workers, {"asleep", "woken"})
    BY <2>2, CountSame DEF AllWorkers
  <2>9. Count(v, Workers, {"asleep", "woken"}) = Count(u, Workers, {"asleep", "woken"})
    BY <2>6, CountSame
  <2>10. /\ pool' \in Pools /\ pool'.quit = TRUE
         /\ pool'.nWorkers = pool.nWorkers /\ pool'.maxWorkers = pool.maxWorkers
         /\ pool'.nPrioWorkers = pool.nPrioWorkers /\ pool'.maxPrioWorkers = pool.maxPrioWorkers
         /\ pool'.freeWorkers = pool.freeWorkers
    BY <1>1, <2>1, Zenon DEF Pools
  <2>11. worker' = v
    BY <2>1
  <2>12. ASSUME NEW len2 \in Nat, NEW prio2 \in Nat
         PROVE  /\ Class(v, Workers, pool.nWorkers, pool.maxWorkers, len2, TRUE)
                /\ Class(v, PrioWorkers, pool.nPrioWorkers, pool.maxPrioWorkers, prio2, TRUE)
    BY <2>5, <2>7, ClassQuit, Zenon
  <2>13. pool.freeWorkers = Count(v, Workers, {"asleep", "woken"})
    BY <1>1, <2>8, <2>9 DEF PoolInv
  <2> QED
    BY <2>6, <2>10, <2>11, <2>12, <2>13, Zenon DEF PoolInv
<1> QED
  BY <1>2, <1>3

\* The list of a pool that quits may be freed.
LEMMA QuitJobs ==
  ASSUME JobsInv, jobList' \in {jobList, <<>>}, pool'.quit, sent' = sent
  PROVE  /\ JobsInv' /\ Len(jobList') \in Nat /\ Cardinality(Prio(jobList')) \in Nat
<1>1. List(jobList') /\ Range(jobList') \subseteq sent
  <2>1. CASE jobList' = jobList
    BY <2>1 DEF JobsInv
  <2>2. CASE jobList' = <<>>
    <3>1. <<>> \in Seq(Jobs) /\ Len(<<>>) = 0
      OBVIOUS
    <3>2. \A k : k \notin 1..0
      OBVIOUS
    <3>3. List(<<>>)
      BY <3>1, <3>2 DEF List
    <3>4. \A y : y \notin Range(<<>>)
      BY <3>1, <3>2, RangeOf, Zenon
    <3> QED
      BY <2>2, <3>3, <3>4
  <2> QED
    BY <2>1, <2>2
<1> QED
  BY <1>1, PrioFinite, RangeOf DEF JobsInv, List

\* When the counters are zero no thread is left.
LEMMA NoneLeft ==
  ASSUME NEW p, NEW w, NEW len, NEW prio, PoolInv(p, w, len, prio),
         ~(p.nWorkers > 0 \/ p.nPrioWorkers > 0)
  PROVE  \A x \in AllWorkers : w[x] = "none"
<1>1. ASSUME NEW class \in {Workers, PrioWorkers}, ~(Count(w, class, Live) > 0)
      PROVE  \A x \in class : w[x] \notin Live
  <2>1. IsFiniteSet(Members(w, class, Live)) /\ Cardinality(Members(w, class, Live)) = 0
    BY <1>1, CountType DEF Count
  <2>2. Members(w, class, Live) = {}
    BY <2>1, FS_EmptySet
  <2> QED
    BY <2>2 DEF Members
<1>2. \A x \in AllWorkers : w[x] \notin Live
  BY <1>1 DEF PoolInv, Class, ClassInv, AllWorkers
<1> QED
  BY <1>2 DEF PoolInv, Maps, States

\* The loop of virThreadPoolDrainLocked returns only when no thread is left.
LEMMA DrainKeeps ==
  ASSUME IInv, NEW call \in {"drain", "free"}, DrainLoop(call), sent' = sent, pool'.quit,
         \A len2, prio2 \in Nat : PoolInv(pool', worker', len2, prio2)
  PROVE  IInv'
<1>1. jobList' \in {jobList, <<>>}
  BY DEF DrainLoop
<1>2. JobsInv' /\ Len(jobList') \in Nat /\ Cardinality(Prio(jobList')) \in Nat
  BY <1>1, QuitJobs DEF IInv
<1>3. PoolInv(pool', worker', Len(jobList'), Cardinality(Prio(jobList')))
  BY <1>2
<1>4. (DrainerInv /\ FreedAlone)'
  <2>1. CASE pool'.nWorkers > 0 \/ pool'.nPrioWorkers > 0
    <3>1. drainer' = [call |-> call, at |-> "waiting"]
      BY <2>1 DEF DrainLoop
    <3>2. drainer'.at = "waiting" /\ DrainerInv'
      BY <3>1 DEF DrainerInv
    <3>3. drainer' # [call |-> "free", at |-> "returned"]
      BY <3>2
    <3> QED
      BY <3>2, <3>3 DEF FreedAlone
  <2>2. CASE ~(pool'.nWorkers > 0 \/ pool'.nPrioWorkers > 0)
    <3>1. drainer' = [call |-> call, at |-> "returned"]
      BY <2>2 DEF DrainLoop
    <3>2. \A x \in AllWorkers : worker'[x] = "none"
      BY <1>3, <2>2, NoneLeft
    <3> QED
      BY <3>1, <3>2 DEF DrainerInv, FreedAlone
  <2> QED
    BY <2>1, <2>2
<1> QED
  BY <1>2, <1>3, <1>4 DEF IInv

\* virThreadPoolStop
LEMMA StopStep ==
  ASSUME IInv, Stop
  PROVE  IInv'
<1>1. /\ StopLocked /\ Shared /\ UNCHANGED <<jobList, firstPrio, sent, drainer>>
  BY DEF Stop
<1>2. pool'.quit /\ \A len2, prio2 \in Nat : PoolInv(pool', worker', len2, prio2)
  BY <1>1, StopKeeps
<1>3. JobsInv' /\ Len(jobList') \in Nat /\ Cardinality(Prio(jobList')) \in Nat
  BY <1>1, <1>2, QuitJobs DEF IInv
<1>4. PoolInv(pool', worker', Len(jobList'), Cardinality(Prio(jobList')))
  BY <1>2, <1>3
<1> QED
  BY <1>1, <1>2, <1>3, <1>4, StillShared DEF IInv

\* virThreadPoolDrain, virThreadPoolFree and the end of their wait on quit_cond.
LEMMA DrainStep ==
  ASSUME IInv, DrainWakeup \/ \E call \in {"drain", "free"} : Drain(call)
  PROVE  IInv'
<1>1. CASE DrainWakeup
  <2>1. /\ UNCHANGED <<pool, worker>> /\ DrainLoop(drainer.call) /\ sent' = sent
        /\ drainer.at = "woken"
    BY <1>1 DEF DrainWakeup
  <2>2. pool.quit /\ drainer.call \in {"drain", "free"}
    BY <2>1 DEF IInv, DrainerInv
  <2>3. StopLocked
    BY <2>1, <2>2 DEF StopLocked
  <2>4. pool'.quit /\ \A len2, prio2 \in Nat : PoolInv(pool', worker', len2, prio2)
    BY <2>3, StopKeeps
  <2> QED
    BY <2>1, <2>2, <2>4, DrainKeeps
<1>2. ASSUME NEW call \in {"drain", "free"}, Drain(call)
      PROVE  IInv'
  <2>1. StopLocked /\ DrainLoop(call) /\ sent' = sent
    BY <1>2 DEF Drain
  <2>2. pool'.quit /\ \A len2, prio2 \in Nat : PoolInv(pool', worker', len2, prio2)
    BY <2>1, StopKeeps
  <2> QED
    BY <2>1, <2>2, DrainKeeps
<1> QED
  BY <1>1, <1>2

-----------------------------------------------------------------------------
(***************************************************************************)
(* The theorems.                                                           *)
(***************************************************************************)

\* virThreadPoolNewFull starts from a pool without threads and expands it.
LEMMA InitInv == Init => IInv
<1> SUFFICES ASSUME Init PROVE IInv
  BY SMTT(30)
<1> DEFINE min == IF MinWorkers0 > MaxWorkers0 THEN MaxWorkers0 ELSE MinWorkers0
           p0 == [quit |-> FALSE, jobQueueDepth |-> 0, freeWorkers |-> 0,
                  nWorkers |-> 0, minWorkers |-> min, maxWorkers |-> MaxWorkers0,
                  nPrioWorkers |-> 0, maxPrioWorkers |-> PrioWorkers0]
           w0 == [x \in AllWorkers |-> "none"]
<1>1. /\ jobList = <<>> /\ firstPrio = NoJob /\ sent = {}
      /\ drainer = [call |-> "none", at |-> "returned"]
      /\ \E a \in {e \in Expand(p0, w0, min, FALSE) : e.ok} :
           \E b \in {e \in Expand(a.pool, a.worker, PrioWorkers0, TRUE) : e.ok} :
             pool = b.pool /\ worker = b.worker
  BY Zenon DEF Init
<1>2. MinWorkers0 \in Nat /\ MaxWorkers0 \in Nat /\ PrioWorkers0 \in Nat /\ min \in Nat
  BY ThreadPoolAssumption
<1>3. p0 \in Pools /\ p0.quit = FALSE /\ p0.jobQueueDepth = 0
      /\ p0.nWorkers = 0 /\ p0.maxWorkers = MaxWorkers0 /\ p0.freeWorkers = 0
      /\ p0.nPrioWorkers = 0 /\ p0.maxPrioWorkers = PrioWorkers0
  BY <1>2 DEF Pools
<1>4. w0 \in Maps /\ \A x \in AllWorkers : w0[x] = "none"
  BY DEF Maps, States
<1> HIDE DEF p0, w0, min
<1>5. ASSUME NEW class \in {Workers, PrioWorkers}, NEW S, "none" \notin S
      PROVE  Count(w0, class, S) = 0
  <2>1. Members(w0, class, S) = {}
    BY <1>4, <1>5, ClassFinite, SMTT(30) DEF Members
  <2> QED
    BY <2>1, FS_EmptySet DEF Count
<1>6. PoolInv(p0, w0, 0, 0)
  <2>1. ASSUME NEW class \in {Workers, PrioWorkers}
        PROVE  Count(w0, class, Live) = 0 /\ Count(w0, class, {"asleep"}) = 0
               /\ Count(w0, class, {"asleep", "woken"}) = 0
    BY <1>5 DEF Live
  <2>2. ASSUME NEW class \in {Workers, PrioWorkers}, NEW max \in Nat
        PROVE  Class(w0, class, 0, max, 0, FALSE)
    BY <1>4, <2>1 DEF Class, ClassInv
  <2>3. /\ Class(w0, Workers, p0.nWorkers, p0.maxWorkers, 0, p0.quit)
        /\ Class(w0, PrioWorkers, p0.nPrioWorkers, p0.maxPrioWorkers, 0, p0.quit)
    BY <1>2, <1>3, <2>2, Zenon
  <2> QED
    BY <1>3, <1>4, <2>1, <2>3 DEF PoolInv
<1>7. PICK a \in Expand(p0, w0, min, FALSE) :
        \E b \in {e \in Expand(a.pool, a.worker, PrioWorkers0, TRUE) : e.ok} :
           pool = b.pool /\ worker = b.worker
  BY <1>1, Zenon
<1>8. PoolInv(a.pool, a.worker, 0, 0) /\ a.pool.quit = FALSE /\ a.pool.jobQueueDepth = 0
  <2>1. Expanded(a, p0, p0.nWorkers + min, a.pool.nWorkers, 0, 0)
    BY <1>2, <1>6, ExpandWorkers, Zenon
  <2> QED
    BY <1>3, <2>1 DEF Expanded
<1> DEFINE q == a.pool
           v == a.worker
<1>9. PICK b \in Expand(q, v, PrioWorkers0, TRUE) : pool = b.pool /\ worker = b.worker
  BY <1>7, Zenon
<1>10. PoolInv(pool, worker, 0, 0) /\ pool.quit = FALSE /\ pool.jobQueueDepth = 0
  <2>1. PoolInv(q, v, 0, 0)
    BY <1>8
  <2> HIDE DEF q, v
  <2>2. Expanded(b, q, q.nPrioWorkers + PrioWorkers0, b.pool.nPrioWorkers, 0, 0)
    BY <1>2, <2>1, ExpandPrio, Zenon
  <2> QED
    BY <1>8, <1>9, <2>2 DEF Expanded, q
<1>11. /\ jobList \in Seq(Jobs) /\ Len(jobList) = 0 /\ \A k : k \notin 1..0
  BY <1>1
<1>12. \A x : x \notin Range(jobList)
  BY <1>11, RangeOf, ZenonT(30)
<1>13. Prio(jobList) = {} /\ List(jobList)
  BY <1>11, <1>12 DEF Prio, List
<1>14. Cardinality(Prio(jobList)) = 0
  BY <1>13, FS_EmptySet
<1>15. JobsInv
  BY <1>1, <1>10, <1>11, <1>12, <1>13 DEF JobsInv, FirstOf
<1>16. DrainerInv /\ FreedAlone
  <2>1. drainer.call = "none"
    BY <1>1
  <2>2. drainer # [call |-> "free", at |-> "returned"]
    BY <2>1
  <2> QED
    BY <1>1, <2>2 DEF DrainerInv, FreedAlone
<1> QED
  BY <1>10, <1>11, <1>14, <1>15, <1>16 DEF IInv

\* Every step of a worker or of a caller preserves the invariant.
LEMMA StepInv == IInv /\ [Next]_vars => IInv'
<1> SUFFICES ASSUME IInv, [Next]_vars PROVE IInv'
  OBVIOUS
<1>1. ASSUME NEW x \in AllWorkers, WorkerStep(x) PROVE IInv'
  BY <1>1, WorkerStepKeeps
<1>2. ASSUME NEW x \in AllWorkers, SpuriousWakeup(x) PROVE IInv'
  BY <1>2, SpuriousKeeps
<1>3. ASSUME NEW j \in Jobs, SendJob(j) PROVE IInv'
  BY <1>3, SendKeeps
<1>4. ASSUME NEW p \in Params, SetParameters(p[1], p[2], p[3]) PROVE IInv'
  <2>1. p[1] \in Int /\ p[2] \in Int /\ p[3] \in Int
    <3>1. p \in Seq(Int) /\ Len(p) = 3
      BY ThreadPoolAssumption
    <3>2. 1 \in 1..Len(p) /\ 2 \in 1..Len(p) /\ 3 \in 1..Len(p)
      BY <3>1
    <3> QED
      BY <3>1, <3>2, ElementIn, Zenon
  <2> QED
    BY <1>4, <2>1, SetKeeps
<1>5. CASE Stop
  BY <1>5, StopStep
<1>6. CASE DrainWakeup \/ \E call \in {"drain", "free"} : Drain(call)
  BY <1>6, DrainStep
<1>7. CASE UNCHANGED vars
  <2>1. UNCHANGED <<jobList, firstPrio, pool, worker, sent, drainer>>
    BY <1>7 DEF vars
  <2> QED
    BY <2>1 DEF IInv, JobsInv, DrainerInv, FreedAlone
<1> QED
  BY <1>1, <1>2, <1>3, <1>4, <1>5, <1>6, <1>7 DEF Next

\* The invariant always holds.
THEOREM Invariant == Spec => []IInv
BY InitInv, StepInv, PTL DEF Spec

\* The sets and counts of ThreadPool in the terms of the lemmas.
LEMMA InIsMembers ==
  ASSUME IInv, NEW class \in {Workers, PrioWorkers}
  PROVE  /\ \A S : In(class, S) = Members(worker, class, S)
         /\ class \ In(class, {"none"}) = Members(worker, class, Live)
<1>1. \A S : In(class, S) = Members(worker, class, S)
  BY SMTT(30) DEF In, Members
<1>2. \A x \in class : worker[x] \in States
  BY ClassFinite DEF IInv, PoolInv, Maps
<1> QED
  BY <1>1, <1>2 DEF Members, States, Live, In

\* The list of PrioQueued and FirstPrioExact.
LEMMA PrioIsPrio == PrioQueued = Prio(jobList)
BY DEF PrioQueued, Prio

\* CountersExact: freeWorkers, nWorkers, nPrioWorkers and jobQueueDepth are exact through
\* expansion, failed expansion, shrinking and quitting, for pools of any size.
THEOREM CountersAreExact == Spec => []CountersExact
<1>1. IInv => CountersExact
  <2> SUFFICES ASSUME IInv PROVE CountersExact
    OBVIOUS
  <2>1. /\ Cardinality(In(Workers, {"asleep", "woken"})) = Count(worker, Workers, {"asleep", "woken"})
        /\ Cardinality(Workers \ In(Workers, {"none"})) = Count(worker, Workers, Live)
        /\ Cardinality(PrioWorkers \ In(PrioWorkers, {"none"})) = Count(worker, PrioWorkers, Live)
    BY InIsMembers, Zenon DEF Count
  <2>2. /\ pool.freeWorkers = Count(worker, Workers, {"asleep", "woken"})
        /\ pool.nWorkers = Count(worker, Workers, Live)
        /\ pool.nPrioWorkers = Count(worker, PrioWorkers, Live)
        /\ ~pool.quit => pool.jobQueueDepth = Len(jobList)
    BY SMTT(30) DEF IInv, PoolInv, Class, ClassInv, JobsInv
  <2> QED
    BY <2>1, <2>2 DEF CountersExact
<1> QED
  BY <1>1, Invariant, PTL

\* FirstPrioExact: firstPrio is the oldest priority job of the list, whichever worker
\* unlinked which job.
THEOREM FirstPrioIsExact == Spec => []FirstPrioExact
<1>1. IInv => FirstPrioExact
  BY PrioIsPrio, RangeOf DEF IInv, JobsInv, List, FirstPrioExact, FirstOf
<1> QED
  BY <1>1, Invariant, PTL

\* NoJobLeftToSleepers: the signals of virThreadPoolSendJob and the broadcasts of
\* virThreadPoolSetParameters lose no wakeup.
THEOREM NoLostWakeup == Spec => []NoJobLeftToSleepers
<1>1. IInv => NoJobLeftToSleepers
  <2> SUFFICES ASSUME IInv, ~pool.quit PROVE NoJobLeftToSleepers
    BY DEF NoJobLeftToSleepers
  <2>1. ASSUME NEW class \in {Workers, PrioWorkers}, NEW n, NEW max, NEW jobs,
               Class(worker, class, n, max, jobs, pool.quit), In(class, {"asleep"}) # {}
        PROVE  jobs + Positive(n - max) <= Cardinality(In(class, {"starting", "woken"}))
    <3>1. /\ Members(worker, class, {"asleep"}) # {}
          /\ Cardinality(In(class, {"starting", "woken"})) = Count(worker, class, {"starting", "woken"})
      BY <2>1, InIsMembers, ZenonT(30) DEF Count
    <3>2. Count(worker, class, {"asleep"}) # 0
      BY <3>1, CountType, FS_EmptySet, SMTT(30) DEF Count
    <3> QED
      BY <2>1, <3>1, <3>2 DEF Class, ClassInv
  <2>2. /\ Class(worker, Workers, pool.nWorkers, pool.maxWorkers, Len(jobList), pool.quit)
        /\ Class(worker, PrioWorkers, pool.nPrioWorkers, pool.maxPrioWorkers,
                 Cardinality(PrioQueued), pool.quit)
    BY PrioIsPrio DEF IInv, PoolInv
  <2> QED
    BY <2>1, <2>2 DEF NoJobLeftToSleepers
<1> QED
  BY <1>1, Invariant, PTL

\* ShrinkReached: the workers beyond a lowered limit are awake, so that the limit takes
\* effect.
THEOREM ShrinkIsReached == Spec => []ShrinkReached
<1>1. IInv => ShrinkReached
  <2> SUFFICES ASSUME IInv PROVE ShrinkReached
    OBVIOUS
  <2>1. ASSUME NEW class \in {Workers, PrioWorkers}, NEW n, NEW max, NEW jobs,
               Class(worker, class, n, max, jobs, pool.quit)
        PROVE  n - max <= Cardinality(In(class, {"starting", "woken", "busy"}))
    <3>1. Cardinality(In(class, {"starting", "woken", "busy"})) =
            Count(worker, class, {"starting", "woken", "busy"})
      BY InIsMembers, Zenon DEF Count
    <3> QED
      BY <2>1, <3>1, CountLive, ClassTypes DEF Class, ClassInv
  <2> QED
    BY <2>1 DEF ShrinkReached, IInv, PoolInv
<1> QED
  BY <1>1, Invariant, PTL

\* FreedAlone: when virThreadPoolFree has drained the pool, no thread is left that could
\* use its mutex.
THEOREM FreeIsSafe == Spec => []FreedAlone
<1>1. IInv => FreedAlone
  BY DEF IInv
<1> QED
  BY <1>1, Invariant, PTL
=============================================================================
