----------------------------- MODULE ThreadPool -----------------------------
(***************************************************************************)
(* virThreadPool (virthreadpool.c): normal and priority workers that take  *)
(* jobs from one list.  pool->mutex is held except while a worker waits on *)
(* a condition variable or runs a job, so an action is what a thread does  *)
(* between two of these points.                                            *)
(***************************************************************************)
EXTENDS Integers, Sequences, FiniteSets, Functions

CONSTANTS
  Workers,      \* slots for normal workers
  PrioWorkers,  \* slots for priority workers
  Jobs,         \* job data
  PrioJobs,     \* the jobs sent with a priority
  NoJob,
  MinWorkers0, MaxWorkers0, PrioWorkers0,  \* arguments of virThreadPoolNewFull
  Params,       \* arguments of virThreadPoolSetParameters: triples <<min, max, prio>>
  MaxSets       \* bound on calls of virThreadPoolSetParameters

ASSUME ThreadPoolAssumption ==
  /\ Workers \cap PrioWorkers = {} /\ IsFiniteSet(Workers) /\ IsFiniteSet(PrioWorkers)
  /\ PrioJobs \subseteq Jobs /\ NoJob \notin Jobs
  /\ MinWorkers0 \in Nat /\ MaxWorkers0 \in Nat \ {0} /\ PrioWorkers0 \in Nat
  /\ Cardinality(Workers) >= MaxWorkers0 /\ Cardinality(PrioWorkers) >= PrioWorkers0
  /\ \A p \in Params : p \in Seq(Int) /\ Len(p) = 3
  /\ MaxSets \in Nat

VARIABLES
  jobList,    \* pool->jobList from head to tail
  firstPrio,  \* pool->jobList.firstPrio
  pool,       \* the counters, limits and the quit flag of the virThreadPool
  worker,     \* what each worker thread is doing
  running,    \* the job each worker runs
  done,       \* jobs that were run to the end
  sent,       \* jobs accepted by virThreadPoolSendJob
  drainer,    \* the thread that calls virThreadPoolDrain and virThreadPoolFree
  sets        \* calls of virThreadPoolSetParameters so far

vars == <<jobList, firstPrio, pool, worker, running, done, sent, drainer, sets>>

\* The modulus of size_t, scaled down.
SizeT == 2^16

AllWorkers == Workers \cup PrioWorkers

\* virCondBroadcast and virCondSignal on the condition variable of a class of
\* workers: all of them are woken, or one of them if any sleeps.
Broadcast(w, class) ==
  [x \in AllWorkers |-> IF x \in class /\ w[x] = "asleep" THEN "woken" ELSE w[x]]

\* Mutation: nobody is signalled.
Signal_None(w, class) == {w}

Signal(w, class) ==
  LET asleep == {x \in class : w[x] = "asleep"}
  IN IF asleep = {} THEN {w} ELSE {[w EXCEPT ![x] = "woken"] : x \in asleep}

(***************************************************************************)
(* Workers.                                                                *)
(***************************************************************************)

WorkerQuitHelper(count, limit) == count > limit

\* Mutation: the rest of the list is not searched.
NextPrio_None(i) == NoJob

\* The first job with a priority behind position i.
NextPrio(i) ==
  LET later == {k \in i+1..Len(jobList) : jobList[k] \in PrioJobs}
  IN IF later = {} THEN NoJob ELSE jobList[CHOOSE k \in later : \A l \in later : k <= l]

\* The list without its i-th job.
RemoveAt(list, i) == SubSeq(list, 1, i - 1) \o SubSeq(list, i + 1, Len(list))

\* Unlink a job and run it.
TakeJob(w, j, p) ==
  LET i == CHOOSE k \in DOMAIN jobList : jobList[k] = j IN
  /\ jobList' = RemoveAt(jobList, i)
  /\ firstPrio' = IF j = firstPrio THEN NextPrio(i) ELSE firstPrio
  /\ pool' = [p EXCEPT !.jobQueueDepth = @ - 1]
  /\ worker' = [worker EXCEPT ![w] = "busy"]
  /\ running' = [running EXCEPT ![w] = j]
  /\ UNCHANGED drainer

\* The thread ends; the last one signals quit_cond.
WorkerOut(w, p) ==
  LET q == IF w \in PrioWorkers THEN [p EXCEPT !.nPrioWorkers = @ - 1]
           ELSE [p EXCEPT !.nWorkers = @ - 1]
  IN /\ pool' = q
     /\ worker' = [worker EXCEPT ![w] = "none"]
     /\ running' = [running EXCEPT ![w] = NoJob]
     /\ drainer' = IF q.nWorkers = 0 /\ q.nPrioWorkers = 0 /\ drainer.at = "waiting"
                   THEN [drainer EXCEPT !.at = "woken"] ELSE drainer
     /\ UNCHANGED <<jobList, firstPrio>>

\* The body of virThreadPoolWorker once it has the mutex, with the pool p: end,
\* take a job or wait.
WorkerLoop(w, p) ==
  LET priority == w \in PrioWorkers
      count == IF priority THEN p.nPrioWorkers ELSE p.nWorkers
      limit == IF priority THEN p.maxPrioWorkers ELSE p.maxWorkers
      job == IF priority THEN firstPrio
             ELSE IF jobList = <<>> THEN NoJob ELSE Head(jobList)
  IN IF WorkerQuitHelper(count, limit) THEN WorkerOut(w, p)
     ELSE IF ~p.quit /\ job = NoJob
     THEN /\ pool' = IF priority THEN p ELSE [p EXCEPT !.freeWorkers = @ + 1]
          /\ worker' = [worker EXCEPT ![w] = "asleep"]
          /\ running' = [running EXCEPT ![w] = NoJob]
          /\ UNCHANGED <<jobList, firstPrio, drainer>>
     ELSE IF p.quit THEN WorkerOut(w, p)
     ELSE TakeJob(w, job, p)

\* A new thread, or one back from virCondWait, gets the mutex.
WorkerStart(w) ==
  /\ worker[w] = "starting"
  /\ WorkerLoop(w, pool)
  /\ UNCHANGED <<done, sent, sets>>

\* Mutation: priority workers are taken off freeWorkers too.
WorkerWakeup_Prio(w) ==
  /\ worker[w] = "woken"
  /\ WorkerLoop(w, [pool EXCEPT !.freeWorkers = @ - 1])
  /\ UNCHANGED <<done, sent, sets>>

WorkerWakeup(w) ==
  /\ worker[w] = "woken"
  /\ WorkerLoop(w, IF w \in PrioWorkers THEN pool
                   ELSE [pool EXCEPT !.freeWorkers = @ - 1])
  /\ UNCHANGED <<done, sent, sets>>

\* The job function returns.
WorkerDone(w) ==
  /\ worker[w] = "busy"
  /\ done' = done \cup {running[w]}
  /\ WorkerLoop(w, pool)
  /\ UNCHANGED <<sent, sets>>

\* virCondWait may return without a signal.
SpuriousWakeup(w) ==
  /\ worker[w] = "asleep"
  /\ worker' = [worker EXCEPT ![w] = "woken"]
  /\ UNCHANGED <<jobList, firstPrio, pool, running, done, sent, drainer, sets>>

(***************************************************************************)
(* The interface.                                                          *)
(***************************************************************************)

\* The pools and worker threads virThreadPoolExpand can leave: gain new threads,
\* or fewer when the creation of a thread fails.
Expand(p, w, gain, priority) ==
  LET class == IF priority THEN PrioWorkers ELSE Workers
      unused == {x \in class : w[x] = "none"}
      Added(k) == LET new == CHOOSE s \in SUBSET unused : Cardinality(s) = k IN
        [ok |-> k = gain,
         pool |-> IF priority THEN [p EXCEPT !.nPrioWorkers = @ + k]
                  ELSE [p EXCEPT !.nWorkers = @ + k],
         worker |-> [x \in AllWorkers |-> IF x \in new THEN "starting" ELSE w[x]]]
  IN {Added(k) : k \in {i \in 0..gain : i <= Cardinality(unused)}}

\* "pool->freeWorkers - pool->jobQueueDepth <= 0" in size_t.
NoFreeWorker(p) == (p.freeWorkers - p.jobQueueDepth) % SizeT <= 0

\* virThreadPoolFree is called when nobody else has a reference to the pool.
Shared == drainer.call # "free"

SendJob(j) ==
  LET expand == NoFreeWorker(pool) /\ pool.nWorkers < pool.maxWorkers
      outcomes == IF expand THEN Expand(pool, worker, 1, FALSE)
                  ELSE {[ok |-> TRUE, pool |-> pool, worker |-> worker]}
  IN /\ Shared /\ j \notin sent /\ ~pool.quit
     /\ \E e \in {o \in outcomes : o.ok} :
          /\ jobList' = Append(jobList, j)
          /\ firstPrio' = IF j \in PrioJobs /\ firstPrio = NoJob THEN j ELSE firstPrio
          /\ pool' = [e.pool EXCEPT !.jobQueueDepth = @ + 1]
          /\ \E w \in Signal(e.worker, Workers) :
               worker' \in IF j \in PrioJobs THEN Signal(w, PrioWorkers) ELSE {w}
     /\ sent' = sent \cup {j}
     /\ UNCHANGED <<running, done, drainer, sets>>

\* The calls to Expand and the assignments of virThreadPoolSetParameters in
\* their order; a failed Expand returns at once.
SetMinWorkers(s, min) ==
  IF min < 0 THEN {s}
  ELSE LET tries == IF min > s.pool.nWorkers
                    THEN Expand(s.pool, s.worker, min - s.pool.nWorkers, FALSE) ELSE {s}
       IN {IF e.ok THEN [e EXCEPT !.pool.minWorkers = min] ELSE e : e \in tries}

\* Mutation: the workers are not woken.
SetMaxWorkers_Silent(s, max) ==
  IF max < 0 \/ ~s.ok THEN s ELSE [s EXCEPT !.pool.maxWorkers = max]

SetMaxWorkers(s, max) ==
  IF max < 0 \/ ~s.ok THEN s
  ELSE [s EXCEPT !.pool.maxWorkers = max, !.worker = Broadcast(@, Workers)]

SetPrioWorkers(s, prio) ==
  IF prio < 0 \/ ~s.ok THEN {s}
  ELSE LET n == s.pool.nPrioWorkers
           tries == CASE prio < n -> {[s EXCEPT !.worker = Broadcast(@, PrioWorkers)]}
                      [] prio > n -> Expand(s.pool, s.worker, prio - n, TRUE)
                      [] OTHER -> {s}
       IN {IF e.ok THEN [e EXCEPT !.pool.maxPrioWorkers = prio] ELSE e : e \in tries}

SetParameters(minWorkers, maxWorkers, prioWorkers) ==
  LET max == IF maxWorkers >= 0 THEN maxWorkers ELSE pool.maxWorkers
      min == IF minWorkers >= 0 THEN minWorkers ELSE pool.minWorkers
      start == [ok |-> TRUE, pool |-> pool, worker |-> worker]
  IN /\ Shared /\ sets < MaxSets
     /\ min <= max
     /\ ~(maxWorkers = 0 /\ pool.maxWorkers > 0) /\ ~(maxWorkers > 0 /\ pool.maxWorkers = 0)
     /\ \E a \in SetMinWorkers(start, minWorkers) :
          \E b \in SetPrioWorkers(SetMaxWorkers(a, maxWorkers), prioWorkers) :
            pool' = b.pool /\ worker' = b.worker
     /\ sets' = sets + 1
     /\ UNCHANGED <<jobList, firstPrio, running, done, sent, drainer>>

\* Mutation: only normal workers are woken.
StopLocked_NoPrio ==
  IF pool.quit THEN UNCHANGED <<pool, worker>>
  ELSE /\ pool' = [pool EXCEPT !.quit = TRUE]
       /\ worker' = Broadcast(worker, Workers)

\* virThreadPoolStopLocked
StopLocked ==
  IF pool.quit THEN UNCHANGED <<pool, worker>>
  ELSE /\ pool' = [pool EXCEPT !.quit = TRUE]
       /\ worker' = Broadcast(Broadcast(worker, Workers), PrioWorkers)

Stop ==
  /\ Shared
  /\ StopLocked
  /\ UNCHANGED <<jobList, firstPrio, running, done, sent, drainer, sets>>

\* Mutation: priority workers are not waited for.
DrainLoop_NoPrio(call) ==
  IF pool'.nWorkers > 0
  THEN drainer' = [call |-> call, at |-> "waiting"] /\ UNCHANGED jobList
  ELSE drainer' = [call |-> call, at |-> "returned"] /\ jobList' = <<>>

\* The loop of virThreadPoolDrainLocked: wait for the workers, then free the jobs.
DrainLoop(call) ==
  IF pool'.nWorkers > 0 \/ pool'.nPrioWorkers > 0
  THEN drainer' = [call |-> call, at |-> "waiting"] /\ UNCHANGED jobList
  ELSE drainer' = [call |-> call, at |-> "returned"] /\ jobList' = <<>>

\* virThreadPoolDrain, or virThreadPoolFree, which drains the pool again.
Drain(call) ==
  /\ drainer.at = "returned" /\ Shared
  /\ StopLocked
  /\ DrainLoop(call)
  /\ UNCHANGED <<firstPrio, running, done, sent, sets>>

DrainWakeup ==
  /\ drainer.at = "woken"
  /\ UNCHANGED <<pool, worker>>
  /\ DrainLoop(drainer.call)
  /\ UNCHANGED <<firstPrio, running, done, sent, sets>>

\* virThreadPoolNewFull with all threads created.
Init ==
  LET min == IF MinWorkers0 > MaxWorkers0 THEN MaxWorkers0 ELSE MinWorkers0
      p0 == [quit |-> FALSE, jobQueueDepth |-> 0, freeWorkers |-> 0,
             nWorkers |-> 0, minWorkers |-> min, maxWorkers |-> MaxWorkers0,
             nPrioWorkers |-> 0, maxPrioWorkers |-> PrioWorkers0]
  IN /\ jobList = <<>> /\ firstPrio = NoJob
     /\ \E a \in {e \in Expand(p0, [w \in AllWorkers |-> "none"], min, FALSE) : e.ok} :
          \E b \in {e \in Expand(a.pool, a.worker, PrioWorkers0, TRUE) : e.ok} :
            pool = b.pool /\ worker = b.worker
     /\ running = [w \in AllWorkers |-> NoJob]
     /\ done = {} /\ sent = {} /\ sets = 0
     /\ drainer = [call |-> "none", at |-> "returned"]

WorkerStep(w) == WorkerStart(w) \/ WorkerWakeup(w) \/ WorkerDone(w)

Next ==
  \/ \E w \in AllWorkers : WorkerStep(w) \/ SpuriousWakeup(w)
  \/ \E j \in Jobs : SendJob(j)
  \/ \E p \in Params : SetParameters(p[1], p[2], p[3])
  \/ Stop
  \/ \E call \in {"drain", "free"} : Drain(call)
  \/ DrainWakeup

Spec == Init /\ [][Next]_vars

(***************************************************************************)
(* Properties.                                                             *)
(***************************************************************************)

In(class, states) == {w \in class : worker[w] \in states}

Positive(n) == IF n > 0 THEN n ELSE 0

\* The counters agree with the threads and the list through expansion, partial
\* failure of it, shrinking and quitting: freeWorkers counts the normal workers
\* inside virCondWait, whether or not they were signalled.
CountersExact ==
  /\ pool.freeWorkers = Cardinality(In(Workers, {"asleep", "woken"}))
  /\ pool.nWorkers = Cardinality(Workers \ In(Workers, {"none"}))
  /\ pool.nPrioWorkers = Cardinality(PrioWorkers \ In(PrioWorkers, {"none"}))
  /\ ~pool.quit => pool.jobQueueDepth = Len(jobList)

\* The jobs in the list that have a priority.
PrioQueued == Range(jobList) \cap PrioJobs

\* firstPrio is the oldest priority job of the list whichever kind of worker
\* unlinked which job.
FirstPrioExact ==
  ~pool.quit =>
    IF PrioQueued = {} THEN firstPrio = NoJob
    ELSE \E k \in DOMAIN jobList :
           /\ jobList[k] = firstPrio /\ firstPrio \in PrioJobs
           /\ \A l \in 1..k-1 : jobList[l] \notin PrioJobs

\* No wakeup is lost: while a worker sleeps, there are at least as many awake ones
\* as there are jobs it could have taken, even if all those beyond the limit end
\* before they look at the list.
NoJobLeftToSleepers ==
  ~pool.quit =>
    /\ In(Workers, {"asleep"}) # {} =>
         Len(jobList) + Positive(pool.nWorkers - pool.maxWorkers)
           <= Cardinality(In(Workers, {"starting", "woken"}))
    /\ In(PrioWorkers, {"asleep"}) # {} =>
         Cardinality(PrioQueued) + Positive(pool.nPrioWorkers - pool.maxPrioWorkers)
           <= Cardinality(In(PrioWorkers, {"starting", "woken"}))

\* Shrinking the pool takes effect: each worker beyond a limit will find out
\* before it sleeps again.
ShrinkReached ==
  /\ pool.nWorkers - pool.maxWorkers
       <= Cardinality(In(Workers, {"starting", "woken", "busy"}))
  /\ pool.nPrioWorkers - pool.maxPrioWorkers
       <= Cardinality(In(PrioWorkers, {"starting", "woken", "busy"}))

\* virThreadPoolFree destroys the mutex when its drain returns: no worker is left
\* that would use it, not even one that virThreadPoolSetParameters, which does
\* not look at pool->quit, created after an earlier drain.
FreedAlone ==
  drainer = [call |-> "free", at |-> "returned"] =>
    \A w \in AllWorkers : worker[w] = "none"

\* libvirtd.conf on min_workers: "If the number of active clients exceeds this,
\* then more threads are spawned, up to max_workers limit."  A job does not wait
\* behind busy workers while more may be spawned.
SpawnsUpToMax ==
  jobList # <<>> /\ ~pool.quit /\ In(Workers, {"starting", "asleep", "woken"}) = {}
    => pool.nWorkers >= pool.maxWorkers

\* Priority workers get the mutex and their job functions return.
PrioFairness == \A w \in PrioWorkers : WF_vars(WorkerStep(w))

\* So do normal workers and the thread that drains the pool.
Fairness == WF_vars(DrainWakeup) /\ \A w \in Workers : WF_vars(WorkerStep(w))

FairSpec == Spec /\ PrioFairness

\* Every accepted job is run unless the pool is stopped first.
JobsRun == Fairness => \A j \in Jobs : j \in sent ~> j \in done \/ pool.quit

\* virThreadPoolDrain and virThreadPoolFree return: the last worker to end wakes it,
\* whatever jobs and changes of the limits went before.
DrainReturns == Fairness => (drainer.at = "waiting" ~> drainer.at = "returned")

\* "If all workers from above pool are stuck, some calls marked as high priority
\* can be executed": a priority job is started although no normal worker moves, unless
\* the priority workers are taken away.
PrioJobsStarted ==
  \A j \in PrioJobs :
    j \in sent ~> \/ j \in done \/ \E w \in AllWorkers : running[w] = j
                  \/ pool.quit \/ pool.maxPrioWorkers = 0
=============================================================================
