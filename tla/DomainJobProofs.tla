-------------------------- MODULE DomainJobProofs ---------------------------
(***************************************************************************)
(* Proofs about DomainJob for every set of threads, every limit and every  *)
(* bound, from the lemmas of DomainJobStepProofs about single steps: the   *)
(* inductive invariant and what follows from it, and what the status XML   *)
(* records.                                                                *)
(***************************************************************************)
EXTENDS DomainJobStepProofs

(***************************************************************************)
(* The recovery, and the invariant.                                        *)
(***************************************************************************)

\* The reconnecting thread always gets its MODIFY job at once.
LEMMA ReconnectKeeps ==
  ASSUME CountsThreads, TypeOK, TypeOK', JobsInv, NEW t \in Threads, Reconnect(t)
  PROVE  JobsInv' /\ AsyncInv'
<1> USE DomainJobAssumption DEF DomainJobAssumption
<1> DEFINE p == ParseJob(job)
           o == Queued(ResetAsyncJob(ResetJob(p)))
           r == [NoRequest EXCEPT !.job = "modify"]
           g == Granted(o, t, r)
<1>1. recovery = "down" /\ job = NewJobObj /\ ~removing
      /\ \A u \in Threads : pc[u] = "idle" /\ held[u] = "none"
  BY DEF JobsInv, RecoveryInv, Reconnect
<1>2. p \in JobObjs /\ p.agentActive = "none" /\ p.agentOwner = NoThread /\ p.jobsQueued = 0
      /\ p.asyncOwner = NoThread
  BY ZenonT(60), <1>1 DEF ParseJob, NewJobObj, JobObjs, TypeOK, Status, NormalJobs
<1> HIDE DEF p
<1>3. /\ o \in JobObjs /\ o.active = "none" /\ o.asyncJob = "none" /\ o.asyncOwner = NoThread
      /\ o.agentActive = "none" /\ o.jobsQueued = 1
  <2>1. o \in JobObjs
    BY <1>2, JobObjTypes
  <2> QED BY <1>2, <2>1 DEF Queued, ResetAsyncJob, ResetJob, JobObjs
<1>4. /\ r \in Requests /\ r.job = "modify" /\ r.agentJob = "none" /\ r.asyncJob = "none"
  BY Zenon DEF NoRequest, Requests, NormalJobs
<1> HIDE DEF o, r
<1>5. CanSetJob(o, r.job, r.agentJob) /\ ~Blocked(o, r) /\ ~OverLimit(o, r)
  BY <1>3, <1>4 DEF CanSetJob, Blocked, NestedJobAllowed, OverLimit
<1>6. Outcome(o, r, "retry") = "start"
  BY <1>1, <1>5 DEF Outcome
<1>7. /\ job' = g /\ pc' = [pc EXCEPT ![t] = "hold"] /\ req' = [req EXCEPT ![t] = r]
      /\ held' = held
  <2>1. BeginJobInternal(t, r, "retry", o)
    BY DEF Reconnect, o, r, p
  <2> QED BY <2>1, <1>4, <1>6 DEF BeginJobInternal
<1>8. /\ job'.active = "modify" /\ job'.owner = t /\ job'.agentActive = "none"
      /\ job'.asyncJob = "none" /\ job'.asyncOwner = NoThread /\ job'.jobsQueued = 1
  <2>1. CanSetJob(o, r.job, r.agentJob) /\ o \in JobObjs /\ r \in Requests
    BY <1>3, <1>4, <1>5
  <2>2. /\ g.jobsQueued = o.jobsQueued
        /\ r.agentJob = "none" => g.agentActive = o.agentActive
        /\ r.job \notin {"none", "async"} => g.active = r.job /\ g.owner = t
        /\ r.job # "async" => g.asyncJob = o.asyncJob /\ g.asyncOwner = o.asyncOwner
    BY <2>1, GrantedFields
  <2> HIDE DEF g
  <2> QED BY <1>3, <1>4, <1>7, <2>2
<1> HIDE DEF g
<1>9. pc'[t] = "hold" /\ req'[t] = r
      /\ \A u \in Threads \ {t} : pc'[u] = "idle" /\ req'[u] = req[u]
  BY Zenon, <1>1, <1>7 DEF TypeOK
<1>10. RequestInv'
  BY <1>1, <1>4, <1>9 DEF JobsInv, RequestInv, WellFormed
<1>11. RecoveryInv'
  <2>1. recovery' = "reconnect" /\ recoverer' = t
    BY Zenon DEF Reconnect
  <2>2. pc'[t] = "hold" /\ req'[t].job = "modify"
    BY Zenon, <1>4, <1>9
  <2>3. \A u \in Threads : held'[u] = "none"
    BY Zenon, <1>1, <1>7
  <2>4. job'.asyncJob = "none"
    BY Zenon, <1>8
  <2> QED BY Zenon, <2>1, <2>2, <2>3, <2>4 DEF RecoveryInv, HoldsJob
<1>12. JobExclusive'
  BY <1>4, <1>8, <1>9 DEF JobExclusive, HoldsJob, HoldsAgentJob
<1>13. OwnerInv' /\ OwnerRuns'
  BY <1>1, <1>7, <1>8 DEF OwnerInv, OwnerRuns
<1>14. NoLostWakeup'
  BY <1>9 DEF NoLostWakeup
<1>15. QueueAccounting'
  <2>1. Busy' = {t}
    BY <1>9 DEF Busy
  <2>2. Cardinality({t}) = 1
    BY Zenon DEF CountsThreads
  <2>3. Stale' = {}
    BY <1>1, <1>7 DEF Stale
  <2>4. Cardinality({}) = 0
    BY Zenon DEF CountsThreads
  <2>5. recovery' = "reconnect" /\ conflicts' \in Nat
    BY DEF Reconnect, TypeOK
  <2>6. Queue' = 1
    BY <1>8, <2>1, <2>2, <2>5 DEF Queue
  <2> QED BY <1>8, <2>3, <2>4, <2>5, <2>6 DEF QueueAccounting
<1> QED BY <1>10, <1>11, <1>12, <1>13, <1>14, <1>15 DEF JobsInv, AsyncInv

\* Recovering the job of the previous daemon overwrites nothing.
LEMMA RecoverJobKeeps ==
  ASSUME CountsThreads, TypeOK, TypeOK', JobsInv, AsyncInv, NEW t \in Threads, RecoverJob(t)
  PROVE  JobsInv' /\ AsyncInv'
<1> USE DomainJobAssumption DEF DomainJobAssumption
<1>1. job.asyncJob = "none" /\ recovery = "reconnect"
  BY DEF JobsInv, RecoveryInv, RecoverJob
<1>2. \/ SameJobs(job', job) /\ job'.jobsQueued = job.jobsQueued
      \/ /\ SameJobs([job' EXCEPT !.asyncJob = "none"], job)
         /\ job'.asyncJob # "none" /\ job'.jobsQueued = job.jobsQueued + 1
  <2>1. ASSUME NEW a \in AllAsyncJobs, NEW p, NEW f, NEW m,
               job' = RestoreAsyncJob(job, a, p, f, m)
        PROVE  /\ SameJobs([job' EXCEPT !.asyncJob = "none"], job)
               /\ job'.asyncJob # "none" /\ job'.jobsQueued = job.jobsQueued + 1
    <3>1. a # "none"
      BY DEF AllAsyncJobs, MigrationJobs
    <3> QED BY <1>1, <2>1, <3>1 DEF RestoreAsyncJob, SetMask, Queued, TypeOK, JobObjs, SameJobs
  <2>2. "backup" \in AllAsyncJobs /\ MigrationJobs \subseteq AllAsyncJobs
    BY DEF AllAsyncJobs
  <2>3. CASE UNCHANGED job
    BY <2>3 DEF SameJobs
  <2>4. CASE job' = RestoreAsyncJob(job, "backup", 0, 0, RestoredMask("backup"))
    BY <2>1, <2>2, <2>4
  <2>5. CASE /\ oldjob.asyncJob \in MigrationJobs
             /\ job' = RestoreAsyncJob(job, oldjob.asyncJob, PostcopyFailed,
                                       oldjob.apiFlags, RestoredMask(oldjob.asyncJob))
    BY <2>1, <2>2, <2>5
  <2> QED BY Zenon, <2>3, <2>4, <2>5 DEF RecoverJob
<1>3. /\ UNCHANGED <<pc, req, held, recoverer, removing, conflicts>>
      /\ recovery' \in {"recovered", "completing"}
  BY Zenon DEF RecoverJob
<1>4. /\ job'.active = job.active /\ job'.owner = job.owner
      /\ job'.agentActive = job.agentActive /\ job'.agentOwner = job.agentOwner
      /\ job'.asyncOwner = job.asyncOwner
  BY <1>2 DEF SameJobs, TypeOK, JobObjs
<1>5. RequestInv' /\ RecoveryInv'
  BY <1>1, <1>3 DEF JobsInv, RequestInv, RecoveryInv, HoldsJob
<1>6. JobExclusive'
  BY <1>3, <1>4 DEF JobsInv, JobExclusive, HoldsJob, HoldsAgentJob
<1>7. job.asyncOwner = NoThread /\ OwnerInv' /\ OwnerRuns'
  BY <1>1, <1>4 DEF AsyncInv, OwnerInv, OwnerRuns
<1>8. NoLostWakeup'
  <2>1. \A u \in Threads : pc[u] # "waitAsync"
    BY Zenon, <1>1 DEF JobsInv, NoLostWakeup
  <2> QED BY Zenon, <1>3, <1>4, <2>1 DEF JobsInv, NoLostWakeup, CanSetJob
<1>9. QueueAccounting'
  <2>1. Busy' = Busy
    BY <1>3 DEF Busy
  <2>2. Cardinality(Busy) \in Nat
    BY DEF CountsThreads, Busy
  <2>3. \/ job'.asyncJob = "none" /\ job'.jobsQueued = job.jobsQueued
        \/ job'.asyncJob # "none" /\ job'.jobsQueued = job.jobsQueued + 1
    BY <1>1, <1>2 DEF SameJobs
  <2>4. Stale' = Stale
    BY Zenon, <1>3, <1>4 DEF Stale
  <2>5. job.jobsQueued \in Int /\ Cardinality(Stale) \in Nat /\ conflicts \in Int
    BY DEF TypeOK, JobObjs, CountsThreads, Stale
  <2>6. job'.jobsQueued - job.jobsQueued = Queue' - Queue - 0
    BY <1>1, <1>3, <2>1, <2>2, <2>3, <2>5 DEF Queue
  <2>7. Cardinality(Stale') - conflicts' <= Cardinality(Stale) - conflicts - 0
    BY <1>3, <2>4, <2>5
  <2> QED BY <2>6, <2>7, AccountKept DEF AsyncInv
<1> QED BY <1>5, <1>6, <1>7, <1>8, <1>9 DEF JobsInv, AsyncInv

\* Completing a restored migration ends its job, whoever has taken it since.
LEMMA CompleteKeeps ==
  ASSUME CountsThreads, TypeOK, TypeOK', JobsInv, AsyncInv, NEW t \in Threads,
         CompleteRestoredJob(t)
  PROVE  JobsInv' /\ AsyncInv'
<1>1. /\ job' = Dequeued(ResetAsyncJob(job))
      /\ pc' = Broadcast(pc, "waitAsync", "wokenAsync")
      /\ UNCHANGED <<req, recoverer, held>>
      /\ recovery = "completing" /\ recovery' = "recovered"
  BY DEF CompleteRestoredJob
<1>2. JobsInv'
  BY Zenon, <1>1, EndAsyncKeeps
<1>3. Busy' = Busy
  BY <1>1 DEF Busy, Broadcast
<1>4. conflicts' = IF job.asyncJob = "none" \/ job.asyncOwner # NoThread
                   THEN conflicts + 1 ELSE conflicts
  BY DEF CompleteRestoredJob, Conflict
<1>5. job'.asyncOwner = NoThread /\ NoThread \in Owners
  BY <1>1, EndFields DEF TypeOK, Owners
<1>6. /\ Cardinality(Stale') <= Cardinality(Stale) + 1
      /\ job.asyncOwner = NoThread => Cardinality(Stale') <= Cardinality(Stale)
  BY Zenon, <1>1, <1>5, StaleTaken
<1>7. Cardinality(Stale) \in Nat /\ Cardinality(Stale') \in Nat /\ conflicts \in Int
  BY DEF CountsThreads, Stale, TypeOK
<1>8. job.asyncJob = "none" => job.asyncOwner = NoThread
  BY DEF AsyncInv, OwnerInv
<1>9. /\ Cardinality(Stale') - conflicts' <= Cardinality(Stale) - conflicts
      /\ job.asyncJob = "none" =>
           Cardinality(Stale') - conflicts' <= Cardinality(Stale) - conflicts - 1
  BY <1>4, <1>6, <1>7, <1>8
<1>10. AsyncInv'
  BY Zenon, <1>1, <1>3, <1>9, EndAsyncAccount
<1> QED BY <1>2, <1>10

\* A reconnect that fails ends its MODIFY job and a restored backup, and discards a
\* restored migration, which stays counted.
LEMMA FailureKeeps ==
  ASSUME CountsThreads, TypeOK, TypeOK', JobsInv, AsyncInv, NEW t \in Threads,
         NEW discard \in BOOLEAN, Failure(t, discard)
  PROVE  JobsInv' /\ AsyncInv'
<1> USE DomainJobAssumption DEF DomainJobAssumption
<1> DEFINE s == Stopped(discard)
           gone == discard \/ job.asyncJob = "backup"
<1>1. /\ recovery \in {"reconnect", "completing", "recovered"}
      /\ HoldsJob(t) /\ req[t].job = "modify"
      /\ held' = held /\ recoverer' = NoThread
      /\ recovery' = IF discard THEN "dropped" ELSE "failed"
      /\ discard => job.asyncJob \in MigrationJobs
      /\ conflicts' = IF gone /\ job.asyncOwner # NoThread THEN conflicts + 1 ELSE conflicts
  BY Zenon DEF Failure, JobsInv, RecoveryInv, Conflict
<1>a. \A x \in MigrationJobs : x # "backup" /\ x # "none"
  BY DEF MigrationJobs
<1>2. /\ s \in JobObjs
      /\ s.active = job.active /\ s.owner = job.owner
      /\ s.agentActive = job.agentActive /\ s.agentOwner = job.agentOwner
      /\ s.asyncJob = IF gone THEN "none" ELSE job.asyncJob
      /\ s.asyncOwner = IF gone THEN NoThread ELSE job.asyncOwner
      /\ s.jobsQueued = IF ~discard /\ job.asyncJob = "backup" THEN job.jobsQueued - 1
                        ELSE job.jobsQueued
  <2>0. job \in JobObjs
    BY DEF TypeOK
  <2>1. ResetAsyncJob(job) \in JobObjs /\ Dequeued(ResetAsyncJob(job)) \in JobObjs
    BY <2>0, JobObjTypes
  <2>2. CASE discard
    BY <2>0, <2>1, <2>2 DEF Stopped, ResetAsyncJob, JobObjs
  <2>3. CASE ~discard /\ job.asyncJob = "backup"
    <3>1. s = Dequeued(ResetAsyncJob(job))
      BY <2>3 DEF Stopped
    <3> HIDE DEF s
    <3> QED BY <2>0, <2>1, <2>3, <3>1, EndFields
  <2>4. CASE ~discard /\ job.asyncJob # "backup"
    BY <2>0, <2>4 DEF Stopped
  <2> QED BY <2>2, <2>3, <2>4
<1>3. job' = Dequeued(ResetJob(s))
  BY DEF Failure
<1> HIDE DEF s
<1>4. /\ job'.active = "none"
      /\ job'.agentActive = job.agentActive /\ job'.agentOwner = job.agentOwner
      /\ job'.asyncJob = IF gone THEN "none" ELSE job.asyncJob
      /\ job'.asyncOwner = IF gone THEN NoThread ELSE job.asyncOwner
      /\ job'.jobsQueued = IF ~discard /\ job.asyncJob = "backup" THEN job.jobsQueued - 2
                           ELSE job.jobsQueued - 1
  <2>1. /\ job'.active = "none"
        /\ job'.agentActive = s.agentActive /\ job'.agentOwner = s.agentOwner
        /\ job'.asyncJob = s.asyncJob /\ job'.asyncOwner = s.asyncOwner
        /\ job'.jobsQueued = s.jobsQueued - 1
    BY <1>2, <1>3, EndFields
  <2> QED BY <1>2, <2>1 DEF TypeOK, JobObjs
<1>5. /\ pc'[t] = "idle" /\ req'[t] = NoRequest
      /\ \A u \in Threads \ {t} :
           /\ req'[u] = req[u] /\ pc'[u] # "waitJob"
           /\ (pc'[u] = "idle") <=> (pc[u] = "idle")
           /\ (pc'[u] = "hold") <=> (pc[u] = "hold")
           /\ pc'[u] = "waitAsync" => pc[u] = "waitAsync" /\ job.asyncJob # "backup"
  <2> DEFINE p == Broadcast([pc EXCEPT ![t] = "idle"], "waitJob", "wokenJob")
             q == Broadcast(p, "waitAsync", "wokenAsync")
  <2>1. /\ p[t] = "idle"
        /\ \A u \in Threads \ {t} : p[u] = IF pc[u] = "waitJob" THEN "wokenJob" ELSE pc[u]
    BY DEF Broadcast, TypeOK
  <2>2. \A u \in Threads : q[u] = IF p[u] = "waitAsync" THEN "wokenAsync" ELSE p[u]
    BY Zenon DEF Broadcast
  <2>3. /\ req' = [req EXCEPT ![t] = NoRequest]
        /\ \/ pc' = p /\ job.asyncJob # "backup"
           \/ pc' = q
    BY Zenon DEF Failure
  <2>4. req'[t] = NoRequest /\ \A u \in Threads \ {t} : req'[u] = req[u]
    BY Zenon, <2>3 DEF TypeOK
  <2> HIDE DEF p, q
  <2>5. pc'[t] = "idle"
    BY <2>1, <2>2, <2>3
  <2>6. ASSUME NEW u \in Threads \ {t}
        PROVE  /\ pc'[u] # "waitJob"
               /\ (pc'[u] = "idle") <=> (pc[u] = "idle")
               /\ (pc'[u] = "hold") <=> (pc[u] = "hold")
               /\ pc'[u] = "waitAsync" => pc[u] = "waitAsync" /\ job.asyncJob # "backup"
    BY <2>1, <2>2, <2>3
  <2> QED BY Zenon, <2>4, <2>5, <2>6
<1>6. RequestInv'
  BY Zenon, <1>5 DEF JobsInv, RequestInv
<1>7. RecoveryInv'
  BY Zenon, <1>1 DEF RecoveryInv
<1>8. JobExclusive'
  <2>1. ~HoldsAgentJob(t)
    BY Zenon, <1>1 DEF JobsInv, RequestInv, HoldsJob, HoldsAgentJob, WellFormed
  <2>2. \A u \in Threads : HoldsJob(u) => u = t
    BY Zenon, <1>1 DEF JobsInv, JobExclusive
  <2>3. \A u \in Threads : HoldsAgentJob(u)' <=> HoldsAgentJob(u)
    BY Zenon, <1>5, <2>1 DEF HoldsAgentJob, NoRequest
  <2>4. \A u \in Threads : ~HoldsJob(u)'
    BY Zenon, <1>5, <2>2 DEF HoldsJob, NoRequest
  <2>5. \A u \in Threads : HoldsAgentJob(u) => req'[u] = req[u]
    BY Zenon, <1>5, <2>1
  <2>6. /\ job'.active = "none"
        /\ job'.agentActive = job.agentActive /\ job'.agentOwner = job.agentOwner
    BY <1>4
  <2> QED BY <2>3, <2>4, <2>5, <2>6 DEF JobsInv, JobExclusive
<1>9. NoLostWakeup'
  <2>1. \A u \in Threads : pc'[u] # "waitJob"
    BY Zenon, <1>5
  <2>2. ASSUME NEW u \in Threads, pc'[u] = "waitAsync"
        PROVE  job'.asyncJob # "none" \/ recovery' = "dropped"
    <3>1. pc[u] = "waitAsync" /\ job.asyncJob # "backup"
      BY Zenon, <1>5, <2>2
    <3>2. job.asyncJob # "none"
      BY Zenon, <1>1, <3>1 DEF JobsInv, NoLostWakeup
    <3> QED BY <1>1, <1>4, <3>1, <3>2
  <2> QED BY Zenon, <2>1, <2>2 DEF NoLostWakeup
<1>10. OwnerInv' /\ OwnerRuns'
  <2>1. CASE gone
    BY <1>4, <2>1 DEF OwnerInv, OwnerRuns
  <2>2. CASE ~gone
    <3>1. job'.asyncJob = job.asyncJob /\ job'.asyncOwner = job.asyncOwner /\ conflicts' = conflicts
      BY <1>1, <1>4, <2>2
    <3> QED BY Zenon, <1>1, <3>1 DEF AsyncInv, OwnerInv, OwnerRuns
  <2> QED BY <2>1, <2>2
<1>11. QueueAccounting'
  <2>0. /\ Cardinality(Stale) \in Nat /\ Cardinality(Stale') \in Nat /\ conflicts \in Int
        /\ job.jobsQueued \in Int
    BY DEF CountsThreads, Stale, TypeOK, JobObjs
  <2>1. Cardinality(Busy) \in Nat /\ Cardinality(Busy') = Cardinality(Busy) - 1
    <3>1. pc[t] # "idle"
      BY <1>1 DEF HoldsJob
    <3> QED BY Zenon, <1>5, <3>1, BusyCount DEF TypeOK
  <2>2. Cardinality(Stale') - conflicts' <= Cardinality(Stale) - conflicts - 0
    <3>1. CASE gone
      <4>1. job'.asyncOwner = NoThread /\ NoThread \in Owners
        BY <1>4, <3>1 DEF Owners
      <4>2. /\ Cardinality(Stale') <= Cardinality(Stale) + 1
            /\ job.asyncOwner = NoThread => Cardinality(Stale') <= Cardinality(Stale)
        BY Zenon, <1>1, <4>1, StaleTaken
      <4> QED BY <1>1, <2>0, <3>1, <4>2
    <3>2. CASE ~gone
      <4>1. Stale' = Stale /\ conflicts' = conflicts
        BY Zenon, <1>1, <1>4, <3>2 DEF Stale
      <4> QED BY <2>0, <4>1
    <3> QED BY <3>1, <3>2
  <2>3. job'.jobsQueued - job.jobsQueued = Queue' - Queue - 0
    <3>1. CASE discard
      BY <1>1, <1>4, <1>a, <2>0, <2>1, <3>1 DEF Queue
    <3>2. CASE ~discard
      BY <1>1, <1>4, <2>0, <2>1, <3>2 DEF Queue
    <3> QED BY <3>1, <3>2
  <2> QED BY <2>2, <2>3, AccountKept DEF AsyncInv
<1> QED BY <1>6, <1>7, <1>8, <1>9, <1>10, <1>11 DEF JobsInv, AsyncInv

\* Each step keeps the jobs, their owners and the counter consistent.
LEMMA InvStep ==
  ASSUME CountsThreads, IInv, [Next]_vars
  PROVE  IInv'
<1> USE DomainJobAssumption DEF DomainJobAssumption
<1>0. TypeOK /\ TypeOK' /\ JobsInv /\ AsyncInv
  BY TypeStep, InvParts DEF IInv
<1> SUFFICES JobsInv' /\ AsyncInv'
  <2>1. Cardinality(Stale') \in Nat /\ Cardinality(Busy') \in Nat
    BY Zenon DEF CountsThreads, Stale, Busy
  <2>2. Queue' \in Int /\ job'.jobsQueued \in Int /\ conflicts' \in Int
    BY <1>0, <2>1 DEF Queue, TypeOK, JobObjs
  <2>3. QueueAccounting' => Cardinality(Stale') <= conflicts'
    BY <2>1, <2>2 DEF QueueAccounting
  <2> QED BY Zenon, <1>0, <2>3 DEF IInv, JobsInv, AsyncInv, AsyncExclusive, OwnerRuns
<1>a. \A t \in Threads : pc[t] # "idle" => recovery # "down"
  BY <1>0 DEF JobsInv, RecoveryInv
<1>b. \A t \in Threads : held[t] # "none" => recovery # "down"
  BY <1>0 DEF JobsInv, RecoveryInv
<1>c. /\ Cardinality(Stale) \in Nat /\ Cardinality(Stale') \in Nat /\ Cardinality(Busy) \in Nat
      /\ conflicts \in Nat /\ conflicts' \in Nat /\ job.jobsQueued \in Int
  BY <1>0 DEF CountsThreads, Stale, Busy, TypeOK, JobObjs
<1>d. pc' = pc => Busy' = Busy
  BY DEF Busy
<1>1. ASSUME NEW t \in Threads, Request(t) PROVE JobsInv' /\ AsyncInv'
  <2>1. PICK r \in Requests : WellFormed(r) /\ Begin(t, r)
    BY <1>1, RequestStep
  <2> DEFINE o == Queued(job)
  <2>2. o \in JobObjs /\ SameJobs(o, job) /\ o.jobsQueued = job.jobsQueued + 1
    BY <1>0, JobObjTypes DEF Queued, SameJobs, TypeOK, JobObjs
  <2>3. /\ BeginJobInternal(t, r, "retry", o) /\ pc[t] = "idle" /\ recovery # "down"
        /\ UNCHANGED <<removing, daemonVars>>
    BY <2>1 DEF Begin
  <2> HIDE DEF o
  <2>4. JobsInv'
    BY <1>0, <2>1, <2>2, <2>3, BeginKeepsJobs
  <2>5. AsyncInv'
    BY <1>0, <2>1, <2>2, <2>3, BeginKeepsAsync
  <2> QED BY <2>4, <2>5
<1>2. ASSUME NEW t \in Threads, Resume(t) PROVE JobsInv' /\ AsyncInv'
  <2>1. req[t] \in Requests /\ WellFormed(req[t]) /\ job \in JobObjs /\ SameJobs(job, job)
    BY <1>0, <1>2 DEF TypeOK, JobsInv, RequestInv, Resume, SameJobs
  <2>2. PICK label \in {"asyncLoop", "jobLoop"} : BeginJobInternal(t, req[t], label, job)
    BY <1>2 DEF Resume
  <2>3. pc[t] # "hold" /\ pc[t] # "idle" /\ recovery # "down" /\ UNCHANGED <<removing, daemonVars>>
    BY <1>2, <1>a DEF Resume
  <2>4. JobsInv'
    BY <1>0, <2>1, <2>2, <2>3, BeginKeepsJobs
  <2>5. AsyncInv'
    BY <1>0, <2>1, <2>2, <2>3, BeginKeepsAsync
  <2> QED BY <2>4, <2>5
<1>3. ASSUME NEW t \in Threads, Timeout(t) PROVE JobsInv' /\ AsyncInv'
  <2>1. /\ pc'[t] = "idle" /\ req'[t] = NoRequest
        /\ pc[t] \in {"waitAsync", "waitJob", "wokenAsync", "wokenJob"}
        /\ \A u \in Threads \ {t} : pc'[u] = pc[u] /\ req'[u] = req[u]
        /\ UNCHANGED <<held, recovery, recoverer, removing, conflicts>>
    BY <1>0, <1>3 DEF Timeout, TypeOK, daemonVars
  <2>2. SameJobs(job', job) /\ job'.jobsQueued = job.jobsQueued - 1
    BY <1>0, <1>3 DEF Timeout, Dequeued, SameJobs, TypeOK, JobObjs
  <2>3. RequestInv'
    BY <1>0, <2>1 DEF JobsInv, RequestInv
  <2>4. RecoveryInv'
    BY <1>0, <1>a, <2>1, <2>2 DEF JobsInv, RecoveryInv, HoldsJob, SameJobs
  <2>5. JobExclusive'
    BY <1>0, <2>1, <2>2 DEF JobsInv, JobExclusive, HoldsJob, HoldsAgentJob, SameJobs
  <2>6. NoLostWakeup'
    BY <1>0, <2>1, <2>2 DEF JobsInv, NoLostWakeup, SameJobs, CanSetJob
  <2>7. AsyncInv'
    <3>1. Cardinality(Busy') = Cardinality(Busy) - 1
      BY <1>0, <2>1, BusyCount DEF TypeOK
    <3>2. job'.jobsQueued - job.jobsQueued = Cardinality(Busy') - Cardinality(Busy)
      BY <1>c, <2>2, <3>1
    <3> QED BY Zenon, <1>0, <2>1, <2>2, <3>2, SameAsyncKeeps DEF SameJobs
  <2> QED BY <2>3, <2>4, <2>5, <2>6, <2>7 DEF JobsInv
<1>4. ASSUME NEW t \in Threads, EndJob(t) PROVE JobsInv' /\ AsyncInv'
  BY Zenon, <1>0, <1>4, EndJobKeeps DEF EndJob
<1>5. ASSUME NEW t \in Threads, Finish(t) PROVE JobsInv' /\ AsyncInv'
  <2>1. CASE ExitMonitor(t)
    <3>1. job.active = "async_nested"
      BY <1>0, <2>1 DEF ExitMonitor, Nested, JobsInv, JobExclusive
    <3> QED BY <2>1, <3>1, <1>4 DEF ExitMonitor
  <2>2. CASE EndAgentJob(t)
    BY <1>0, <2>2, EndAgentKeeps
  <2>3. CASE EndAsyncJob(t)
    <3>1. /\ held[t] # "none" /\ pc[t] = "idle"
          /\ job' = Dequeued(ResetAsyncJob(job))
          /\ pc' = Broadcast([pc EXCEPT ![t] = "idle"], "waitAsync", "wokenAsync")
          /\ held' = [held EXCEPT ![t] = "none"]
          /\ UNCHANGED <<req, recoverer, recovery, conflicts>>
      BY <2>3 DEF EndAsyncJob, RunsAsyncJob, daemonVars
    <3>2. [pc EXCEPT ![t] = "idle"] = pc
      BY <1>0, <3>1 DEF TypeOK
    <3>3. pc' = Broadcast(pc, "waitAsync", "wokenAsync")
      BY Zenon, <3>1, <3>2
    <3>4. JobsInv'
      <4>1. \A u \in Threads : held[u] = "none" => held'[u] = "none"
        BY <1>0, <3>1 DEF TypeOK
      <4> QED BY Zenon, <1>0, <1>b, <3>1, <3>3, <4>1, EndAsyncKeeps
    <3>5. Busy' = Busy
      BY <3>3 DEF Busy, Broadcast
    <3>6. job'.asyncOwner = NoThread
      BY <1>0, <3>1, EndFields DEF TypeOK
    <3>7. /\ Cardinality(Stale') <= Cardinality(Stale)
          /\ job.asyncOwner = NoThread => Cardinality(Stale') <= Cardinality(Stale) - 1
      BY Zenon, <1>0, <3>1, <3>6, StaleLeft
    <3>8. /\ Cardinality(Stale') - conflicts' <= Cardinality(Stale) - conflicts
          /\ job.asyncJob = "none" =>
               Cardinality(Stale') - conflicts' <= Cardinality(Stale) - conflicts - 1
      <4>1. conflicts' = conflicts /\ (job.asyncJob = "none" => job.asyncOwner = NoThread)
        BY Zenon, <1>0, <3>1 DEF AsyncInv, OwnerInv
      <4> QED BY <1>c, <3>7, <4>1
    <3>9. AsyncInv'
      BY Zenon, <1>0, <3>1, <3>5, <3>8, EndAsyncAccount
    <3> QED BY <3>4, <3>9
  <2> QED BY Zenon, <1>4, <1>5, <2>1, <2>2, <2>3 DEF Finish
<1>6. ASSUME NEW t \in Threads, Manage(t) PROVE JobsInv' /\ AsyncInv'
  <2>1. CASE SetAsyncJobMask(t)
    <3>1. SameJobs(job', job) /\ job'.jobsQueued = job.jobsQueued
      BY <1>0, <2>1 DEF SetAsyncJobMask, SetMask, SameJobs, TypeOK, JobObjs
    <3> QED BY <1>0, <1>b, <2>1, <3>1, SameJobsKeeps
        DEF SetAsyncJobMask, RunsAsyncJob, daemonVars
  <2>2. ASSUME NEW p \in 0..PostcopyFailed, SetJobPhase(t, p)
        PROVE  JobsInv' /\ AsyncInv'
    <3>1. SameJobs(job', job) /\ job'.jobsQueued = job.jobsQueued
      BY <1>0, <2>2 DEF SetJobPhase, SameJobs, TypeOK, JobObjs
    <3> QED BY <1>0, <1>b, <2>2, <3>1, SameJobsKeeps DEF SetJobPhase, RunsAsyncJob, daemonVars
  <2>3. ASSUME ReleaseAsyncJob(t) PROVE JobsInv' /\ AsyncInv'
    <3>1. /\ job' = [job EXCEPT !.asyncOwner = NoThread]
          /\ held[t] # "none" /\ held' = [held EXCEPT ![t] = "none"]
          /\ UNCHANGED <<pc, req, recovery, recoverer, conflicts>>
      BY <2>3 DEF ReleaseAsyncJob, RunsAsyncJob, daemonVars
    <3>2. OwnerChange(NoThread) /\ NoThread \in Owners
      BY <1>0, <3>1 DEF OwnerChange, TypeOK, JobObjs, Owners
    <3>3. Cardinality(Stale') <= Cardinality(Stale)
      BY Zenon, <1>0, <3>1, <3>2, StaleLeft DEF OwnerChange
    <3>4. Cardinality(Stale') - conflicts' <= Cardinality(Stale) - conflicts
      BY <1>c, <3>1, <3>3
    <3>5. OwnerRuns'
      BY <3>2 DEF OwnerRuns, OwnerChange
    <3>6. \A u \in Threads : held[u] = "none" => held'[u] = "none"
      BY <1>0, <3>1 DEF TypeOK
    <3> QED BY Zenon, <1>0, <1>b, <3>1, <3>2, <3>4, <3>5, <3>6, OwnerChangeKeeps
  <2>4. ASSUME NEW p \in 0..PostcopyFailed, StartJobPhase(t, p) PROVE JobsInv' /\ AsyncInv'
    <3>1. /\ job' = [job EXCEPT !.asyncOwner = t, !.phase = p]
          /\ recovery # "down"
          /\ held[t] = "none" => job.asyncJob # "none"
          /\ held' = [held EXCEPT ![t] = IF held[t] = "none" THEN job.asyncJob ELSE held[t]]
          /\ UNCHANGED <<pc, req, recovery, recoverer>>
          /\ conflicts' = IF job.asyncOwner \notin {NoThread, t} THEN conflicts + 1 ELSE conflicts
      BY <2>4 DEF StartJobPhase, Conflict, recoveryVars, MigrationJobs
    <3>2. OwnerChange(t) /\ t \in Owners /\ job.asyncJob # "none"
      BY <1>0, <2>4, <3>1 DEF OwnerChange, TypeOK, JobObjs, Owners, StartJobPhase, MigrationJobs
    <3>3. /\ held'[t] = IF held[t] = "none" THEN job.asyncJob ELSE held[t]
          /\ \A u \in Threads : u # t => held'[u] = held[u]
      BY <1>0, <3>1 DEF TypeOK
    <3>4. /\ Cardinality(Stale') <= Cardinality(Stale) + 1
          /\ job.asyncOwner \in {NoThread, t} => Cardinality(Stale') <= Cardinality(Stale)
      BY Zenon, <1>0, <3>2, <3>3, StaleTaken DEF OwnerChange
    <3>5. Cardinality(Stale') - conflicts' <= Cardinality(Stale) - conflicts
      BY <1>c, <3>1, <3>4
    <3>6. OwnerRuns'
      <4>1. held'[t] # "none"
        BY <3>1, <3>3
      <4>2. ASSUME conflicts' = 0 PROVE held'[t] = job'.asyncJob
        <5>1. conflicts = 0 /\ job.asyncOwner \in {NoThread, t}
          BY <1>c, <3>1, <4>2
        <5>2. Cardinality(Stale) <= conflicts
          BY DEF IInv, AsyncExclusive
        <5>3. t \notin Stale
          <6>1. Stale \in SUBSET Threads
            BY DEF Stale
          <6>2. t \in Stale => Cardinality(Stale) >= 1
            BY Zenon, <6>1, Counting
          <6> QED BY <1>c, <5>1, <5>2, <6>2
        <5>4. held[t] = "none" \/ job.asyncOwner = t
          BY <5>3 DEF Stale
        <5>5. held[t] = "none" \/ held[t] = job.asyncJob
          BY Zenon, <1>0, <5>1, <5>4 DEF AsyncInv, OwnerRuns
        <5> QED BY <3>2, <3>3, <5>5 DEF OwnerChange
      <4>3. job'.asyncOwner = t
        BY <3>2 DEF OwnerChange
      <4> QED BY Zenon, <4>1, <4>2, <4>3 DEF OwnerRuns
    <3> QED BY Zenon, <1>0, <3>1, <3>2, <3>5, <3>6, OwnerChangeKeeps
  <2>5. ASSUME PrepareResumeRefused(t) PROVE JobsInv' /\ AsyncInv'
    <3>1. /\ job' = [job EXCEPT !.asyncOwner = NoThread, !.phase = PostcopyFailed]
          /\ recovery # "down" /\ held' = held
          /\ UNCHANGED <<pc, req, recovery, recoverer>>
          /\ conflicts' = IF job.asyncOwner # NoThread THEN conflicts + 1 ELSE conflicts
      BY <2>5 DEF PrepareResumeRefused, Conflict, recoveryVars
    <3>2. OwnerChange(NoThread) /\ NoThread \in Owners
      BY <1>0, <3>1 DEF OwnerChange, TypeOK, JobObjs, Owners
    <3>3. /\ Cardinality(Stale') <= Cardinality(Stale) + 1
          /\ job.asyncOwner = NoThread => Cardinality(Stale') <= Cardinality(Stale)
      BY Zenon, <1>0, <3>1, <3>2, StaleTaken DEF OwnerChange
    <3>4. Cardinality(Stale') - conflicts' <= Cardinality(Stale) - conflicts
      BY <1>c, <3>1, <3>3
    <3>5. OwnerRuns'
      BY <3>2 DEF OwnerRuns, OwnerChange
    <3> QED BY Zenon, <1>0, <3>1, <3>2, <3>4, <3>5, OwnerChangeKeeps
  <2>6. CASE BackupJobTerminate(t)
    <3>1. /\ job' = Dequeued(ResetAsyncJob(job)) /\ job.asyncJob # "none"
          /\ pc' = Broadcast(pc, "waitAsync", "wokenAsync") /\ job.asyncOwner = NoThread
          /\ UNCHANGED <<req, held, recoverer, recovery, conflicts>>
      BY <2>6 DEF BackupJobTerminate, daemonVars
    <3>2. recovery # "down"
      BY <1>0, <2>6 DEF BackupJobTerminate, HoldsJob, JobsInv, RecoveryInv
    <3>3. JobsInv'
      BY Zenon, <1>0, <3>1, <3>2, EndAsyncKeeps
    <3>4. Busy' = Busy
      BY <3>1 DEF Busy, Broadcast
    <3>5. job'.asyncOwner = NoThread
      BY <1>0, <3>1, EndFields DEF TypeOK
    <3>6. Stale' = Stale
      BY Zenon, <3>1, <3>5 DEF Stale
    <3>7. Cardinality(Stale') - conflicts' <= Cardinality(Stale) - conflicts
      BY <1>c, <3>1, <3>6
    <3>8. AsyncInv'
      BY Zenon, <1>0, <3>1, <3>4, <3>7, EndAsyncAccount
    <3> QED BY <3>3, <3>8
  <2>7. CASE ListRemove(t)
    <3>1. SameJobs(job', job) /\ job'.jobsQueued = job.jobsQueued
      BY <2>7 DEF ListRemove, SameJobs
    <3>2. recovery # "down"
      BY <1>0, <2>7 DEF ListRemove, HoldsJob, RunsAsyncJob, JobsInv, RecoveryInv
    <3>3. UNCHANGED <<pc, req, held, recovery, recoverer, conflicts>>
      BY <2>7 DEF ListRemove, daemonVars
    <3> QED BY Zenon, <1>0, <3>1, <3>2, <3>3, SameJobsKeeps
  <2> QED BY Zenon, <1>6, <2>1, <2>2, <2>3, <2>4, <2>5, <2>6, <2>7 DEF Manage
<1>7. ASSUME NEW t \in Threads, Recover(t) PROVE JobsInv' /\ AsyncInv'
  <2>1. CASE ReconnectDone(t)
    <3>1. HoldsJob(t)
      BY <1>0, <2>1 DEF ReconnectDone, JobsInv, RecoveryInv
    <3> QED BY Zenon, <1>0, <2>1, <3>1, EndJobKeeps DEF ReconnectDone
  <2>2. CASE ReconnectError(t)
    <3>1. PICK discard \in BOOLEAN : Failure(t, discard)
      BY <2>2, ReconnectErrorCases
    <3> QED BY <1>0, <3>1, FailureKeeps
  <2> QED BY Zenon, <1>0, <1>7, <2>1, <2>2, ReconnectKeeps, RecoverJobKeeps, CompleteKeeps DEF Recover
<1>8. CASE EventSaveStatus
  <2>1. SameJobs(job', job) /\ job'.jobsQueued = job.jobsQueued
    BY <1>8 DEF EventSaveStatus, SameJobs
  <2> QED BY <1>0, <1>8, <2>1, SameJobsKeeps DEF EventSaveStatus, daemonVars
<1>9. CASE Crash
  <2>1. /\ RequestInv' /\ JobExclusive' /\ NoLostWakeup' /\ OwnerInv' /\ OwnerRuns'
    BY Zenon, <1>9 DEF Crash, RequestInv, JobExclusive, OwnerInv, OwnerRuns,
                NoLostWakeup, HoldsJob, HoldsAgentJob, NewJobObj, NoRequest
  <2>2. RecoveryInv'
    BY Zenon, <1>9 DEF Crash, RecoveryInv, NewJobObj
  <2>3. Busy' = {} /\ Stale' = {}
    BY <1>9 DEF Crash, Busy, Stale
  <2>4. Cardinality({}) = 0
    BY Zenon DEF CountsThreads
  <2>5. job'.jobsQueued = 0 /\ job'.asyncJob = "none" /\ recovery' = "down" /\ conflicts' = 0
    BY <1>9 DEF Crash, NewJobObj
  <2>6. QueueAccounting'
    BY <2>3, <2>4, <2>5 DEF QueueAccounting, Queue
  <2> QED BY <2>1, <2>2, <2>6 DEF JobsInv, AsyncInv
<1>10. CASE UNCHANGED vars
  <2>1. UNCHANGED <<job, pc, req, held, removing, recovery, recoverer, conflicts>>
    BY <1>10 DEF vars
  <2>2. /\ RequestInv' /\ RecoveryInv' /\ NoLostWakeup' /\ JobExclusive'
    BY Zenon, <1>0, <2>1 DEF JobsInv, RequestInv, RecoveryInv, NoLostWakeup, JobExclusive,
                       HoldsJob, HoldsAgentJob
  <2>3. OwnerInv' /\ OwnerRuns' /\ QueueAccounting'
    BY Zenon, <1>0, <2>1 DEF AsyncInv, OwnerInv, OwnerRuns, QueueAccounting, Queue, Busy, Stale
  <2> QED BY <2>2, <2>3 DEF JobsInv, AsyncInv
<1> QED BY Zenon, <1>1, <1>2, <1>3, <1>5, <1>6, <1>7, <1>8, <1>9, <1>10 DEF Next

\* Nothing runs and nothing is queued at first.
LEMMA InvInit ==
  ASSUME CountsThreads, Init
  PROVE  IInv
<1>0. Cardinality({}) = 0
  BY Zenon DEF CountsThreads
<1>1. Busy = {} /\ Stale = {}
  BY DEF Init, Busy, Stale
<1>2. QueueAccounting
  BY <1>0, <1>1 DEF Init, QueueAccounting, Queue, NewJobObj
<1>3. RequestInv /\ RecoveryInv /\ NoLostWakeup /\ OwnerInv
  BY DEF Init, RequestInv, RecoveryInv, NoLostWakeup, OwnerInv, NewJobObj
<1>4. JobExclusive /\ OwnerRuns
  BY DomainJobAssumption
     DEF DomainJobAssumption, Init, JobExclusive, OwnerRuns, HoldsJob, HoldsAgentJob,
         NewJobObj, NoRequest
<1> QED BY TypeInit, <1>2, <1>3, <1>4, InvParts DEF JobsInv, AsyncInv

(***************************************************************************)
(* The status XML and the mask.                                            *)
(***************************************************************************)

\* An asynchronous job always allows DESTROY, and only one that exists has a phase.
MaskInv == job.asyncJob # "none" => "destroy" \in job.mask
PhaseInv == job.asyncJob = "none" => job.phase = 0

StatusInv == MaskInv /\ PhaseInv /\ SavedStatus /\ DestroyNotMasked

\* The fields of the job object these invariants are about.
SameStatus(o, p) == /\ o.active = p.active /\ o.asyncJob = p.asyncJob
                    /\ o.phase = p.phase /\ o.mask = p.mask

\* A save of the job object after its last change records it.
LEMMA SavedNow ==
  ASSUME job' \in JobObjs, saved' = StatusOf(job')
  PROVE  SavedStatus'
BY DEF SavedStatus, StatusOf, TrackJob, JobObjs, NormalJobs, SavedPhase

\* No save is needed when the fields that it records stay, or when a job that it
\* does not record starts or ends.
LEMMA SavedBefore ==
  ASSUME SavedStatus, UNCHANGED <<saved, recovery>>,
         job'.asyncJob = job.asyncJob, job'.phase = job.phase,
         job'.active = job.active \/ (job'.active # "destroy" /\ job.active # "destroy")
  PROVE  SavedStatus'
BY DEF SavedStatus, SavedPhase

\* Nobody falls asleep on job->asyncCond.
LEMMA NoNewSleeper ==
  ASSUME DestroyNotMasked,
         \A u \in Threads : pc'[u] = "waitAsync" => pc[u] = "waitAsync" /\ req'[u] = req[u]
  PROVE  DestroyNotMasked'
BY DEF DestroyNotMasked

\* A thread starts or continues virDomainObjBeginJobInternal.
LEMMA BeginKeepsStatus ==
  ASSUME TypeOK, StatusInv, NEW t \in Threads, NEW r \in Requests, NEW label,
         NEW o \in JobObjs, WellFormed(r), SameStatus(o, job),
         BeginJobInternal(t, r, label, o), UNCHANGED recovery
  PROVE  StatusInv'
<1> DEFINE g == Granted(o, t, r)
<1>a. g \in JobObjs
  BY GrantedType
<1>b. r.job = "destroy" => ~Blocked(o, r)
  BY DEF Blocked, NestedJobAllowed, StatusInv, MaskInv, SameStatus
<1>c. MaskInv /\ PhaseInv /\ SavedStatus /\ DestroyNotMasked
  BY DEF StatusInv
<1>d. pc \in [Threads -> PCs] /\ req \in [Threads -> Requests]
  BY DEF TypeOK
<1>1. CASE /\ job' = Dequeued(o) \/ job' = o
           /\ saved' = saved
           /\ pc' = [pc EXCEPT ![t] = pc'[t]]
           /\ req' = [req EXCEPT ![t] = req'[t]]
           /\ pc'[t] = "waitAsync" => req'[t] = r /\ Blocked(o, r)
  <2>1. SameStatus(job', job)
    BY <1>1 DEF SameStatus, Dequeued, JobObjs
  <2>2. MaskInv' /\ PhaseInv'
    BY <1>c, <2>1 DEF MaskInv, PhaseInv, SameStatus
  <2>3. SavedStatus'
    BY <1>1, <1>c, <2>1, SavedBefore DEF SameStatus
  <2>4. DestroyNotMasked'
    BY <1>1, <1>b, <1>c, <1>d DEF DestroyNotMasked
  <2> QED BY <2>2, <2>3, <2>4 DEF StatusInv
<1>2. CASE /\ CanSetJob(o, r.job, r.agentJob)
           /\ r.job # "async"
           /\ job' = g
           /\ saved' = IF TrackJob(r.job) THEN StatusOf(g) ELSE saved
           /\ pc' = [pc EXCEPT ![t] = "hold"]
           /\ req' = [req EXCEPT ![t] = r]
  <2>1. /\ job'.asyncJob = job.asyncJob /\ job'.phase = job.phase /\ job'.mask = job.mask
        /\ r.job = "none" => job'.active = job.active
        /\ r.job # "none" => job'.active = r.job /\ job.active = "none"
    BY <1>2, GrantedFields DEF SameStatus, CanSetJob
  <2> HIDE DEF g
  <2>2. MaskInv' /\ PhaseInv'
    BY <1>c, <2>1 DEF MaskInv, PhaseInv
  <2>3. SavedStatus'
    <3>1. CASE TrackJob(r.job)
      BY <1>2, <1>a, <3>1, SavedNow
    <3>2. CASE ~TrackJob(r.job)
      <4>1. r.job # "destroy"
        BY <3>2 DEF TrackJob
      <4> QED BY <1>2, <1>c, <2>1, <3>2, <4>1, SavedBefore
    <3> QED BY <3>1, <3>2
  <2>4. DestroyNotMasked'
    BY <1>2, <1>c, <1>d DEF DestroyNotMasked
  <2> QED BY <2>2, <2>3, <2>4 DEF StatusInv
<1>3. CASE /\ CanSetJob(o, r.job, r.agentJob)
           /\ r.job = "async"
           /\ \E m \in SUBSET NormalJobs :
                job' = [SetMask(g, m) EXCEPT !.apiFlags = r.apiFlags]
           /\ saved' = StatusOf(g)
           /\ pc' = [pc EXCEPT ![t] = "idle"]
           /\ req' = [req EXCEPT ![t] = NoRequest]
  <2>1. g.asyncJob = r.asyncJob /\ r.asyncJob # "none" /\ g.active = "none" /\ g.phase = 0
    BY <1>3, GrantedFields DEF WellFormed
  <2> HIDE DEF g
  <2>2. /\ job'.asyncJob = g.asyncJob /\ job'.phase = g.phase /\ job'.active = g.active
        /\ "destroy" \in job'.mask
    BY <1>3, <1>a, <2>1 DEF SetMask, JobObjs
  <2>3. MaskInv' /\ PhaseInv'
    BY <2>1, <2>2 DEF MaskInv, PhaseInv
  <2>4. SavedStatus'
    <3>1. SavedPhase(g) = 0 /\ SavedPhase(job') = 0
      BY <2>1, <2>2 DEF SavedPhase
    <3> QED BY <1>3, <2>1, <2>2, <3>1 DEF SavedStatus, StatusOf, TrackJob
  <2>5. DestroyNotMasked'
    BY <1>3, <1>c, <1>d DEF DestroyNotMasked
  <2> QED BY <2>3, <2>4, <2>5 DEF StatusInv
<1> QED
  <2> HIDE DEF g
  <2> QED BY BeginCases, <1>1, <1>2, <1>3, <1>d DEF g

\* Ends of jobs, time-outs included.
LEMMA FinishKeepsStatus ==
  ASSUME IInv, TypeOK', StatusInv, NEW t \in Threads, Finish(t) \/ Timeout(t)
  PROVE  StatusInv'
<1>a. MaskInv /\ PhaseInv /\ SavedStatus /\ DestroyNotMasked /\ TypeOK /\ job \in JobObjs
  BY DEF StatusInv, IInv, TypeOK
<1>b. job' \in JobObjs
  BY DEF TypeOK
<1>c. pc \in [Threads -> PCs] /\ req \in [Threads -> Requests]
  BY <1>a DEF TypeOK
<1>1. ASSUME EndJob(t) PROVE StatusInv'
  <2>1. job' = Dequeued(ResetJob(job)) /\ UNCHANGED recovery
    BY <1>1 DEF EndJob, daemonVars
  <2>2. /\ job'.active = "none" /\ job'.asyncJob = job.asyncJob /\ job'.phase = job.phase
        /\ job'.mask = job.mask
    BY <1>a, <2>1 DEF Dequeued, ResetJob, JobObjs
  <2>3. MaskInv' /\ PhaseInv'
    BY <1>a, <2>2 DEF MaskInv, PhaseInv
  <2>4. SavedStatus'
    <3>1. CASE TrackJob(job.active)
      BY <1>1, <1>b, <3>1, SavedNow DEF EndJob
    <3>2. CASE ~TrackJob(job.active)
      <4>1. saved' = saved /\ job.active # "destroy"
        BY <1>1, <3>2 DEF EndJob, TrackJob
      <4> QED BY <1>a, <2>1, <2>2, <4>1, SavedBefore
    <3> QED BY <3>1, <3>2
  <2>5. DestroyNotMasked'
    <3>1. \A u \in Threads : pc'[u] = "waitAsync" => pc[u] = "waitAsync" /\ u # t
      BY <1>1, <1>c DEF EndJob, Broadcast, PCs
    <3>2. \A u \in Threads \ {t} : req'[u] = req[u]
      BY <1>1, <1>c DEF EndJob
    <3> QED BY <1>a, <3>1, <3>2, NoNewSleeper
  <2> QED BY <2>3, <2>4, <2>5 DEF StatusInv
<1>2. ASSUME ExitMonitor(t) PROVE StatusInv'
  <2>1. job.active = "async_nested"
    BY <1>2 DEF ExitMonitor, Nested, IInv, JobExclusive
  <2> QED BY <1>1, <1>2, <2>1 DEF ExitMonitor
<1>3. ASSUME EndAgentJob(t) \/ Timeout(t) PROVE StatusInv'
  <2>1. SameStatus(job', job) /\ UNCHANGED <<saved, recovery>>
    BY Zenon, <1>3, <1>a DEF EndAgentJob, Timeout, Dequeued, ResetAgentJob, SameStatus, JobObjs, daemonVars
  <2>2. MaskInv' /\ PhaseInv' /\ SavedStatus'
    BY <1>a, <2>1, SavedBefore DEF MaskInv, PhaseInv, SameStatus
  <2>3. \A u \in Threads : pc'[u] = "waitAsync" => pc[u] = "waitAsync" /\ u # t
    BY <1>3, <1>c DEF EndAgentJob, Timeout, Broadcast, PCs
  <2>4. \A u \in Threads \ {t} : req'[u] = req[u]
    BY <1>3, <1>c DEF EndAgentJob, Timeout
  <2> QED BY <1>a, <2>2, <2>3, <2>4, NoNewSleeper DEF StatusInv
<1>4. ASSUME EndAsyncJob(t) PROVE StatusInv'
  <2>1. job' = Dequeued(ResetAsyncJob(job)) /\ saved' = StatusOf(job')
    BY <1>4 DEF EndAsyncJob
  <2>2. job'.asyncJob = "none" /\ job'.phase = 0
    BY <1>a, <2>1 DEF Dequeued, ResetAsyncJob, JobObjs
  <2>3. MaskInv' /\ PhaseInv' /\ SavedStatus'
    BY <1>b, <2>1, <2>2, SavedNow DEF MaskInv, PhaseInv
  <2>4. \A u \in Threads : pc'[u] = "waitAsync" => pc[u] = "waitAsync" /\ req'[u] = req[u]
    BY <1>4, <1>c DEF EndAsyncJob, Broadcast, PCs
  <2> QED BY <1>a, <2>3, <2>4, NoNewSleeper DEF StatusInv
<1> QED BY <1>1, <1>2, <1>3, <1>4 DEF Finish

\* The driver's operations on a running asynchronous job.
LEMMA ManageKeepsStatus ==
  ASSUME IInv, TypeOK', StatusInv, NEW t \in Threads, Manage(t)
  PROVE  StatusInv'
<1>a. MaskInv /\ PhaseInv /\ SavedStatus /\ DestroyNotMasked /\ TypeOK /\ job \in JobObjs
  BY DEF StatusInv, IInv, TypeOK
<1>b. job' \in JobObjs
  BY DEF TypeOK
<1>c. pc \in [Threads -> PCs] /\ req \in [Threads -> Requests]
  BY <1>a DEF TypeOK
<1>1. ASSUME SetAsyncJobMask(t) \/ ReleaseAsyncJob(t) \/ ListRemove(t) PROVE StatusInv'
  <2>1. /\ job'.active = job.active /\ job'.asyncJob = job.asyncJob /\ job'.phase = job.phase
        /\ job'.mask = job.mask \/ "destroy" \in job'.mask
    BY <1>1, <1>a DEF SetAsyncJobMask, ReleaseAsyncJob, ListRemove, SetMask, JobObjs
  <2>2. UNCHANGED <<saved, recovery, pc, req>>
    BY <1>1 DEF SetAsyncJobMask, ReleaseAsyncJob, ListRemove, daemonVars
  <2>3. MaskInv' /\ PhaseInv' /\ SavedStatus'
    BY <1>a, <2>1, <2>2, SavedBefore DEF MaskInv, PhaseInv
  <2> QED BY <1>a, <2>2, <2>3, NoNewSleeper DEF StatusInv
<1>2. ASSUME NEW p \in 0..PostcopyFailed,
             SetJobPhase(t, p) \/ StartJobPhase(t, p) \/ PrepareResumeRefused(t)
      PROVE  StatusInv'
  <2>1. UNCHANGED <<pc, req, recovery>>
    BY <1>2 DEF SetJobPhase, StartJobPhase, PrepareResumeRefused, daemonVars, recoveryVars
  <2>2. CASE UNCHANGED <<job, saved>>
    BY <1>a, <2>1, <2>2, NoNewSleeper, SavedBefore DEF StatusInv, MaskInv, PhaseInv
  <2>3. CASE /\ job.asyncJob # "none" /\ saved' = StatusOf(job')
             /\ \/ job' = [job EXCEPT !.phase = p]
                \/ job' = [job EXCEPT !.asyncOwner = t, !.phase = p]
                \/ job' = [job EXCEPT !.asyncOwner = NoThread, !.phase = PostcopyFailed]
    <3>1. job'.asyncJob = job.asyncJob /\ job'.mask = job.mask
      BY Zenon, <1>a, <2>3 DEF JobObjs
    <3>2. MaskInv' /\ PhaseInv' /\ SavedStatus'
      BY <1>a, <1>b, <2>3, <3>1, SavedNow DEF MaskInv, PhaseInv
    <3> QED BY <1>a, <2>1, <3>2, NoNewSleeper DEF StatusInv
  <2>4. \A x \in MigrationJobs : x # "none"
    BY DEF MigrationJobs
  <2>5. StartJobPhase(t, p) => job.asyncJob # "none"
    BY Zenon, <2>4 DEF StartJobPhase
  <2> QED BY Zenon, <1>2, <2>2, <2>3, <2>5 DEF SetJobPhase, StartJobPhase, PrepareResumeRefused
<1>3. ASSUME BackupJobTerminate(t) PROVE StatusInv'
  <2>1. job' = Dequeued(ResetAsyncJob(job)) /\ saved' = StatusOf(job')
    BY <1>3 DEF BackupJobTerminate
  <2>2. job'.asyncJob = "none" /\ job'.phase = 0
    BY <1>a, <2>1 DEF Dequeued, ResetAsyncJob, JobObjs
  <2>3. MaskInv' /\ PhaseInv' /\ SavedStatus'
    BY <1>b, <2>1, <2>2, SavedNow DEF MaskInv, PhaseInv
  <2>4. \A u \in Threads : pc'[u] = "waitAsync" => pc[u] = "waitAsync" /\ req'[u] = req[u]
    BY <1>3, <1>c DEF BackupJobTerminate, Broadcast, PCs
  <2> QED BY <1>a, <2>3, <2>4, NoNewSleeper DEF StatusInv
<1>4. 0 \in 0..PostcopyFailed
  BY DomainJobAssumption DEF DomainJobAssumption
<1> QED BY Zenon, <1>1, <1>2, <1>3, <1>4 DEF Manage

\* A restart of the daemon and the recovery of the job.
LEMMA RecoverKeepsStatus ==
  ASSUME IInv, TypeOK', StatusInv, NEW t \in Threads, Recover(t)
  PROVE  StatusInv'
<1>a. MaskInv /\ PhaseInv /\ SavedStatus /\ DestroyNotMasked /\ TypeOK /\ job \in JobObjs
  BY DEF StatusInv, IInv, TypeOK
<1>b. job' \in JobObjs
  BY DEF TypeOK
<1>c. pc \in [Threads -> PCs] /\ req \in [Threads -> Requests]
  BY <1>a DEF TypeOK
<1>1. ASSUME Reconnect(t) PROVE StatusInv'
  <2> DEFINE p == ParseJob(job)
             o == Queued(ResetAsyncJob(ResetJob(p)))
             r == [NoRequest EXCEPT !.job = "modify"]
  <2>1. recovery = "down" /\ \A u \in Threads : pc[u] = "idle"
    BY <1>1 DEF IInv, RecoveryInv, Reconnect
  <2>2. p \in JobObjs
    BY ZenonT(60), <1>a DEF ParseJob, JobObjs, TypeOK, Status, NormalJobs
  <2> HIDE DEF p
  <2>3. o \in JobObjs /\ o.asyncJob = "none" /\ o.phase = 0
    <3>1. ResetJob(p) \in JobObjs /\ ResetAsyncJob(ResetJob(p)) \in JobObjs /\ o \in JobObjs
      BY <2>2, JobObjTypes
    <3> QED BY <3>1 DEF Queued, ResetAsyncJob, JobObjs
  <2>4. r \in Requests /\ r.job = "modify"
    BY Zenon, DomainJobAssumption DEF DomainJobAssumption, NoRequest, Requests, NormalJobs
  <2>5. BeginJobInternal(t, r, "retry", o) /\ recovery' = "reconnect"
    BY <1>1 DEF Reconnect, p
  <2> HIDE DEF o, r
  <2>6. /\ \/ job' = Dequeued(o) \/ job' = o
           \/ CanSetJob(o, r.job, r.agentJob) /\ job' = Granted(o, t, r)
        /\ \E x : pc' = [pc EXCEPT ![t] = x]
        /\ pc'[t] = "waitAsync" => req'[t] = r
    BY <1>c, <2>3, <2>4, <2>5, BeginCases
  <2>7. job'.asyncJob = "none" /\ job'.phase = 0
    <3>1. CASE CanSetJob(o, r.job, r.agentJob) /\ job' = Granted(o, t, r)
      BY <2>3, <2>4, <3>1, GrantedFields
    <3> QED BY <2>3, <2>6, <3>1 DEF Dequeued, JobObjs
  <2>8. DestroyNotMasked'
    BY <1>c, <2>1, <2>4, <2>6 DEF DestroyNotMasked
  <2> QED BY <2>5, <2>7, <2>8 DEF StatusInv, MaskInv, PhaseInv, SavedStatus
<1>2. ASSUME RecoverJob(t) PROVE StatusInv'
  <2>1. recovery' \in {"recovered", "completing"} /\ UNCHANGED <<pc, req>>
    BY Zenon, <1>2 DEF RecoverJob
  <2>2. MaskInv' /\ PhaseInv'
    <3>1. ASSUME NEW a \in AllAsyncJobs, NEW p, NEW f, NEW m,
                 job' = RestoreAsyncJob(job, a, p, f, m)
          PROVE  job'.asyncJob # "none" /\ "destroy" \in job'.mask
      <4>1. a # "none"
        BY DEF AllAsyncJobs, MigrationJobs
      <4> QED BY <1>a, <3>1, <4>1 DEF RestoreAsyncJob, SetMask, Queued, JobObjs
    <3>2. "backup" \in AllAsyncJobs /\ MigrationJobs \subseteq AllAsyncJobs
      BY DEF AllAsyncJobs
    <3>3. job' = job \/ (job'.asyncJob # "none" /\ "destroy" \in job'.mask)
      BY Zenon, <1>2, <3>1, <3>2 DEF RecoverJob
    <3> QED BY <1>a, <3>3 DEF MaskInv, PhaseInv
  <2>3. SavedStatus'
    BY <2>1 DEF SavedStatus
  <2> QED BY <1>a, <2>1, <2>2, <2>3, NoNewSleeper DEF StatusInv
<1>3. ASSUME ReconnectDone(t) PROVE StatusInv'
  <2>1. job' = Dequeued(ResetJob(job))
    BY <1>3 DEF ReconnectDone
  <2>2. /\ job'.active = "none" /\ job'.asyncJob = job.asyncJob /\ job'.phase = job.phase
        /\ job'.mask = job.mask
    BY <1>a, <2>1 DEF Dequeued, ResetJob, JobObjs
  <2>3. MaskInv' /\ PhaseInv'
    BY <1>a, <2>2 DEF MaskInv, PhaseInv
  <2>4. job.active = "modify"
    BY <1>3 DEF ReconnectDone, IInv, RecoveryInv, JobExclusive
  <2>5. /\ saved'.asyncJob = job.asyncJob /\ saved'.phase = SavedPhase(job)
        /\ saved'.active = "none"
    BY <1>3, <2>4 DEF ReconnectDone, StatusOf, TrackJob
  <2>6. SavedStatus'
    BY <2>2, <2>5 DEF SavedStatus, SavedPhase
  <2>7. \A u \in Threads : pc'[u] = "waitAsync" => pc[u] = "waitAsync" /\ u # t
    BY <1>3, <1>c DEF ReconnectDone, Broadcast, PCs
  <2>8. \A u \in Threads \ {t} : req'[u] = req[u]
    BY <1>3, <1>c DEF ReconnectDone
  <2> QED BY <1>a, <2>3, <2>6, <2>7, <2>8, NoNewSleeper DEF StatusInv
<1>4. ASSUME CompleteRestoredJob(t) PROVE StatusInv'
  <2>1. job' = Dequeued(ResetAsyncJob(job)) /\ recovery' = "recovered"
    BY <1>4 DEF CompleteRestoredJob
  <2>2. job'.asyncJob = "none" /\ job'.phase = 0
    BY <1>a, <2>1 DEF Dequeued, ResetAsyncJob, JobObjs
  <2>3. MaskInv' /\ PhaseInv' /\ SavedStatus'
    BY <2>1, <2>2 DEF MaskInv, PhaseInv, SavedStatus
  <2>4. \A u \in Threads : pc'[u] = "waitAsync" => pc[u] = "waitAsync" /\ req'[u] = req[u]
    BY <1>4, <1>c DEF CompleteRestoredJob, Broadcast, PCs
  <2> QED BY <1>a, <2>3, <2>4, NoNewSleeper DEF StatusInv
<1>5. ASSUME ReconnectError(t) PROVE StatusInv'
  <2>1. PICK discard \in BOOLEAN : Failure(t, discard)
    BY <1>5, ReconnectErrorCases
  <2> DEFINE s == Stopped(discard)
  <2>2. /\ s \in JobObjs
        /\ \/ s.asyncJob = "none" /\ s.phase = 0
           \/ s.asyncJob = job.asyncJob /\ s.phase = job.phase /\ s.mask = job.mask
    <3>1. ResetAsyncJob(job) \in JobObjs /\ Dequeued(ResetAsyncJob(job)) \in JobObjs
      BY <1>a, JobObjTypes
    <3>2. ResetAsyncJob(job).asyncJob = "none" /\ ResetAsyncJob(job).phase = 0
      BY <1>a DEF ResetAsyncJob, JobObjs
    <3>3. /\ Dequeued(ResetAsyncJob(job)).asyncJob = "none"
          /\ Dequeued(ResetAsyncJob(job)).phase = 0
      BY <3>1, <3>2 DEF Dequeued, JobObjs
    <3> QED BY Zenon, <1>a, <3>1, <3>2, <3>3 DEF Stopped
  <2>3. job' = Dequeued(ResetJob(s)) /\ recovery' \in {"failed", "dropped"}
    BY <2>1 DEF Failure
  <2> HIDE DEF s
  <2>4. job'.asyncJob = s.asyncJob /\ job'.phase = s.phase /\ job'.mask = s.mask
    BY <2>2, <2>3 DEF Dequeued, ResetJob, JobObjs
  <2>5. MaskInv' /\ PhaseInv'
    BY <1>a, <2>2, <2>4 DEF MaskInv, PhaseInv
  <2>6. SavedStatus'
    BY <2>3 DEF SavedStatus
  <2>7. \A u \in Threads : pc'[u] = "waitAsync" => pc[u] = "waitAsync" /\ u # t
    BY <2>1, <1>c DEF Failure, Broadcast, PCs
  <2>8. \A u \in Threads \ {t} : req'[u] = req[u]
    BY <2>1, <1>c DEF Failure
  <2> QED BY <1>a, <2>5, <2>6, <2>7, <2>8, NoNewSleeper DEF StatusInv
<1> QED BY Zenon, <1>1, <1>2, <1>3, <1>4, <1>5 DEF Recover

\* Every step keeps the invariants about mask, phase and status XML.
LEMMA StatusStep == IInv /\ StatusInv /\ [Next]_vars => StatusInv'
<1> SUFFICES ASSUME IInv, StatusInv, [Next]_vars PROVE StatusInv'
  OBVIOUS
<1>a. TypeOK /\ TypeOK' /\ job \in JobObjs /\ job' \in JobObjs /\ RequestInv
  BY TypeStep DEF IInv, TypeOK
<1>1. ASSUME NEW t \in Threads, Request(t) PROVE StatusInv'
  <2>1. PICK r \in Requests : WellFormed(r) /\ Begin(t, r)
    BY <1>1, RequestStep
  <2> DEFINE o == Queued(job)
  <2>2. o \in JobObjs /\ SameStatus(o, job)
    BY <1>a, JobObjTypes DEF Queued, SameStatus, JobObjs
  <2>3. BeginJobInternal(t, r, "retry", o) /\ UNCHANGED recovery
    BY <2>1 DEF Begin, daemonVars
  <2> HIDE DEF o
  <2> QED BY <1>a, <2>1, <2>2, <2>3, BeginKeepsStatus
<1>2. ASSUME NEW t \in Threads, Resume(t) PROVE StatusInv'
  <2>1. req[t] \in Requests /\ WellFormed(req[t]) /\ SameStatus(job, job) /\ UNCHANGED recovery
    BY <1>a, <1>2 DEF TypeOK, RequestInv, Resume, SameStatus, daemonVars
  <2>2. PICK label \in {"asyncLoop", "jobLoop"} : BeginJobInternal(t, req[t], label, job)
    BY <1>2 DEF Resume
  <2> QED BY <1>a, <2>1, <2>2, BeginKeepsStatus
<1>3. ASSUME NEW t \in Threads, Timeout(t) \/ Finish(t) PROVE StatusInv'
  BY <1>a, <1>3, FinishKeepsStatus
<1>4. ASSUME NEW t \in Threads, Manage(t) PROVE StatusInv'
  BY <1>a, <1>4, ManageKeepsStatus
<1>5. ASSUME NEW t \in Threads, Recover(t) PROVE StatusInv'
  BY <1>a, <1>5, RecoverKeepsStatus
<1>6. CASE EventSaveStatus
  <2>1. saved' = StatusOf(job') /\ UNCHANGED <<job, pc, req>>
    BY <1>6 DEF EventSaveStatus
  <2> QED BY <1>a, <2>1, SavedNow, NoNewSleeper DEF StatusInv, MaskInv, PhaseInv
<1>7. CASE Crash
  <2>1. job' = NewJobObj /\ recovery' = "down" /\ \A u \in Threads : pc'[u] = "idle"
    BY <1>7 DEF Crash
  <2> QED BY <2>1 DEF StatusInv, MaskInv, PhaseInv, SavedStatus, DestroyNotMasked, NewJobObj
<1>8. CASE UNCHANGED vars
  <2>1. UNCHANGED <<job, saved, recovery, pc, req>>
    BY <1>8 DEF vars
  <2> QED BY <2>1, SavedBefore, NoNewSleeper DEF StatusInv, MaskInv, PhaseInv
<1> QED BY <1>1, <1>2, <1>3, <1>4, <1>5, <1>6, <1>7, <1>8 DEF Next

\* The API flags of the job need no save while they and the phase stay, and the job
\* that has just been saved has them saved.
LEMMA FlagsKept ==
  ASSUME SavedFlags, UNCHANGED <<saved, recovery>>,
         job'.asyncJob = job.asyncJob, job'.phase = job.phase, job'.apiFlags = job.apiFlags
  PROVE  SavedFlags'
BY DEF SavedFlags, SavedPhase

\* See FlagsKept.
LEMMA FlagsWritten ==
  ASSUME NEW o, saved' = StatusOf(o), o.apiFlags = job'.apiFlags
  PROVE  SavedFlags'
BY DEF SavedFlags, StatusOf

\* Beginning a job saves before the API flags of an asynchronous job are set, which
\* has no phase then; other jobs leave the flags alone.
LEMMA BeginKeepsFlags ==
  ASSUME SavedFlags, NEW t \in Threads, NEW r \in Requests, NEW label,
         NEW o \in JobObjs, o.asyncJob = job.asyncJob, o.phase = job.phase,
         o.apiFlags = job.apiFlags, BeginJobInternal(t, r, label, o), UNCHANGED recovery
  PROVE  SavedFlags'
<1> DEFINE g == Granted(o, t, r)
<1>a. g \in JobObjs
  BY GrantedType
<1>1. CASE (job' = Dequeued(o) \/ job' = o) /\ saved' = saved
  <2>1. /\ job'.asyncJob = job.asyncJob /\ job'.phase = job.phase
        /\ job'.apiFlags = job.apiFlags
    BY <1>1 DEF Dequeued, JobObjs
  <2> QED BY <1>1, <2>1, FlagsKept
<1>2. CASE /\ CanSetJob(o, r.job, r.agentJob) /\ r.job # "async" /\ job' = g
           /\ saved' = IF TrackJob(r.job) THEN StatusOf(g) ELSE saved
  <2>1. /\ job'.asyncJob = job.asyncJob /\ job'.phase = job.phase
        /\ job'.apiFlags = job.apiFlags
    BY Zenon, <1>2, GrantedFields
  <2> HIDE DEF g
  <2>2. g.apiFlags = job'.apiFlags
    BY <1>2
  <2> QED BY Zenon, <1>2, <2>1, <2>2, FlagsKept, FlagsWritten
<1>3. CASE /\ CanSetJob(o, r.job, r.agentJob) /\ r.job = "async"
           /\ \E m \in SUBSET NormalJobs :
                job' = [SetMask(g, m) EXCEPT !.apiFlags = r.apiFlags]
  <2>1. g.phase = 0
    BY <1>3, GrantedFields
  <2> HIDE DEF g
  <2>2. job'.phase = 0
    BY <1>3, <1>a, <2>1 DEF SetMask, JobObjs
  <2> QED BY <2>2 DEF SavedFlags, SavedPhase
<1> QED
  <2> HIDE DEF g
  <2> QED BY BeginCases, <1>1, <1>2, <1>3 DEF g

\* Every step keeps the saved API flags those of the job.
LEMMA FlagsStep == IInv /\ StatusInv /\ SavedFlags /\ [Next]_vars => SavedFlags'
<1> SUFFICES ASSUME IInv, StatusInv, SavedFlags, [Next]_vars PROVE SavedFlags'
  OBVIOUS
<1>a. TypeOK /\ job \in JobObjs /\ RequestInv /\ PhaseInv
  BY DEF IInv, TypeOK, StatusInv
<1>1. ASSUME NEW t \in Threads, Request(t) PROVE SavedFlags'
  <2>1. PICK r \in Requests : Begin(t, r)
    BY <1>1, RequestStep
  <2> DEFINE o == Queued(job)
  <2>2. /\ o \in JobObjs /\ o.asyncJob = job.asyncJob /\ o.phase = job.phase
        /\ o.apiFlags = job.apiFlags
    BY <1>a, JobObjTypes DEF Queued, JobObjs
  <2>3. BeginJobInternal(t, r, "retry", o) /\ UNCHANGED recovery
    BY <2>1 DEF Begin, daemonVars
  <2> HIDE DEF o
  <2> QED BY <2>2, <2>3, BeginKeepsFlags
<1>2. ASSUME NEW t \in Threads, Resume(t) PROVE SavedFlags'
  <2>1. req[t] \in Requests /\ UNCHANGED recovery
    BY <1>a, <1>2 DEF TypeOK, Resume, daemonVars
  <2>2. PICK label \in {"asyncLoop", "jobLoop"} : BeginJobInternal(t, req[t], label, job)
    BY <1>2 DEF Resume
  <2> QED BY <1>a, <2>1, <2>2, BeginKeepsFlags
<1>3. ASSUME NEW t \in Threads, EndJob(t) PROVE SavedFlags'
  <2>1. /\ job'.asyncJob = job.asyncJob /\ job'.phase = job.phase
        /\ job'.apiFlags = job.apiFlags /\ UNCHANGED recovery
    BY <1>3, <1>a DEF EndJob, Dequeued, ResetJob, JobObjs, daemonVars
  <2>2. saved' = saved \/ saved' = StatusOf(job')
    BY <1>3 DEF EndJob
  <2> QED BY <2>1, <2>2, FlagsKept, FlagsWritten
<1>4. ASSUME NEW t \in Threads, Timeout(t) \/ Finish(t) PROVE SavedFlags'
  <2>1. CASE EndAgentJob(t) \/ Timeout(t)
    <3>1. /\ job'.asyncJob = job.asyncJob
          /\ job'.phase = job.phase /\ job'.apiFlags = job.apiFlags
          /\ UNCHANGED <<saved, recovery>>
      BY Zenon, <2>1, <1>a DEF EndAgentJob, Timeout, Dequeued, ResetAgentJob, JobObjs, daemonVars
    <3> QED BY <3>1, FlagsKept
  <2>2. CASE EndAsyncJob(t)
    BY <2>2, FlagsWritten DEF EndAsyncJob
  <2>3. CASE ExitMonitor(t)
    <3>1. EndJob(t) \/ UNCHANGED <<job, saved, recovery>>
      BY <2>3 DEF ExitMonitor, daemonVars
    <3> QED BY <1>3, <3>1, FlagsKept
  <2> QED BY <1>3, <1>4, <2>1, <2>2, <2>3 DEF Finish
<1>5. ASSUME NEW t \in Threads, Manage(t) PROVE SavedFlags'
  <2>1. CASE SetAsyncJobMask(t) \/ ReleaseAsyncJob(t) \/ ListRemove(t)
    <3>1. /\ job'.asyncJob = job.asyncJob
          /\ job'.phase = job.phase /\ job'.apiFlags = job.apiFlags
          /\ UNCHANGED <<saved, recovery>>
      BY <2>1, <1>a DEF SetAsyncJobMask, ReleaseAsyncJob, ListRemove, SetMask, JobObjs, daemonVars
    <3> QED BY <3>1, FlagsKept
  <2>2. ASSUME NEW p \in 0..PostcopyFailed,
               SetJobPhase(t, p) \/ StartJobPhase(t, p) \/ PrepareResumeRefused(t)
        PROVE  SavedFlags'
    <3>1. saved' = StatusOf(job') \/ UNCHANGED <<job, saved, recovery>>
      BY Zenon, <2>2 DEF SetJobPhase, StartJobPhase, PrepareResumeRefused, daemonVars
    <3> QED BY <3>1, FlagsKept, FlagsWritten
  <2>3. CASE BackupJobTerminate(t)
    BY <2>3, FlagsWritten DEF BackupJobTerminate
  <2>4. 0 \in 0..PostcopyFailed
    BY DomainJobAssumption DEF DomainJobAssumption
  <2> QED BY Zenon, <1>5, <2>1, <2>2, <2>3, <2>4 DEF Manage
<1>6. ASSUME NEW t \in Threads, Recover(t) PROVE SavedFlags'
  <2>1. CASE recovery' # "up"
    BY <2>1 DEF SavedFlags
  <2>2. CASE ReconnectDone(t)
    <3>1. job'.apiFlags = job.apiFlags
      BY <1>a, <2>2 DEF ReconnectDone, Dequeued, ResetJob, JobObjs
    <3> QED BY <2>2, <3>1, FlagsWritten DEF ReconnectDone
  <2>3. recovery' # "up" \/ ReconnectDone(t)
    <3>1. ReconnectError(t) => recovery' \in {"failed", "dropped"}
      BY Zenon, ReconnectErrorCases DEF Failure
    <3>2. Reconnect(t) => recovery' = "reconnect"
      BY Zenon DEF Reconnect
    <3>3. RecoverJob(t) => recovery' \in {"recovered", "completing"}
      BY Zenon DEF RecoverJob
    <3>4. CompleteRestoredJob(t) => recovery' = "recovered"
      BY Zenon DEF CompleteRestoredJob
    <3> QED BY <1>6, <3>1, <3>2, <3>3, <3>4 DEF Recover
  <2> QED BY <2>1, <2>2, <2>3
<1>7. CASE EventSaveStatus
  BY <1>7, FlagsWritten DEF EventSaveStatus
<1>8. CASE Crash
  BY <1>8 DEF Crash, SavedFlags
<1>9. CASE UNCHANGED vars
  BY <1>9, FlagsKept DEF vars
<1> QED BY <1>1, <1>2, <1>4, <1>5, <1>6, <1>7, <1>8, <1>9 DEF Next

\* On a domain that is being removed nobody gets a job that did not have one.
LEMMA RemovedStep ==
  ASSUME IInv, Next, removing, NEW t \in Threads, pc[t] # "hold"
  PROVE  /\ pc'[t] # "hold"
         /\ held'[t] # "none" => held[t] # "none" \/ job.asyncJob # "none"
<1>a. TypeOK /\ job \in JobObjs /\ RequestInv
      /\ pc \in [Threads -> PCs] /\ req \in [Threads -> Requests]
      /\ held \in [Threads -> AllAsyncJobs \cup {"none"}] /\ recovery # "down"
  BY DEF IInv, TypeOK, RecoveryInv
<1>1. ASSUME NEW u \in Threads, NEW r \in Requests, NEW label, NEW o \in JobObjs,
             BeginJobInternal(u, r, label, o)
      PROVE  pc'[t] # "hold" /\ held'[t] = held[t]
  BY <1>a, <1>1, BeginCases
<1>2. ASSUME NEW u \in Threads, Request(u) PROVE pc'[t] # "hold" /\ held'[t] = held[t]
  <2>1. PICK r \in Requests : BeginJobInternal(u, r, "retry", Queued(job))
    BY Zenon, <1>2, RequestStep DEF Begin
  <2>2. Queued(job) \in JobObjs
    BY <1>a, JobObjTypes
  <2> QED BY <1>1, <2>1, <2>2
<1>3. ASSUME NEW u \in Threads, Resume(u) PROVE pc'[t] # "hold" /\ held'[t] = held[t]
  <2>1. PICK label \in {"asyncLoop", "jobLoop"} : BeginJobInternal(u, req[u], label, job)
    BY <1>3 DEF Resume
  <2> QED BY <1>1, <1>a, <2>1
<1>4. ASSUME NEW u \in Threads, Timeout(u) \/ Finish(u)
      PROVE  pc'[t] # "hold" /\ (held'[t] # "none" => held[t] # "none")
  BY Zenon, <1>4, <1>a DEF Timeout, Finish, EndJob, ExitMonitor, EndAgentJob, EndAsyncJob, Broadcast
<1>5. ASSUME NEW u \in Threads, Manage(u)
      PROVE  /\ pc'[t] # "hold"
             /\ held'[t] # "none" => held[t] # "none" \/ job.asyncJob # "none"
  <2>1. pc' = pc \/ pc' = Broadcast(pc, "waitAsync", "wokenAsync")
    BY Zenon, <1>5 DEF Manage, SetAsyncJobMask, SetJobPhase, StartJobPhase, ReleaseAsyncJob,
                PrepareResumeRefused, BackupJobTerminate, ListRemove
  <2>2. \/ held' = held \/ held' = [held EXCEPT ![u] = "none"]
        \/ job.asyncJob \in MigrationJobs \/ job.asyncJob # "none"
    BY Zenon, <1>5 DEF Manage, SetAsyncJobMask, SetJobPhase, StartJobPhase, ReleaseAsyncJob,
                PrepareResumeRefused, BackupJobTerminate, ListRemove
  <2> QED BY <1>a, <2>1, <2>2 DEF Broadcast, MigrationJobs
<1>6. ASSUME NEW u \in Threads, Recover(u) PROVE pc'[t] # "hold" /\ held'[t] = held[t]
  <2>1. CASE ReconnectError(u)
    <3>1. PICK discard \in BOOLEAN : Failure(u, discard)
      BY <2>1, ReconnectErrorCases
    <3> QED BY <1>a, <3>1 DEF Failure, Broadcast
  <2>2. CASE RecoverJob(u) \/ CompleteRestoredJob(u) \/ ReconnectDone(u)
    BY Zenon, <1>a, <2>2 DEF RecoverJob, CompleteRestoredJob, ReconnectDone, Broadcast
  <2> QED BY Zenon, <1>6, <1>a, <2>1, <2>2 DEF Recover, Reconnect
<1>7. CASE EventSaveStatus \/ Crash
  BY <1>7 DEF EventSaveStatus, Crash
<1> QED BY <1>2, <1>3, <1>4, <1>5, <1>6, <1>7 DEF Next

(***************************************************************************)
(* The theorems.  The facts of the library about finite sets are needed    *)
(* only here: the lemmas above assume what they use of them.               *)
(***************************************************************************)

INSTANCE FiniteSetTheorems

\* Threads is finite, so the threads in a set can be counted.
LEMMA ThreadsCounted == CountsThreads
<1> SUFFICES ASSUME NEW S \in SUBSET Threads
             PROVE  /\ Cardinality(S) \in Nat
                    /\ S = {} => Cardinality(S) = 0
                    /\ \A t \in Threads : S = {t} => Cardinality(S) = 1
                    /\ \A t \in Threads \ S : Cardinality(S \cup {t}) = Cardinality(S) + 1
                    /\ \A t \in S : Cardinality(S \ {t}) = Cardinality(S) - 1
                    /\ \A T \in SUBSET S : Cardinality(T) <= Cardinality(S)
  BY DEF CountsThreads
<1>1. IsFiniteSet(S)
  BY DomainJobAssumption, FS_Subset DEF DomainJobAssumption
<1>2. Cardinality(S) \in Nat
  BY <1>1, FS_CardinalityType
<1>3. S = {} => Cardinality(S) = 0
  BY FS_EmptySet
<1>4. \A t \in Threads : S = {t} => Cardinality(S) = 1
  BY FS_Singleton
<1>5. \A t \in Threads \ S : Cardinality(S \cup {t}) = Cardinality(S) + 1
  BY <1>1, FS_AddElement
<1>6. \A t \in S : Cardinality(S \ {t}) = Cardinality(S) - 1
  BY <1>1, FS_RemoveElement
<1>7. \A T \in SUBSET S : Cardinality(T) <= Cardinality(S)
  BY <1>1, FS_Subset
<1> QED BY <1>2, <1>3, <1>4, <1>5, <1>6, <1>7

\* The job object, the status on disk and the threads' program counters always
\* have their types.
THEOREM TypeCorrect == Spec => []TypeOK
BY TypeInit, TypeStep, PTL DEF Spec

\* The inductive invariant holds in every reachable state.
THEOREM Invariant == Spec => []IInv
<1>1. Init => IInv
  BY InvInit, ThreadsCounted
<1>2. IInv /\ [Next]_vars => IInv'
  BY InvStep, ThreadsCounted
<1> QED BY <1>1, <1>2, PTL DEF Spec

\* At most one normal job and one agent job run at a time, and the owner in the
\* job object is the thread that runs it.
THEOREM ExclusiveJobs == Spec => []JobExclusive
<1>1. IInv => JobExclusive
  BY DEF IInv
<1> QED BY <1>1, Invariant, PTL

\* asyncOwner is a thread that runs the job, and each thread that runs a job it does
\* not own has had it taken, released or ended by another one: without such a
\* conflict there is one, the owner, from virDomainObjBeginAsyncJob to the end or
\* the release of the job.
THEOREM ExclusiveAsyncJobs == Spec => []AsyncExclusive
<1>1. IInv => AsyncExclusive
  BY DEF IInv
<1> QED BY <1>1, Invariant, PTL

\* jobsQueued is exact on every path through begin, wait, time-out, end, release,
\* crash and recovery, the errors of a reconnect included, but for one decrement too
\* many for each time that a job was taken, released or ended under its owner.
THEOREM CounterBounds == Spec => []QueueAccounting
<1>1. IInv => QueueAccounting
  BY DEF IInv
<1> QED BY <1>1, Invariant, PTL

\* Whoever sleeps on a condition variable of the job object has a reason to.
THEOREM NoWakeupLost == Spec => []NoLostWakeup
<1>1. IInv => NoLostWakeup
  BY DEF IInv
<1> QED BY <1>1, Invariant, PTL

\* The recovery of the job after a restart overwrites no job of another thread.
THEOREM SafeRecovery == Spec => []RecoveryUndisturbed
<1>1. IInv => RecoveryUndisturbed
  BY DEF IInv, RecoveryInv, JobExclusive, RecoveryUndisturbed
<1> QED BY <1>1, Invariant, PTL

\* The job part of the status XML and the mask are right in every state.
LEMMA StatusInvariant == Spec => []StatusInv
<1>1. Init => StatusInv
  BY DEF Init, StatusInv, MaskInv, PhaseInv, SavedStatus, DestroyNotMasked, NewJobObj,
         NoStatus, NoRequest, SavedPhase
<1> QED BY <1>1, Invariant, StatusStep, PTL DEF Spec

\* Outside of recovery the status XML names the asynchronous job, its phase and a
\* DESTROY job, although most ends and starts of jobs do not save it.
THEOREM StatusSaved == Spec => []SavedStatus
<1>1. StatusInv => SavedStatus
  BY DEF StatusInv
<1> QED BY <1>1, StatusInvariant, PTL

\* VIR_JOB_DESTROY "cannot be masked out": a DESTROY request never waits for the
\* end of an asynchronous job.
THEOREM DestroyAllowed == Spec => []DestroyNotMasked
<1>1. StatusInv => DestroyNotMasked
  BY DEF StatusInv
<1> QED BY <1>1, StatusInvariant, PTL

\* Once a migration has entered a phase, a restart finds in the status XML the API
\* flags it was started with, although virDomainObjBeginAsyncJob saves before it
\* sets them.
THEOREM FlagsSaved == Spec => []SavedFlags
<1>1. Init => SavedFlags
  BY DEF Init, SavedFlags, SavedPhase, NewJobObj
<1> QED BY <1>1, Invariant, StatusInvariant, FlagsStep, PTL DEF Spec

\* A thread that slept while the domain was removed never gets its job.
THEOREM RemovedStaysFree == Spec => NoJobOnRemoved
<1> DEFINE Quiet(t) == removing /\ pc[t] # "hold" =>
                         /\ pc'[t] # "hold"
                         /\ held'[t] # "none" => held[t] # "none" \/ job.asyncJob # "none"
           Kept == \A t \in Threads : Quiet(t)
<1>1. IInv /\ [Next]_vars => [Kept]_vars
  BY RemovedStep
<1> QED BY <1>1, Invariant, PTL DEF Spec, NoJobOnRemoved
=============================================================================
