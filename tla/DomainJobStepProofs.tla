------------------------ MODULE DomainJobStepProofs -------------------------
(***************************************************************************)
(* What one step of DomainJob keeps, for every set of threads, every limit *)
(* and every bound: types and the operations on the job object, beginning  *)
(* and ending a job.  DomainJobProofs adds the recovery and puts the steps *)
(* together.                                                               *)
(***************************************************************************)
EXTENDS DomainJob, TLAPS

(***************************************************************************)
(* The operations on the job object.                                       *)
(***************************************************************************)

\* The resets, the counter updates and the mask keep a job object well formed.
LEMMA JobObjTypes ==
  ASSUME NEW o \in JobObjs
  PROVE  /\ ResetJob(o) \in JobObjs
         /\ ResetAgentJob(o) \in JobObjs
         /\ ResetAsyncJob(o) \in JobObjs
         /\ Queued(o) \in JobObjs
         /\ Dequeued(o) \in JobObjs
         /\ \A m \in SUBSET NormalJobs : SetMask(o, m) \in JobObjs
<1> USE DomainJobAssumption DEF DomainJobAssumption, JobObjs, Owners
<1>1. ResetJob(o) \in JobObjs
  BY Zenon DEF ResetJob
<1>2. ResetAgentJob(o) \in JobObjs
  BY Zenon DEF ResetAgentJob
<1>3. ResetAsyncJob(o) \in JobObjs
  <2>1. DefaultMask \in SUBSET NormalJobs
    BY DEF DefaultMask, NormalJobs
  <2>2. 0 \in 0..PostcopyFailed /\ 0 \in Flags
    OBVIOUS
  <2> QED BY Zenon, <2>1, <2>2 DEF ResetAsyncJob
<1>4. Queued(o) \in JobObjs /\ Dequeued(o) \in JobObjs
  BY DEF Queued, Dequeued
<1>5. \A m \in SUBSET NormalJobs : SetMask(o, m) \in JobObjs
  BY DEF SetMask, NormalJobs
<1> QED BY <1>1, <1>2, <1>3, <1>4, <1>5

\* A request that is granted leaves a well-formed job object.
LEMMA GrantedType ==
  ASSUME NEW o \in JobObjs, NEW t \in Threads, NEW r \in Requests
  PROVE  Granted(o, t, r) \in JobObjs
<1> DEFINE p == ResetAsyncJob(ResetJob(o))
           q == ResetJob(o)
<1>0. q \in JobObjs /\ p \in JobObjs
  BY JobObjTypes
<1> HIDE DEF p, q
<1>1. [p EXCEPT !.asyncJob = r.asyncJob, !.asyncOwner = t] \in JobObjs
  BY ZenonT(60), <1>0 DEF JobObjs, Requests, Owners
<1>2. r.job \notin {"none", "async"} => [q EXCEPT !.active = r.job, !.owner = t] \in JobObjs
  BY Zenon, <1>0 DEF JobObjs, Requests, Owners
<1>3. ASSUME NEW u \in JobObjs, r.agentJob # "none"
      PROVE  [ResetAgentJob(u) EXCEPT !.agentActive = r.agentJob, !.agentOwner = t]
                \in JobObjs
  <2> DEFINE v == ResetAgentJob(u)
  <2>1. v \in JobObjs
    BY JobObjTypes
  <2> HIDE DEF v
  <2>2. [v EXCEPT !.agentActive = r.agentJob, !.agentOwner = t] \in JobObjs
    BY ZenonT(60), <2>1 DEF JobObjs, Requests, Owners
  <2> QED BY <2>2 DEF v
<1> QED BY Zenon, <1>1, <1>2, <1>3 DEF Granted, p, q

\* What is saved about a well-formed job object is a well-formed status.
LEMMA StatusType ==
  ASSUME NEW o \in JobObjs
  PROVE  StatusOf(o) \in Status
<1>1. SavedPhase(o) \in 0..PostcopyFailed
  BY DomainJobAssumption DEF DomainJobAssumption, SavedPhase, JobObjs
<1> QED BY <1>1 DEF StatusOf, Status, JobObjs, TrackJob, NormalJobs

\* A request is granted field by field: it sets the part it asks for and leaves
\* the other parts of the job object alone.
LEMMA GrantedFields ==
  ASSUME NEW o \in JobObjs, NEW t \in Threads, NEW r \in Requests,
         CanSetJob(o, r.job, r.agentJob)
  PROVE  LET g == Granted(o, t, r) IN
         /\ g.jobsQueued = o.jobsQueued
         /\ r.agentJob = "none" =>
              g.agentActive = o.agentActive /\ g.agentOwner = o.agentOwner
         /\ r.agentJob # "none" => g.agentActive = r.agentJob /\ g.agentOwner = t
         /\ r.job = "none" => g.active = o.active /\ g.owner = o.owner
         /\ r.job \notin {"none", "async"} => g.active = r.job /\ g.owner = t
         /\ r.job = "async" => /\ g.active = "none"
                              /\ g.asyncJob = r.asyncJob /\ g.asyncOwner = t
                              /\ g.phase = 0 /\ g.apiFlags = 0
         /\ r.job # "async" => /\ g.asyncJob = o.asyncJob /\ g.asyncOwner = o.asyncOwner
                              /\ g.phase = o.phase /\ g.apiFlags = o.apiFlags
                              /\ g.mask = o.mask
BY DEF Granted, ResetJob, ResetAsyncJob, ResetAgentJob, JobObjs, Requests

\* The four ways out of virDomainObjBeginJobInternal, with what is known then.
LEMMA BeginCases ==
  ASSUME NEW t \in Threads, NEW r \in Requests, NEW label, NEW o \in JobObjs,
         BeginJobInternal(t, r, label, o)
  PROVE  \/ /\ job' = Dequeued(o)
            /\ pc' = [pc EXCEPT ![t] = "idle"]
            /\ req' = [req EXCEPT ![t] = NoRequest]
            /\ saved' = saved /\ held' = held
         \/ /\ job' = o
            /\ \/ pc' = [pc EXCEPT ![t] = "waitJob"] /\ ~CanSetJob(o, r.job, r.agentJob)
               \/ pc' = [pc EXCEPT ![t] = "waitAsync"] /\ Blocked(o, r)
            /\ req' = [req EXCEPT ![t] = r]
            /\ saved' = saved /\ held' = held
         \/ /\ ~Blocked(o, r) /\ CanSetJob(o, r.job, r.agentJob) /\ ~removing
            /\ r.job # "async"
            /\ job' = Granted(o, t, r)
            /\ pc' = [pc EXCEPT ![t] = "hold"]
            /\ req' = [req EXCEPT ![t] = r]
            /\ saved' = IF TrackJob(r.job) THEN StatusOf(Granted(o, t, r)) ELSE saved
            /\ held' = held
         \/ /\ ~Blocked(o, r) /\ CanSetJob(o, r.job, r.agentJob) /\ ~removing
            /\ r.job = "async"
            /\ \E m \in SUBSET NormalJobs :
                 job' = [SetMask(Granted(o, t, r), m) EXCEPT !.apiFlags = r.apiFlags]
            /\ pc' = [pc EXCEPT ![t] = "idle"]
            /\ req' = [req EXCEPT ![t] = NoRequest]
            /\ saved' = StatusOf(Granted(o, t, r))
            /\ held' = [held EXCEPT ![t] = r.asyncJob]
<1> DEFINE out == Outcome(o, r, label)
<1>1. /\ out = "waitJob" => ~CanSetJob(o, r.job, r.agentJob)
      /\ out = "waitAsync" => Blocked(o, r)
      /\ out = "start" => ~Blocked(o, r) /\ CanSetJob(o, r.job, r.agentJob) /\ ~removing
  BY DEF Outcome
<1>2. \A a : InitialMasks(a) \subseteq SUBSET NormalJobs
  BY DEF InitialMasks, DefaultMask, NormalJobs
<1> HIDE DEF out
<1> QED BY <1>1, <1>2 DEF BeginJobInternal, out

(***************************************************************************)
(* Steps of the specification.                                             *)
(***************************************************************************)

\* Whatever a thread asks for, it runs virDomainObjBeginJobInternal from its
\* first line with a well-formed request.
LEMMA RequestStep ==
  ASSUME NEW t \in Threads, Request(t)
  PROVE  \E r \in Requests : /\ WellFormed(r)
                             /\ Begin(t, r)
<1> USE DomainJobAssumption DEF DomainJobAssumption
<1>1. ASSUME NEW j \in Jobs, BeginJob(t, j)
      PROVE  \E r \in Requests : WellFormed(r) /\ Begin(t, r)
  <2> DEFINE q == [NoRequest EXCEPT !.job = j]
  <2>1. q \in Requests /\ WellFormed(q)
    BY Zenon DEF NoRequest, Requests, WellFormed, NormalJobs
  <2> QED BY <2>1, <1>1 DEF BeginJob
<1>2. ASSUME BeginJobNowait(t, "query")
      PROVE  \E r \in Requests : WellFormed(r) /\ Begin(t, r)
  <2> DEFINE q == [NoRequest EXCEPT !.job = "query", !.nowait = TRUE]
  <2>1. q \in Requests /\ WellFormed(q)
    BY Zenon DEF NoRequest, Requests, WellFormed, NormalJobs
  <2> QED BY <2>1, <1>2 DEF BeginJobNowait
<1>3. ASSUME NEW a \in AgentJobs, BeginAgentJob(t, a)
      PROVE  \E r \in Requests : WellFormed(r) /\ Begin(t, r)
  <2> DEFINE q == [NoRequest EXCEPT !.agentJob = a]
  <2>1. q \in Requests /\ WellFormed(q)
    BY Zenon DEF NoRequest, Requests, WellFormed, AllAgentJobs
  <2> QED BY <2>1, <1>3 DEF BeginAgentJob
<1>4. ASSUME NEW a \in AsyncJobs, NEW f \in Flags, BeginAsyncJob(t, a, f)
      PROVE  \E r \in Requests : WellFormed(r) /\ Begin(t, r)
  <2> DEFINE q == [NoRequest EXCEPT !.job = "async", !.asyncJob = a, !.apiFlags = f]
  <2>1. q \in Requests /\ WellFormed(q)
    BY Zenon DEF NoRequest, Requests, WellFormed, AllAsyncJobs, MigrationJobs
  <2> QED BY <2>1, <1>4 DEF BeginAsyncJob
<1>5. ASSUME BeginNestedJob(t)
      PROVE  \E r \in Requests : WellFormed(r) /\ Begin(t, r)
  <2> DEFINE q == [NoRequest EXCEPT !.job = "async_nested"]
  <2>1. q \in Requests /\ WellFormed(q)
    BY Zenon DEF NoRequest, Requests, WellFormed
  <2> QED BY <2>1, <1>5 DEF BeginNestedJob
<1> QED BY <1>1, <1>2, <1>3, <1>4, <1>5 DEF Request

\* virDomainObjBeginJobInternal keeps every variable it changes well typed.
LEMMA BeginTypes ==
  ASSUME TypeOK, NEW t \in Threads, NEW r \in Requests, NEW label, NEW o \in JobObjs,
         BeginJobInternal(t, r, label, o)
  PROVE  /\ job' \in JobObjs /\ saved' \in Status
         /\ pc' \in [Threads -> PCs]
         /\ req' \in [Threads -> Requests]
         /\ held' \in [Threads -> AllAsyncJobs \cup {"none"}]
<1> DEFINE g == Granted(o, t, r)
<1>1. g \in JobObjs /\ StatusOf(g) \in Status /\ Dequeued(o) \in JobObjs
  BY GrantedType, StatusType, JobObjTypes
<1>2. \A m \in SUBSET NormalJobs : [SetMask(g, m) EXCEPT !.apiFlags = r.apiFlags] \in JobObjs
  <2> TAKE m \in SUBSET NormalJobs
  <2> DEFINE h == SetMask(g, m)
  <2>1. h \in JobObjs
    BY Zenon, <1>1, JobObjTypes
  <2> HIDE DEF h
  <2>2. [h EXCEPT !.apiFlags = r.apiFlags] \in JobObjs
    BY <2>1 DEF JobObjs, Requests
  <2> QED BY <2>2 DEF h
<1>3. NoRequest \in Requests
  BY DomainJobAssumption DEF DomainJobAssumption, NoRequest, Requests
<1> HIDE DEF g
<1>4. job' \in JobObjs /\ saved' \in Status
  BY BeginCases, <1>1, <1>2 DEF g, TypeOK
<1>5. pc' \in [Threads -> PCs]
  BY BeginCases DEF TypeOK, PCs
<1>6. req' \in [Threads -> Requests]
  BY BeginCases, <1>3 DEF TypeOK
<1>7. held' \in [Threads -> AllAsyncJobs \cup {"none"}]
  BY BeginCases DEF TypeOK, Requests
<1> QED BY <1>4, <1>5, <1>6, <1>7

\* What qemuProcessStop leaves of the job object when a reconnect fails.
Stopped(discard) ==
  IF discard THEN ResetAsyncJob(job)
  ELSE IF job.asyncJob = "backup" THEN Dequeued(ResetAsyncJob(job)) ELSE job

\* The failure of a reconnect that discards the restored migration or not.
Failure(t, discard) ==
  LET p == Broadcast([pc EXCEPT ![t] = "idle"], "waitJob", "wokenJob")
  IN /\ recovery \in {"reconnect", "completing", "recovered"} /\ t = recoverer
     /\ discard => job.asyncJob \in MigrationJobs
     /\ saved' = NoStatus
     /\ job' = Dequeued(ResetJob(Stopped(discard)))
     /\ \/ pc' = p /\ job.asyncJob # "backup"
        \/ pc' = Broadcast(p, "waitAsync", "wokenAsync") /\ job.asyncJob = "backup"
     /\ req' = [req EXCEPT ![t] = NoRequest]
     /\ removing' \in BOOLEAN
     /\ recovery' = IF discard THEN "dropped" ELSE "failed"
     /\ recoverer' = NoThread
     /\ Conflict((discard \/ job.asyncJob = "backup") /\ job.asyncOwner # NoThread)
     /\ UNCHANGED <<held, oldjob, crashes>>

\* A reconnect fails with the restored migration discarded or not.
LEMMA ReconnectErrorCases ==
  ASSUME NEW t \in Threads, ReconnectError(t)
  PROVE  \E discard \in BOOLEAN : Failure(t, discard)
BY Zenon DEF ReconnectError, Failure, Stopped

(***************************************************************************)
(* Type correctness.                                                       *)
(***************************************************************************)

\* Every step of every thread, of an event handler and of a crash keeps the
\* variables in their types.
LEMMA TypeStep == TypeOK /\ [Next]_vars => TypeOK'
<1> SUFFICES ASSUME TypeOK, [Next]_vars PROVE TypeOK'
  OBVIOUS
<1> USE DomainJobAssumption DEF DomainJobAssumption
<1>a. job \in JobObjs /\ StatusOf(job) \in Status
  BY StatusType DEF TypeOK
<1>b. NoRequest \in Requests /\ NoStatus \in Status
  BY DEF NoRequest, Requests, NoStatus, Status
<1>c. NewJobObj \in JobObjs
  BY DEF NewJobObj, JobObjs, Owners
<1>d. \A o \in JobObjs : /\ Dequeued(ResetJob(o)) \in JobObjs
                         /\ Dequeued(ResetAgentJob(o)) \in JobObjs
                         /\ Dequeued(ResetAsyncJob(o)) \in JobObjs
                         /\ Queued(ResetAsyncJob(ResetJob(o))) \in JobObjs
  BY JobObjTypes
<1>e. \A o \in JobObjs : /\ StatusOf(Dequeued(ResetJob(o))) \in Status
                         /\ StatusOf(Dequeued(ResetAsyncJob(o))) \in Status
  BY <1>d, StatusType
<1>f. \A p \in [Threads -> PCs] :
        /\ Broadcast(p, "waitJob", "wokenJob") \in [Threads -> PCs]
        /\ Broadcast(p, "waitAsync", "wokenAsync") \in [Threads -> PCs]
  BY DEF Broadcast, PCs
<1>g. \A t \in Threads : [pc EXCEPT ![t] = "idle"] \in [Threads -> PCs]
  BY DEF TypeOK, PCs
<1>h. PostcopyFailed \in 0..PostcopyFailed
  OBVIOUS
<1>1. ASSUME NEW t \in Threads, Request(t) PROVE TypeOK'
  <2>1. PICK r \in Requests : Begin(t, r)
    BY <1>1, RequestStep
  <2>2. Queued(job) \in JobObjs
    BY <1>a, JobObjTypes
  <2> QED BY <2>1, <2>2, BeginTypes DEF Begin, TypeOK, daemonVars
<1>2. ASSUME NEW t \in Threads, Resume(t) PROVE TypeOK'
  <2>1. req[t] \in Requests
    BY DEF TypeOK
  <2> QED BY <1>2, <2>1, <1>a, BeginTypes DEF Resume, TypeOK, daemonVars
<1>3. ASSUME NEW t \in Threads, Timeout(t) PROVE TypeOK'
  BY <1>3, <1>a, <1>b, <1>g, JobObjTypes DEF Timeout, TypeOK, daemonVars
<1>4. ASSUME NEW t \in Threads, EndJob(t) PROVE TypeOK'
  BY Zenon, <1>4, <1>a, <1>b, <1>d, <1>e, <1>f, <1>g DEF EndJob, TypeOK, daemonVars
<1>5. ASSUME NEW t \in Threads, Finish(t) PROVE TypeOK'
  <2>1. CASE EndJob(t)
    BY <2>1, <1>4
  <2>2. CASE ExitMonitor(t)
    BY <2>2, <1>4, <1>b, <1>g DEF ExitMonitor, TypeOK, daemonVars
  <2>3. CASE EndAgentJob(t)
    BY Zenon, <2>3, <1>a, <1>b, <1>d, <1>f, <1>g DEF EndAgentJob, TypeOK, daemonVars
  <2>4. CASE EndAsyncJob(t)
    BY Zenon, <2>4, <1>a, <1>d, <1>e, <1>f, <1>g DEF EndAsyncJob, TypeOK, daemonVars
  <2> QED BY <1>5, <2>1, <2>2, <2>3, <2>4 DEF Finish
<1>6. ASSUME NEW t \in Threads, Manage(t) PROVE TypeOK'
  <2>1. CASE SetAsyncJobMask(t)
    <3>1. \A a : LaterMasks(a) \subseteq SUBSET NormalJobs
      BY DEF LaterMasks, DefaultMask, NormalJobs
    <3> QED BY <2>1, <3>1, <1>a, JobObjTypes DEF SetAsyncJobMask, TypeOK, daemonVars
  <2>2. ASSUME NEW p \in 0..PostcopyFailed, SetJobPhase(t, p) PROVE TypeOK'
    <3>1. [job EXCEPT !.phase = p] \in JobObjs
      BY <1>a DEF JobObjs
    <3> QED BY <2>2, <3>1, StatusType DEF SetJobPhase, TypeOK, daemonVars
  <2>3. ASSUME NEW p \in 0..PostcopyFailed, StartJobPhase(t, p) PROVE TypeOK'
    <3>1. [job EXCEPT !.asyncOwner = t, !.phase = p] \in JobObjs
      BY Zenon, <1>a DEF JobObjs, Owners
    <3>2. job.asyncJob \in AllAsyncJobs \cup {"none"}
      BY <1>a DEF JobObjs
    <3>3. conflicts' \in 0..MaxConflicts
      BY <2>3 DEF StartJobPhase, Conflict, TypeOK
    <3>4. held' \in [Threads -> AllAsyncJobs \cup {"none"}]
      BY <2>3, <3>2 DEF StartJobPhase, TypeOK
    <3> QED BY Zenon, <2>3, <3>1, <3>3, <3>4, StatusType DEF StartJobPhase, TypeOK, recoveryVars
  <2>4. CASE ReleaseAsyncJob(t)
    <3>1. [job EXCEPT !.asyncOwner = NoThread] \in JobObjs
      BY <1>a DEF JobObjs, Owners
    <3> QED BY <2>4, <3>1 DEF ReleaseAsyncJob, TypeOK, daemonVars
  <2>5. CASE BackupJobTerminate(t)
    BY <2>5, <1>a, <1>d, <1>e, <1>f DEF BackupJobTerminate, TypeOK, daemonVars
  <2>6. CASE ListRemove(t)
    BY <2>6 DEF ListRemove, TypeOK, daemonVars
  <2>7. CASE PrepareResumeRefused(t)
    <3>1. [job EXCEPT !.asyncOwner = NoThread, !.phase = PostcopyFailed] \in JobObjs
      BY Zenon, <1>a, <1>h DEF JobObjs, Owners
    <3>2. conflicts' \in 0..MaxConflicts
      BY <2>7 DEF PrepareResumeRefused, Conflict, TypeOK
    <3> QED BY Zenon, <2>7, <3>1, <3>2, StatusType DEF PrepareResumeRefused, TypeOK, recoveryVars
  <2> QED BY Zenon, <1>6, <2>1, <2>2, <2>3, <2>4, <2>5, <2>6, <2>7 DEF Manage
<1>7. ASSUME NEW t \in Threads, Recover(t) PROVE TypeOK'
  <2>1. CASE Reconnect(t)
    <3>1. ParseJob(job) \in JobObjs
      BY Zenon, <1>a DEF ParseJob, JobObjs, TypeOK, Status, NormalJobs
    <3>2. [NoRequest EXCEPT !.job = "modify"] \in Requests
      BY Zenon DEF NoRequest, Requests, NormalJobs
    <3>3. StatusOf(ParseJob(job)) \in Status
      BY <3>1, StatusType
    <3> QED BY <2>1, <3>1, <3>2, <3>3, <1>d, BeginTypes DEF Reconnect, TypeOK, Owners, Recoveries
  <2>2. CASE RecoverJob(t)
    <3>1. ASSUME NEW a \in AllAsyncJobs, NEW p \in 0..PostcopyFailed, NEW f \in Flags
          PROVE  RestoreAsyncJob(job, a, p, f, RestoredMask(a)) \in JobObjs
      <4> DEFINE q == Queued(job)
                 o == [q EXCEPT !.asyncJob = a, !.phase = p, !.apiFlags = f]
      <4>0. q \in JobObjs
        BY <1>a, JobObjTypes
      <4> HIDE DEF q
      <4>1. o \in JobObjs
        BY Zenon, <4>0 DEF JobObjs
      <4>2. RestoredMask(a) \in SUBSET NormalJobs
        BY DEF RestoredMask, DefaultMask, NormalJobs
      <4> HIDE DEF o
      <4>3. SetMask(o, RestoredMask(a)) \in JobObjs
        BY <4>1, <4>2, JobObjTypes
      <4> QED BY <4>3 DEF RestoreAsyncJob, o, q
    <3>2. oldjob.phase \in 0..PostcopyFailed /\ oldjob.apiFlags \in Flags
      BY DEF TypeOK, Status
    <3>3. "backup" \in AllAsyncJobs /\ MigrationJobs \subseteq AllAsyncJobs
      BY DEF AllAsyncJobs
    <3>4. RestoreAsyncJob(job, "backup", 0, 0, RestoredMask("backup")) \in JobObjs
      BY <3>1, <3>3
    <3>5. oldjob.asyncJob \in MigrationJobs =>
            RestoreAsyncJob(job, oldjob.asyncJob, PostcopyFailed, oldjob.apiFlags,
                            RestoredMask(oldjob.asyncJob)) \in JobObjs
      BY Zenon, <3>1, <3>2, <3>3, <1>h
    <3>6. job' \in JobObjs
      BY Zenon, <2>2, <3>4, <3>5, <1>a DEF RecoverJob
    <3>7. recovery' \in Recoveries
      BY Zenon, <2>2 DEF RecoverJob, Recoveries
    <3> QED BY Zenon, <2>2, <3>6, <3>7 DEF RecoverJob, TypeOK
  <2>3. CASE ReconnectDone(t)
    BY Zenon, <2>3, <1>a, <1>b, <1>d, <1>f, <1>g DEF ReconnectDone, TypeOK, Owners, Recoveries
  <2>4. CASE ReconnectError(t)
    <3>1. PICK discard \in BOOLEAN : Failure(t, discard)
      BY <2>4, ReconnectErrorCases
    <3>2. \A o \in JobObjs : ResetAsyncJob(o) \in JobObjs
      BY JobObjTypes
    <3>3. job' \in JobObjs
      <4>1. Stopped(discard) \in JobObjs
        BY Zenon, <3>2, <1>a, <1>d DEF Stopped
      <4>2. job' = Dequeued(ResetJob(Stopped(discard)))
        BY <3>1 DEF Failure
      <4> QED BY Zenon, <4>1, <4>2, <1>d
    <3>4. pc' \in [Threads -> PCs]
      <4>1. Broadcast([pc EXCEPT ![t] = "idle"], "waitJob", "wokenJob") \in [Threads -> PCs]
        BY Zenon, <1>f, <1>g
      <4> QED BY Zenon, <3>1, <4>1, <1>f DEF Failure
    <3>5. conflicts' \in 0..MaxConflicts
      BY <3>1 DEF Failure, Conflict, TypeOK
    <3> QED BY Zenon, <3>1, <3>3, <3>4, <3>5, <1>b DEF Failure, TypeOK, Owners, Recoveries
  <2>5. CASE CompleteRestoredJob(t)
    <3>1. conflicts' \in 0..MaxConflicts
      BY <2>5 DEF CompleteRestoredJob, Conflict, TypeOK
    <3> QED BY Zenon, <2>5, <3>1, <1>a, <1>d, <1>e, <1>f
        DEF CompleteRestoredJob, TypeOK, Recoveries
  <2> QED BY Zenon, <1>7, <2>1, <2>2, <2>3, <2>4, <2>5 DEF Recover
<1>8. CASE EventSaveStatus
  BY <1>8, <1>a DEF EventSaveStatus, TypeOK, daemonVars
<1>9. CASE Crash
  BY <1>9, <1>b, <1>c DEF Crash, TypeOK, PCs, Owners, Recoveries
<1>10. CASE UNCHANGED vars
  BY <1>10 DEF vars, TypeOK
<1> QED BY <1>1, <1>2, <1>3, <1>5, <1>6, <1>7, <1>8, <1>9, <1>10 DEF Next

\* The initial job object, threads and status are well typed.
LEMMA TypeInit == Init => TypeOK
<1> USE DomainJobAssumption DEF DomainJobAssumption
<1>1. NewJobObj \in JobObjs
  BY DEF NewJobObj, JobObjs, Owners
<1>2. NoStatus \in Status /\ NoRequest \in Requests
  BY DEF NoStatus, Status, NoRequest, Requests
<1>3. 0 \in 0..MaxCrashes /\ 0 \in 0..MaxConflicts
  OBVIOUS
<1>4. \A x : \A S : x \in S => [t \in Threads |-> x] \in [Threads -> S]
  OBVIOUS
<1>5. "idle" \in PCs /\ NoThread \in Owners /\ "up" \in Recoveries
  BY DEF PCs, Owners, Recoveries
<1> HIDE DEF DomainJobAssumption
<1> QED BY <1>1, <1>2, <1>3, <1>4, <1>5, Zenon DEF Init, TypeOK

(***************************************************************************)
(* Mutual exclusion, the queue counter and wakeups.                        *)
(***************************************************************************)

\* What the lemmas use about the cardinality of a set of threads; ThreadsCounted
\* below proves it.
CountsThreads ==
  \A S \in SUBSET Threads :
    /\ Cardinality(S) \in Nat
    /\ S = {} => Cardinality(S) = 0
    /\ \A t \in Threads : S = {t} => Cardinality(S) = 1
    /\ \A t \in Threads \ S : Cardinality(S \cup {t}) = Cardinality(S) + 1
    /\ \A t \in S : Cardinality(S \ {t}) = Cardinality(S) - 1
    /\ \A T \in SUBSET S : Cardinality(T) <= Cardinality(S)

\* The number of threads in a set that grows by one thread at most, or loses one.
LEMMA Counting ==
  ASSUME CountsThreads, NEW S \in SUBSET Threads, NEW T \in SUBSET Threads
  PROVE  /\ Cardinality(S) \in Nat /\ Cardinality(T) \in Nat
         /\ T \subseteq S => Cardinality(T) <= Cardinality(S)
         /\ \A x \in Threads : T \subseteq S \cup {x} => Cardinality(T) <= Cardinality(S) + 1
         /\ \A t \in S : T \subseteq S \ {t} => Cardinality(T) <= Cardinality(S) - 1
         /\ \A t \in S, x \in Threads :
              T \subseteq (S \ {t}) \cup {x} => Cardinality(T) <= Cardinality(S)
         /\ \A t \in S : Cardinality(S) >= 1
<1>1. Cardinality(S) \in Nat /\ Cardinality(T) \in Nat
  BY Zenon DEF CountsThreads
<1>2. ASSUME NEW U \in SUBSET Threads, T \subseteq U
      PROVE  Cardinality(T) <= Cardinality(U)
  BY Zenon, <1>2 DEF CountsThreads
<1>3. ASSUME NEW U \in SUBSET Threads, NEW x \in Threads, T \subseteq U \cup {x}
      PROVE  Cardinality(T) <= Cardinality(U) + 1
  <2>1. Cardinality(U) \in Nat
    BY Zenon DEF CountsThreads
  <2>2. CASE x \in U
    <3>1. T \subseteq U
      BY <1>3, <2>2
    <3> QED BY <1>1, <1>2, <2>1, <3>1
  <2>3. CASE x \notin U
    <3>1. Cardinality(U \cup {x}) = Cardinality(U) + 1
      BY Zenon, <2>3 DEF CountsThreads
    <3>2. Cardinality(T) <= Cardinality(U \cup {x})
      BY Zenon, <1>2, <1>3
    <3> QED BY <3>1, <3>2
  <2> QED BY <2>2, <2>3
<1>4. ASSUME NEW t \in S
      PROVE  Cardinality(S \ {t}) = Cardinality(S) - 1 /\ Cardinality(S \ {t}) \in Nat
  BY Zenon DEF CountsThreads
<1>5. \A t \in S : T \subseteq S \ {t} => Cardinality(T) <= Cardinality(S) - 1
  <2> SUFFICES ASSUME NEW t \in S, T \subseteq S \ {t}
               PROVE  Cardinality(T) <= Cardinality(S) - 1
    OBVIOUS
  <2>1. Cardinality(T) <= Cardinality(S \ {t})
    BY Zenon, <1>2
  <2> QED BY <1>4, <2>1
<1>6. \A t \in S, x \in Threads :
        T \subseteq (S \ {t}) \cup {x} => Cardinality(T) <= Cardinality(S)
  <2> SUFFICES ASSUME NEW t \in S, NEW x \in Threads, T \subseteq (S \ {t}) \cup {x}
               PROVE  Cardinality(T) <= Cardinality(S)
    OBVIOUS
  <2>1. Cardinality(T) <= Cardinality(S \ {t}) + 1
    BY Zenon, <1>3
  <2> QED BY <1>1, <1>4, <2>1
<1>7. \A t \in S : Cardinality(S) >= 1
  <2> TAKE t \in S
  <2>1. Cardinality(S \ {t}) = Cardinality(S) - 1 /\ Cardinality(S \ {t}) \in Nat
    BY <1>4
  <2> QED BY <1>1, <2>1
<1> QED BY Zenon, <1>1, <1>2, <1>3, <1>5, <1>6, <1>7

\* When the other threads keep being idle or busy, the number of busy threads
\* changes with thread t alone.
LEMMA BusyCount ==
  ASSUME CountsThreads, pc \in [Threads -> PCs], pc' \in [Threads -> PCs], NEW t \in Threads,
         \A u \in Threads \ {t} : (pc'[u] = "idle") <=> (pc[u] = "idle")
  PROVE  /\ Cardinality(Busy) \in Nat
         /\ pc[t] = "idle" /\ pc'[t] # "idle" => Cardinality(Busy') = Cardinality(Busy) + 1
         /\ pc[t] # "idle" /\ pc'[t] = "idle" => Cardinality(Busy') = Cardinality(Busy) - 1
         /\ (pc[t] = "idle" <=> pc'[t] = "idle") => Busy' = Busy
<1>1. Busy \in SUBSET Threads
  BY DEF Busy
<1>2. Cardinality(Busy) \in Nat
  BY <1>1 DEF CountsThreads
<1>3. ASSUME pc[t] = "idle", pc'[t] # "idle"
      PROVE  Cardinality(Busy') = Cardinality(Busy) + 1
  <2>1. Busy' = Busy \cup {t} /\ t \notin Busy
    BY <1>3 DEF Busy
  <2> QED BY Zenon, <2>1, <1>1 DEF CountsThreads
<1>4. ASSUME pc[t] # "idle", pc'[t] = "idle"
      PROVE  Cardinality(Busy') = Cardinality(Busy) - 1
  <2>1. Busy' = Busy \ {t} /\ t \in Busy
    BY <1>4 DEF Busy
  <2> QED BY Zenon, <2>1, <1>1 DEF CountsThreads
<1>5. ASSUME pc[t] = "idle" <=> pc'[t] = "idle"
      PROVE  Busy' = Busy
  BY <1>5 DEF Busy
<1> QED BY <1>2, <1>3, <1>4, <1>5

\* A and B differ at most in jobsQueued and in the mask.
SameJobs(a, b) ==
  /\ a.active = b.active /\ a.owner = b.owner
  /\ a.agentActive = b.agentActive /\ a.agentOwner = b.agentOwner
  /\ a.asyncJob = b.asyncJob /\ a.asyncOwner = b.asyncOwner

\* The part of the invariant that talks about normal jobs, agent jobs and sleepers.
JobsInv == RequestInv /\ RecoveryInv /\ JobExclusive /\ NoLostWakeup

\* The part that talks about the owner of the asynchronous job and the counter.
OwnerRuns ==
  \A t \in Threads : job.asyncOwner = t =>
    held[t] # "none" /\ (conflicts = 0 => held[t] = job.asyncJob)
AsyncInv == OwnerInv /\ OwnerRuns /\ QueueAccounting

\* The number of the threads whose asynchronous job was taken from them follows
\* from the counter.
LEMMA InvParts ==
  ASSUME CountsThreads, TypeOK
  PROVE  IInv <=> JobsInv /\ AsyncInv
<1>1. Cardinality(Stale) \in Nat /\ Cardinality(Busy) \in Nat
  BY Zenon DEF CountsThreads, Stale, Busy
<1>2. Queue \in Int /\ job.jobsQueued \in Int /\ conflicts \in Int
  BY <1>1, DomainJobAssumption DEF Queue, TypeOK, JobObjs, DomainJobAssumption
<1>3. QueueAccounting => Cardinality(Stale) <= conflicts
  BY <1>1, <1>2 DEF QueueAccounting
<1> QED BY Zenon, <1>3 DEF IInv, JobsInv, AsyncInv, AsyncExclusive, OwnerRuns

\* A step that takes from jobsQueued what leaves the queue, or one more when one
\* thread less believes wrongly that it runs an asynchronous job.
LEMMA AccountKept ==
  ASSUME CountsThreads, TypeOK, TypeOK', QueueAccounting, NEW e \in {0, 1},
         job'.jobsQueued - job.jobsQueued = Queue' - Queue - e,
         Cardinality(Stale') - conflicts' <= Cardinality(Stale) - conflicts - e
  PROVE  QueueAccounting'
<1>1. /\ Cardinality(Stale) \in Nat /\ Cardinality(Busy) \in Nat
      /\ Cardinality(Stale') \in Nat /\ Cardinality(Busy') \in Nat
  BY Zenon DEF CountsThreads, Stale, Busy
<1>2. job.jobsQueued \in Int /\ job'.jobsQueued \in Int /\ conflicts \in Int /\ conflicts' \in Int
  BY DomainJobAssumption DEF TypeOK, JobObjs, DomainJobAssumption
<1>3. Queue \in Int /\ Queue' \in Int
  BY <1>1 DEF Queue
<1> QED BY <1>1, <1>2, <1>3 DEF QueueAccounting

\* A step that changes neither the asynchronous job nor who believes to run it, and
\* jobsQueued with the threads that wait for or hold a job.
LEMMA SameAsyncKeeps ==
  ASSUME CountsThreads, TypeOK, TypeOK', AsyncInv,
         job'.asyncJob = job.asyncJob, job'.asyncOwner = job.asyncOwner,
         held' = held, conflicts' = conflicts,
         (recovery' = "dropped") <=> (recovery = "dropped"),
         job'.jobsQueued - job.jobsQueued = Cardinality(Busy') - Cardinality(Busy)
  PROVE  AsyncInv'
<1>1. OwnerInv' /\ OwnerRuns'
  BY Zenon DEF AsyncInv, OwnerInv, OwnerRuns
<1>2. Stale' = Stale
  BY Zenon DEF Stale
<1>3. /\ Cardinality(Stale) \in Nat /\ Cardinality(Busy) \in Nat
      /\ Cardinality(Busy') \in Nat
  BY Zenon DEF CountsThreads, Stale, Busy
<1>4. job.jobsQueued \in Int /\ job'.jobsQueued \in Int /\ conflicts \in Int
  BY DomainJobAssumption DEF TypeOK, JobObjs, DomainJobAssumption
<1>5. job'.jobsQueued - job.jobsQueued = Queue' - Queue - 0
  BY <1>3, <1>4 DEF Queue
<1>6. Cardinality(Stale') - conflicts' <= Cardinality(Stale) - conflicts - 0
  BY <1>2, <1>3, <1>4
<1>7. QueueAccounting'
  BY <1>5, <1>6, AccountKept DEF AsyncInv
<1> QED BY <1>1, <1>7 DEF AsyncInv

\* A thread that starts or continues virDomainObjBeginJobInternal while it holds
\* no job keeps the invariants.
LEMMA BeginKeepsJobs ==
  ASSUME TypeOK, TypeOK', JobsInv,
         NEW t \in Threads, NEW r \in Requests, NEW label, NEW o \in JobObjs,
         WellFormed(r), pc[t] # "hold", recovery # "down", SameJobs(o, job),
         BeginJobInternal(t, r, label, o), UNCHANGED <<removing, daemonVars>>
  PROVE  JobsInv'
<1> DEFINE g == Granted(o, t, r)
<1>a. r.job # "none" \/ r.agentJob # "none"
  BY DEF WellFormed
<1>1. CASE /\ job' = Dequeued(o) \/ job' = o
           /\ pc'[t] \in {"idle", "waitJob", "waitAsync"}
           /\ pc' = [pc EXCEPT ![t] = pc'[t]]
           /\ req' = [req EXCEPT ![t] = req'[t]]
           /\ held' = held
           /\ pc'[t] = "idle" => req'[t] = NoRequest
           /\ pc'[t] # "idle" => req'[t] = r
           /\ pc'[t] = "waitJob" => ~CanSetJob(o, r.job, r.agentJob)
           /\ pc'[t] = "waitAsync" => Blocked(o, r)
  <2>1. SameJobs(job', job)
    BY <1>1 DEF SameJobs, Dequeued, JobObjs
  <2>2. RequestInv'
    BY <1>1 DEF JobsInv, RequestInv, TypeOK
  <2>3. RecoveryInv'
    BY <1>1, <2>1 DEF JobsInv, RecoveryInv, SameJobs, HoldsJob, TypeOK, daemonVars
  <2>4. JobExclusive'
    BY <1>1, <2>1 DEF JobsInv, JobExclusive, SameJobs, HoldsJob, HoldsAgentJob, TypeOK
  <2>5. NoLostWakeup'
    <3>1. \A u \in Threads \ {t} : pc'[u] = pc[u] /\ req'[u] = req[u]
      BY Zenon, <1>1 DEF TypeOK
    <3>2. job'.active = job.active /\ job'.agentActive = job.agentActive
          /\ job'.asyncJob = job.asyncJob /\ recovery' = recovery
      BY <2>1 DEF SameJobs, daemonVars
    <3>3. \A u \in Threads \ {t} :
            /\ pc'[u] = "waitJob" => ~CanSetJob(job', req'[u].job, req'[u].agentJob)
            /\ pc'[u] = "waitAsync" => job'.asyncJob # "none" \/ recovery' = "dropped"
      BY <3>1, <3>2 DEF JobsInv, NoLostWakeup, CanSetJob
    <3>4. pc'[t] = "waitJob" => ~CanSetJob(job', req'[t].job, req'[t].agentJob)
      BY <1>1, <3>2 DEF SameJobs, CanSetJob
    <3>5. pc'[t] = "waitAsync" => job'.asyncJob # "none"
      BY <1>1, <3>2 DEF SameJobs, Blocked, NestedJobAllowed
    <3> QED BY Zenon, <3>3, <3>4, <3>5 DEF NoLostWakeup
  <2> QED BY <2>2, <2>3, <2>4, <2>5 DEF JobsInv
<1>2. CASE /\ ~Blocked(o, r) /\ CanSetJob(o, r.job, r.agentJob) /\ ~removing
           /\ r.job # "async"
           /\ job' = g
           /\ pc' = [pc EXCEPT ![t] = "hold"]
           /\ req' = [req EXCEPT ![t] = r]
           /\ held' = held
  <2> HIDE DEF g
  <2>1. /\ r.agentJob = "none" => job'.agentActive = job.agentActive /\ job'.agentOwner = job.agentOwner
        /\ r.agentJob # "none" => job'.agentActive = r.agentJob /\ job'.agentOwner = t
        /\ r.job = "none" => job'.active = job.active /\ job'.owner = job.owner
        /\ r.job # "none" => job'.active = r.job /\ job'.owner = t
        /\ job'.asyncJob = job.asyncJob /\ job'.asyncOwner = job.asyncOwner
    BY <1>2, GrantedFields DEF g, SameJobs
  <2>2. /\ r.job = "none" \/ job.active = "none"
        /\ r.agentJob = "none" \/ job.agentActive = "none"
    BY <1>2 DEF CanSetJob, SameJobs
  <2>3. RequestInv'
    BY <1>2 DEF JobsInv, RequestInv, TypeOK
  <2>4. RecoveryInv'
    BY <1>2, <2>1 DEF JobsInv, RecoveryInv, HoldsJob, TypeOK, daemonVars
  <2>5. JobExclusive'
    <3>1. \A u \in Threads \ {t} : pc'[u] = pc[u] /\ req'[u] = req[u]
      BY <1>2 DEF TypeOK
    <3>2. pc'[t] = "hold" /\ req'[t] = r
      BY <1>2 DEF TypeOK
    <3>3. \A u \in Threads : HoldsJob(u) => job.active # "none"
      BY DEF JobsInv, JobExclusive, HoldsJob
    <3>4. \A u \in Threads : HoldsAgentJob(u) => job.agentActive # "none"
      BY DEF JobsInv, JobExclusive, HoldsAgentJob
    <3> QED BY <3>1, <3>2, <3>3, <3>4, <2>1, <2>2, <1>a
        DEF JobsInv, JobExclusive, HoldsJob, HoldsAgentJob, WellFormed
  <2>6. NoLostWakeup'
    <3>1. /\ pc'[t] = "hold"
          /\ \A u \in Threads \ {t} : pc'[u] = pc[u] /\ req'[u] = req[u]
      BY <1>2 DEF TypeOK
    <3>2. recovery' = recovery
      BY DEF daemonVars
    <3> QED BY <2>1, <2>2, <3>1, <3>2 DEF JobsInv, NoLostWakeup, CanSetJob
  <2> QED BY <2>3, <2>4, <2>5, <2>6 DEF JobsInv
<1>3. CASE /\ ~Blocked(o, r) /\ CanSetJob(o, r.job, r.agentJob) /\ ~removing
           /\ r.job = "async"
           /\ \E m \in SUBSET NormalJobs :
                job' = [SetMask(g, m) EXCEPT !.apiFlags = r.apiFlags]
           /\ pc' = [pc EXCEPT ![t] = "idle"]
           /\ req' = [req EXCEPT ![t] = NoRequest]
           /\ held' = [held EXCEPT ![t] = r.asyncJob]
  <2>0. g \in JobObjs
    BY GrantedType
  <2>1. r.agentJob = "none" /\ r.asyncJob # "none"
    BY <1>3 DEF WellFormed
  <2> HIDE DEF g
  <2>2. SameJobs(job', g)
    BY <1>3, <2>0 DEF SetMask, SameJobs, JobObjs
  <2>3. /\ job'.agentActive = job.agentActive /\ job'.agentOwner = job.agentOwner
        /\ job'.active = "none"
        /\ job'.asyncJob = r.asyncJob /\ job'.asyncOwner = t
    BY <1>3, <2>1, <2>2, GrantedFields DEF g, SameJobs
  <2>4. job.active = "none" /\ job.asyncJob = "none"
    <3>1. job.active = "none"
      BY <1>3 DEF CanSetJob, SameJobs
    <3>2. "async" \notin o.mask
      BY DEF JobObjs, NormalJobs
    <3> QED BY <1>3, <3>1, <3>2 DEF Blocked, Nested, NestedJobAllowed, SameJobs
  <2>5. RequestInv'
    BY <1>3 DEF JobsInv, RequestInv, TypeOK
  <2>6. RecoveryInv'
    <3>1. recovery \notin {"reconnect", "completing", "recovered"}
      BY <2>4 DEF JobsInv, RecoveryInv, JobExclusive, HoldsJob
    <3> QED BY <3>1 DEF JobsInv, RecoveryInv, daemonVars, TypeOK
  <2>7. JobExclusive'
    BY <1>3, <2>3, <2>4 DEF JobsInv, JobExclusive, HoldsJob, HoldsAgentJob, NoRequest, TypeOK
  <2>8. NoLostWakeup'
    BY <1>3, <2>1, <2>3, <2>4 DEF JobsInv, NoLostWakeup, CanSetJob, TypeOK
  <2> QED BY <2>5, <2>6, <2>7, <2>8 DEF JobsInv
<1> QED
  <2> HIDE DEF g
  <2> QED BY BeginCases, <1>1, <1>2, <1>3 DEF g, TypeOK

\* The step of a thread that gives the asynchronous job another owner, or none: the
\* former owner may go on without the job.
LEMMA StaleTaken ==
  ASSUME CountsThreads, TypeOK, NEW t \in Owners, job'.asyncOwner = t,
         \A u \in Threads : u # t => held'[u] = held[u]
  PROVE  /\ Cardinality(Stale') <= Cardinality(Stale) + 1
         /\ job.asyncOwner \in {NoThread, t} => Cardinality(Stale') <= Cardinality(Stale)
<1>1. Stale \in SUBSET Threads /\ Stale' \in SUBSET Threads
  BY Zenon DEF Stale
<1>2. Stale' \subseteq Stale \cup {job.asyncOwner}
  BY Zenon DEF Stale
<1>3. ASSUME job.asyncOwner \in {NoThread, t} PROVE Stale' \subseteq Stale
  BY Zenon, <1>3, DomainJobAssumption DEF Stale, DomainJobAssumption
<1>4. job.asyncOwner \in Threads \/ job.asyncOwner = NoThread
  BY Zenon DEF TypeOK, JobObjs, Owners
<1>5. /\ Cardinality(Stale) \in Nat /\ Cardinality(Stale') \in Nat
      /\ Stale' \subseteq Stale => Cardinality(Stale') <= Cardinality(Stale)
      /\ \A x \in Threads : Stale' \subseteq Stale \cup {x} => Cardinality(Stale') <= Cardinality(Stale) + 1
  BY Zenon, <1>1, Counting
<1>6. CASE job.asyncOwner \in {NoThread, t}
  BY <1>3, <1>5, <1>6
<1>7. CASE job.asyncOwner \notin {NoThread, t}
  BY Zenon, <1>2, <1>4, <1>5, <1>7
<1> QED BY <1>6, <1>7

\* The step of a thread that stops running an asynchronous job and leaves none an
\* owner: when the job was not its own, the owner takes its place.
LEMMA StaleLeft ==
  ASSUME CountsThreads, TypeOK, NEW t \in Threads, held[t] # "none",
         held' = [held EXCEPT ![t] = "none"], job'.asyncOwner = NoThread
  PROVE  /\ Cardinality(Stale') <= Cardinality(Stale)
         /\ job.asyncOwner = NoThread => Cardinality(Stale') <= Cardinality(Stale) - 1
<1>0. NoThread \notin Threads
  BY DomainJobAssumption DEF DomainJobAssumption
<1>1. Stale \in SUBSET Threads /\ Stale' \in SUBSET Threads
  BY Zenon DEF Stale
<1>2. held'[t] = "none" /\ \A u \in Threads \ {t} : held'[u] = held[u]
  BY DEF TypeOK
<1>3. job.asyncOwner = t => Stale' \subseteq Stale
  BY Zenon, <1>2 DEF Stale
<1>4. job.asyncOwner # t => t \in Stale /\ Stale' \subseteq (Stale \ {t}) \cup {job.asyncOwner}
  BY Zenon, <1>2 DEF Stale
<1>5. job.asyncOwner = NoThread => t \in Stale /\ Stale' \subseteq Stale \ {t}
  BY Zenon, <1>0, <1>2 DEF Stale
<1>6. job.asyncOwner \in Threads \/ job.asyncOwner = NoThread
  BY Zenon DEF TypeOK, JobObjs, Owners
<1>7. /\ Cardinality(Stale) \in Nat /\ Cardinality(Stale') \in Nat
      /\ Stale' \subseteq Stale => Cardinality(Stale') <= Cardinality(Stale)
      /\ Stale' \subseteq Stale \ {t} /\ t \in Stale =>
           Cardinality(Stale') <= Cardinality(Stale) - 1
      /\ \A x \in Threads : t \in Stale /\ Stale' \subseteq (Stale \ {t}) \cup {x} =>
           Cardinality(Stale') <= Cardinality(Stale)
  BY Zenon, <1>1, Counting
<1>8. CASE job.asyncOwner = t
  BY Zenon, <1>0, <1>3, <1>7, <1>8
<1>9. CASE job.asyncOwner = NoThread
  <2>1. Cardinality(Stale') <= Cardinality(Stale) - 1
    BY Zenon, <1>5, <1>7, <1>9
  <2> QED BY <1>7, <2>1
<1>10. CASE job.asyncOwner \in Threads \ {t}
  BY Zenon, <1>0, <1>4, <1>7, <1>10
<1> QED BY Zenon, <1>6, <1>8, <1>9, <1>10

\* A thread that starts or continues virDomainObjBeginJobInternal keeps the owner and
\* the counter in step, when o counts the request.
LEMMA BeginKeepsAsync ==
  ASSUME CountsThreads, TypeOK, TypeOK', AsyncInv,
         NEW t \in Threads, NEW r \in Requests, NEW label, NEW o \in JobObjs,
         WellFormed(r), SameJobs(o, job),
         o.jobsQueued = IF pc[t] = "idle" THEN job.jobsQueued + 1 ELSE job.jobsQueued,
         BeginJobInternal(t, r, label, o), UNCHANGED <<removing, daemonVars>>
  PROVE  AsyncInv'
<1> DEFINE g == Granted(o, t, r)
<1>0. job.jobsQueued \in Int /\ o.jobsQueued \in Int
  BY DEF TypeOK, JobObjs
<1>a. conflicts' = conflicts /\ recovery' = recovery
  BY DEF daemonVars
<1>1. \A u \in Threads \ {t} : pc'[u] = pc[u]
  BY BeginCases DEF TypeOK
<1>2. /\ Cardinality(Busy) \in Nat
      /\ pc[t] = "idle" /\ pc'[t] # "idle" => Cardinality(Busy') = Cardinality(Busy) + 1
      /\ pc[t] # "idle" /\ pc'[t] = "idle" => Cardinality(Busy') = Cardinality(Busy) - 1
      /\ (pc[t] = "idle" <=> pc'[t] = "idle") => Cardinality(Busy') = Cardinality(Busy)
  BY <1>1, BusyCount DEF TypeOK
<1>3. CASE job' = Dequeued(o) /\ pc' = [pc EXCEPT ![t] = "idle"] /\ held' = held
  <2>1. /\ job'.jobsQueued = o.jobsQueued - 1
        /\ job'.asyncJob = job.asyncJob /\ job'.asyncOwner = job.asyncOwner
    BY <1>3 DEF Dequeued, JobObjs, SameJobs
  <2>2. pc'[t] = "idle"
    BY <1>3 DEF TypeOK
  <2>3. job'.jobsQueued - job.jobsQueued = Cardinality(Busy') - Cardinality(Busy)
    BY <1>0, <1>2, <2>1, <2>2
  <2> QED BY Zenon, <1>3, <1>a, <2>1, <2>3, SameAsyncKeeps
<1>4. ASSUME job'.jobsQueued = o.jobsQueued, job'.asyncJob = job.asyncJob,
             job'.asyncOwner = job.asyncOwner, pc'[t] # "idle", held' = held
      PROVE  AsyncInv'
  <2>1. job'.jobsQueued - job.jobsQueued = Cardinality(Busy') - Cardinality(Busy)
    BY <1>0, <1>2, <1>4
  <2> QED BY Zenon, <1>4, <1>a, <2>1, SameAsyncKeeps
<1>5. CASE /\ ~Blocked(o, r) /\ CanSetJob(o, r.job, r.agentJob)
           /\ r.job = "async"
           /\ \E m \in SUBSET NormalJobs :
                job' = [SetMask(g, m) EXCEPT !.apiFlags = r.apiFlags]
           /\ pc' = [pc EXCEPT ![t] = "idle"]
           /\ held' = [held EXCEPT ![t] = r.asyncJob]
  <2>0. g \in JobObjs /\ r.asyncJob # "none"
    BY GrantedType, <1>5 DEF WellFormed
  <2>1. g.jobsQueued = o.jobsQueued /\ g.asyncJob = r.asyncJob /\ g.asyncOwner = t
    BY <1>5, GrantedFields
  <2>2. "async" \notin o.mask
    BY DEF JobObjs, NormalJobs
  <2>3. job.asyncJob = "none"
    BY <1>5, <2>2 DEF Blocked, Nested, NestedJobAllowed, SameJobs
  <2> HIDE DEF g
  <2>4. /\ job'.jobsQueued = o.jobsQueued /\ job'.asyncJob = r.asyncJob
        /\ job'.asyncOwner = t
    BY <1>5, <2>0, <2>1 DEF SetMask, JobObjs
  <2>5. pc'[t] = "idle"
    BY <1>5 DEF TypeOK
  <2>6. held'[t] = r.asyncJob /\ \A u \in Threads \ {t} : held'[u] = held[u]
    BY <1>5 DEF TypeOK
  <2>7. OwnerInv' /\ OwnerRuns'
    BY Zenon, <2>0, <2>4, <2>6 DEF OwnerInv, OwnerRuns
  <2>8. job.asyncOwner = NoThread
    BY <2>3 DEF AsyncInv, OwnerInv
  <2>9. Cardinality(Stale') <= Cardinality(Stale)
    <3>1. t \in Owners
      BY DEF Owners
    <3> QED BY Zenon, <2>4, <2>6, <2>8, <3>1, StaleTaken
  <2>10. Cardinality(Stale) \in Nat /\ Cardinality(Stale') \in Nat /\ conflicts \in Int
    BY DomainJobAssumption DEF CountsThreads, Stale, TypeOK, DomainJobAssumption
  <2>11. Cardinality(Busy') \in Nat
    BY Zenon DEF CountsThreads, Busy
  <2>12. Queue' - Queue = Cardinality(Busy') + 1 - Cardinality(Busy)
    BY <1>2, <1>a, <2>0, <2>3, <2>4, <2>11 DEF Queue
  <2>13. job'.jobsQueued - job.jobsQueued = Queue' - Queue - 0
    BY <1>0, <1>2, <2>4, <2>5, <2>11, <2>12
  <2>14. Cardinality(Stale') - conflicts' <= Cardinality(Stale) - conflicts - 0
    BY <1>a, <2>9, <2>10
  <2>15. QueueAccounting'
    BY <2>13, <2>14, AccountKept DEF AsyncInv
  <2> QED BY <2>7, <2>15 DEF AsyncInv
<1>6. CASE job' = o /\ pc'[t] \in {"waitJob", "waitAsync"} /\ held' = held
  BY <1>4, <1>6 DEF SameJobs
<1>7. CASE /\ job' = g /\ r.job # "async" /\ CanSetJob(o, r.job, r.agentJob)
           /\ pc'[t] = "hold" /\ held' = held
  <2>1. g.jobsQueued = o.jobsQueued /\ g.asyncJob = o.asyncJob /\ g.asyncOwner = o.asyncOwner
    BY <1>7, GrantedFields
  <2> HIDE DEF g
  <2> QED BY <1>4, <1>7, <2>1 DEF SameJobs
<1>8. \A x : pc' = [pc EXCEPT ![t] = x] => pc'[t] = x
  BY DEF TypeOK
<1>9. \/ job' = Dequeued(o) /\ pc' = [pc EXCEPT ![t] = "idle"] /\ held' = held
      \/ job' = o /\ pc'[t] \in {"waitJob", "waitAsync"} /\ held' = held
      \/ /\ job' = g /\ r.job # "async" /\ CanSetJob(o, r.job, r.agentJob)
         /\ pc'[t] = "hold" /\ held' = held
      \/ /\ ~Blocked(o, r) /\ CanSetJob(o, r.job, r.agentJob)
         /\ r.job = "async"
         /\ \E m \in SUBSET NormalJobs :
              job' = [SetMask(g, m) EXCEPT !.apiFlags = r.apiFlags]
         /\ pc' = [pc EXCEPT ![t] = "idle"]
         /\ held' = [held EXCEPT ![t] = r.asyncJob]
  <2> HIDE DEF g
  <2> QED BY BeginCases, <1>8 DEF g
<1> QED BY Zenon, <1>3, <1>5, <1>6, <1>7, <1>9

(***************************************************************************)
(* The ends of jobs.                                                       *)
(***************************************************************************)

\* What the three kinds of end leave of the job object.
LEMMA EndFields ==
  ASSUME NEW o \in JobObjs
  PROVE  LET n == Dequeued(ResetJob(o))
             a == Dequeued(ResetAgentJob(o))
             y == Dequeued(ResetAsyncJob(o))
         IN /\ n.active = "none" /\ n.owner = NoThread
            /\ n.agentActive = o.agentActive /\ n.agentOwner = o.agentOwner
            /\ n.asyncJob = o.asyncJob /\ n.asyncOwner = o.asyncOwner
            /\ n.jobsQueued = o.jobsQueued - 1
            /\ a.active = o.active /\ a.owner = o.owner
            /\ a.agentActive = "none" /\ a.agentOwner = NoThread
            /\ a.asyncJob = o.asyncJob /\ a.asyncOwner = o.asyncOwner
            /\ a.jobsQueued = o.jobsQueued - 1
            /\ y.active = o.active /\ y.owner = o.owner
            /\ y.agentActive = o.agentActive /\ y.agentOwner = o.agentOwner
            /\ y.asyncJob = "none" /\ y.asyncOwner = NoThread
            /\ y.jobsQueued = o.jobsQueued - 1
BY DEF Dequeued, ResetJob, ResetAgentJob, ResetAsyncJob, JobObjs

\* The end of a normal job by the thread that holds it, a recovery included.
LEMMA EndJobKeeps ==
  ASSUME CountsThreads, TypeOK, TypeOK', JobsInv, AsyncInv, NEW t \in Threads,
         HoldsJob(t),
         job' = Dequeued(ResetJob(job)),
         pc' = Broadcast([pc EXCEPT ![t] = "idle"], "waitJob", "wokenJob"),
         req' = [req EXCEPT ![t] = NoRequest],
         held' = held,
         \/ t # recoverer /\ UNCHANGED <<removing, daemonVars>>
         \/ /\ recovery = "recovered" /\ recovery' = "up" /\ recoverer' = NoThread
            /\ conflicts' = conflicts
  PROVE  JobsInv' /\ AsyncInv'
<1>1. /\ job'.active = "none" /\ job'.owner = NoThread
      /\ job'.agentActive = job.agentActive /\ job'.agentOwner = job.agentOwner
      /\ job'.asyncJob = job.asyncJob /\ job'.asyncOwner = job.asyncOwner
      /\ job'.jobsQueued = job.jobsQueued - 1
  BY EndFields DEF TypeOK
<1>2. /\ pc'[t] = "idle" /\ req'[t] = NoRequest
      /\ \A u \in Threads \ {t} :
           /\ pc'[u] = IF pc[u] = "waitJob" THEN "wokenJob" ELSE pc[u]
           /\ req'[u] = req[u]
  BY DEF Broadcast, TypeOK
<1>3. RequestInv'
  BY Zenon, <1>2 DEF JobsInv, RequestInv
<1>4. \A u \in Threads : HoldsJob(u) => u = t
  BY DEF JobsInv, JobExclusive
<1>5. JobExclusive'
  <2>1. ~HoldsAgentJob(t)
    BY DEF JobsInv, RequestInv, HoldsJob, HoldsAgentJob, WellFormed
  <2>2. \A u \in Threads : HoldsAgentJob(u)' <=> HoldsAgentJob(u)
    BY Zenon, <1>2, <2>1 DEF HoldsAgentJob, NoRequest
  <2>3. \A u \in Threads : ~HoldsJob(u)'
    BY Zenon, <1>2, <1>4 DEF HoldsJob, NoRequest
  <2>4. \A u \in Threads : HoldsAgentJob(u) => req'[u] = req[u]
    BY <1>2, <2>1
  <2> QED BY <1>1, <2>2, <2>3, <2>4 DEF JobsInv, JobExclusive
<1>6. conflicts' = conflicts /\ ((recovery' = "dropped") <=> (recovery = "dropped"))
  BY DEF daemonVars
<1>7. NoLostWakeup'
  <2>1. \A u \in Threads : pc'[u] # "waitJob"
    BY Zenon, <1>2
  <2>2. \A u \in Threads : pc'[u] = "waitAsync" => pc[u] = "waitAsync"
    BY Zenon, <1>2
  <2> QED BY Zenon, <1>1, <1>6, <2>1, <2>2 DEF JobsInv, NoLostWakeup
<1>8. RecoveryInv'
  <2>1. CASE t # recoverer /\ UNCHANGED <<removing, daemonVars>>
    <3>1. recovery \notin {"down", "reconnect", "completing", "recovered"}
      BY <1>4, <2>1 DEF JobsInv, RecoveryInv, HoldsJob
    <3> QED BY <2>1, <3>1 DEF JobsInv, RecoveryInv, daemonVars, TypeOK
  <2>2. CASE recovery' = "up" /\ recoverer' = NoThread
    BY <2>2 DEF RecoveryInv
  <2> QED BY <2>1, <2>2
<1>9. AsyncInv'
  <2>1. pc[t] # "idle"
    BY DEF HoldsJob
  <2>2. \A u \in Threads \ {t} : (pc'[u] = "idle") <=> (pc[u] = "idle")
    BY Zenon, <1>2
  <2>3. Cardinality(Busy) \in Nat /\ Cardinality(Busy') = Cardinality(Busy) - 1
    BY Zenon, <1>2, <2>1, <2>2, BusyCount DEF TypeOK
  <2>4. job'.jobsQueued - job.jobsQueued = Cardinality(Busy') - Cardinality(Busy)
    BY <1>1, <2>3 DEF TypeOK, JobObjs
  <2> QED BY Zenon, <1>1, <1>6, <2>4, SameAsyncKeeps
<1> QED BY <1>3, <1>5, <1>7, <1>8, <1>9 DEF JobsInv

\* The end of an asynchronous job, by the thread that believes to run it, by the
\* thread that ends a backup nobody runs or by the recovery.
LEMMA EndAsyncKeeps ==
  ASSUME TypeOK, TypeOK', JobsInv, recovery # "down",
         job' = Dequeued(ResetAsyncJob(job)),
         pc' = Broadcast(pc, "waitAsync", "wokenAsync"),
         UNCHANGED <<req, recoverer>>,
         \A u \in Threads : held[u] = "none" => held'[u] = "none",
         recovery' = recovery \/ (recovery = "completing" /\ recovery' = "recovered")
  PROVE  JobsInv'
<1>1. /\ job'.active = job.active /\ job'.owner = job.owner
      /\ job'.agentActive = job.agentActive /\ job'.agentOwner = job.agentOwner
      /\ job'.asyncJob = "none"
  BY EndFields DEF TypeOK
<1>2. \A u \in Threads : pc'[u] = IF pc[u] = "waitAsync" THEN "wokenAsync" ELSE pc[u]
  BY DEF Broadcast
<1>3. RequestInv'
  BY <1>2 DEF JobsInv, RequestInv
<1>4. \A u \in Threads : (HoldsJob(u)' <=> HoldsJob(u)) /\ (HoldsAgentJob(u)' <=> HoldsAgentJob(u))
  BY Zenon, <1>2 DEF HoldsJob, HoldsAgentJob
<1>5. JobExclusive'
  BY Zenon, <1>1, <1>4 DEF JobsInv, JobExclusive
<1>6. NoLostWakeup'
  BY <1>1, <1>2 DEF JobsInv, NoLostWakeup, CanSetJob
<1>7. RecoveryInv'
  BY Zenon, <1>1, <1>4 DEF JobsInv, RecoveryInv
<1> QED BY <1>3, <1>5, <1>6, <1>7 DEF JobsInv

\* It takes the job from jobsQueued; when there is none any more, a thread less
\* believes to run it, or a conflict is counted.
LEMMA EndAsyncAccount ==
  ASSUME CountsThreads, TypeOK, TypeOK', AsyncInv,
         job' = Dequeued(ResetAsyncJob(job)), Busy' = Busy,
         (recovery' = "dropped") <=> (recovery = "dropped"),
         Cardinality(Stale') - conflicts' <= Cardinality(Stale) - conflicts,
         job.asyncJob = "none" =>
           Cardinality(Stale') - conflicts' <= Cardinality(Stale) - conflicts - 1
  PROVE  AsyncInv'
<1>1. /\ job'.asyncJob = "none" /\ job'.asyncOwner = NoThread
      /\ job'.jobsQueued = job.jobsQueued - 1
  BY EndFields DEF TypeOK
<1>2. OwnerInv' /\ OwnerRuns'
  BY <1>1, DomainJobAssumption DEF OwnerInv, OwnerRuns, DomainJobAssumption
<1>3. Cardinality(Busy) \in Nat /\ job.jobsQueued \in Int
  BY DEF CountsThreads, Busy, TypeOK, JobObjs
<1>4. /\ Cardinality(Stale) \in Nat /\ Cardinality(Stale') \in Nat
      /\ conflicts \in Int /\ conflicts' \in Int
  BY DomainJobAssumption DEF CountsThreads, Stale, TypeOK, DomainJobAssumption
<1>5. CASE job.asyncJob = "none"
  <2>1. job'.jobsQueued - job.jobsQueued = Queue' - Queue - 1
    BY <1>1, <1>3, <1>5 DEF Queue
  <2>2. QueueAccounting'
    BY <1>5, <2>1, AccountKept DEF AsyncInv
  <2> QED BY <1>2, <2>2 DEF AsyncInv
<1>6. CASE job.asyncJob # "none"
  <2>1. job'.jobsQueued - job.jobsQueued = Queue' - Queue - 0
    BY <1>1, <1>3, <1>6 DEF Queue
  <2>2. Cardinality(Stale') - conflicts' <= Cardinality(Stale) - conflicts - 0
    BY <1>4
  <2>3. QueueAccounting'
    BY <2>1, <2>2, AccountKept DEF AsyncInv
  <2> QED BY <1>2, <2>3 DEF AsyncInv
<1> QED BY <1>5, <1>6

\* A step that changes nothing of the normal and agent jobs.
LEMMA NormalJobsKeep ==
  ASSUME TypeOK, JobsInv, recovery # "down",
         job'.active = job.active, job'.owner = job.owner,
         job'.agentActive = job.agentActive, job'.agentOwner = job.agentOwner,
         job'.asyncJob = job.asyncJob,
         \A u \in Threads : held[u] = "none" => held'[u] = "none" \/ job.asyncJob # "none",
         UNCHANGED <<pc, req, recovery, recoverer>>
  PROVE  JobsInv'
<1>1. \A u \in Threads : (HoldsJob(u)' <=> HoldsJob(u)) /\ (HoldsAgentJob(u)' <=> HoldsAgentJob(u))
  BY Zenon DEF HoldsJob, HoldsAgentJob
<1>2. RequestInv' /\ RecoveryInv'
  BY Zenon, <1>1 DEF JobsInv, RequestInv, RecoveryInv
<1>3. JobExclusive'
  BY Zenon, <1>1 DEF JobsInv, JobExclusive
<1>4. NoLostWakeup'
  BY Zenon DEF JobsInv, NoLostWakeup, CanSetJob
<1> QED BY <1>2, <1>3, <1>4 DEF JobsInv

\* The asynchronous job gets another owner, or none.
OwnerChange(t) ==
  /\ job'.active = job.active /\ job'.owner = job.owner
  /\ job'.agentActive = job.agentActive /\ job'.agentOwner = job.agentOwner
  /\ job'.asyncJob = job.asyncJob /\ job'.jobsQueued = job.jobsQueued
  /\ job'.asyncOwner = t

\* That is no matter for the counter, if the former owner is accounted for.
LEMMA OwnerChangeKeeps ==
  ASSUME CountsThreads, TypeOK, TypeOK', JobsInv, AsyncInv, recovery # "down",
         NEW t \in Owners, OwnerChange(t), t = NoThread \/ job.asyncJob # "none",
         \A u \in Threads : held[u] = "none" => held'[u] = "none" \/ job.asyncJob # "none",
         UNCHANGED <<pc, req, recovery, recoverer>>, OwnerRuns',
         Cardinality(Stale') - conflicts' <= Cardinality(Stale) - conflicts
  PROVE  JobsInv' /\ AsyncInv'
<1>1. JobsInv'
  BY Zenon, NormalJobsKeep DEF OwnerChange
<1>2. OwnerInv'
  BY DEF OwnerInv, OwnerChange
<1>3. Queue' = Queue
  BY Zenon DEF Queue, Busy, OwnerChange
<1>4. /\ Cardinality(Stale) \in Nat /\ Cardinality(Stale') \in Nat /\ Cardinality(Busy) \in Nat
      /\ conflicts \in Int /\ conflicts' \in Int /\ job.jobsQueued \in Int
  BY DomainJobAssumption DEF CountsThreads, Stale, Busy, TypeOK, JobObjs, DomainJobAssumption
<1>5. Queue \in Int
  BY <1>4 DEF Queue
<1>6. job'.jobsQueued - job.jobsQueued = Queue' - Queue - 0
  BY <1>3, <1>4, <1>5 DEF OwnerChange
<1>7. Cardinality(Stale') - conflicts' <= Cardinality(Stale) - conflicts - 0
  BY <1>4
<1>8. QueueAccounting'
  BY <1>6, <1>7, AccountKept DEF AsyncInv
<1> QED BY <1>1, <1>2, <1>8 DEF AsyncInv

\* A step that only changes the mask, the phase or the flags of the job object.
LEMMA SameJobsKeeps ==
  ASSUME CountsThreads, TypeOK, TypeOK', JobsInv, AsyncInv, recovery # "down",
         SameJobs(job', job), job'.jobsQueued = job.jobsQueued,
         UNCHANGED <<pc, req, held, recovery, recoverer, conflicts>>
  PROVE  JobsInv' /\ AsyncInv'
<1>1. JobsInv'
  BY Zenon, NormalJobsKeep DEF SameJobs
<1>2. Busy' = Busy
  BY DEF Busy
<1>3. Cardinality(Busy) \in Nat /\ job.jobsQueued \in Int
  BY DEF CountsThreads, Busy, TypeOK, JobObjs
<1>4. job'.jobsQueued - job.jobsQueued = Cardinality(Busy') - Cardinality(Busy)
  BY <1>2, <1>3
<1>5. AsyncInv'
  BY Zenon, <1>4, SameAsyncKeeps DEF SameJobs
<1> QED BY <1>1, <1>5

\* The end of an agent job.
LEMMA EndAgentKeeps ==
  ASSUME CountsThreads, TypeOK, TypeOK', JobsInv, AsyncInv, NEW t \in Threads, EndAgentJob(t)
  PROVE  JobsInv' /\ AsyncInv'
<1>1. /\ job'.active = job.active /\ job'.owner = job.owner
      /\ job'.agentActive = "none"
      /\ job'.asyncJob = job.asyncJob /\ job'.asyncOwner = job.asyncOwner
      /\ job'.jobsQueued = job.jobsQueued - 1
  BY EndFields DEF TypeOK, EndAgentJob
<1>2. /\ pc'[t] = "idle" /\ req'[t] = NoRequest
      /\ \A u \in Threads \ {t} :
           /\ pc'[u] = IF pc[u] = "waitJob" THEN "wokenJob" ELSE pc[u]
           /\ req'[u] = req[u]
  BY DEF EndAgentJob, Broadcast, TypeOK
<1>3. RequestInv'
  BY Zenon, <1>2 DEF JobsInv, RequestInv
<1>4. \A u \in Threads : HoldsAgentJob(u) => u = t
  BY DEF EndAgentJob, JobsInv, JobExclusive
<1>5. ~HoldsJob(t)
  BY DEF EndAgentJob, JobsInv, RequestInv, HoldsJob, HoldsAgentJob, WellFormed
<1>6. \A u \in Threads : HoldsJob(u)' <=> HoldsJob(u)
  BY <1>2, <1>5 DEF HoldsJob, NoRequest
<1>7. JobExclusive'
  <2>1. \A u \in Threads : ~HoldsAgentJob(u)'
    BY <1>2, <1>4 DEF HoldsAgentJob, NoRequest
  <2>2. \A u \in Threads : HoldsJob(u) => req'[u] = req[u]
    BY <1>2, <1>5
  <2> QED BY <1>1, <1>6, <2>1, <2>2 DEF JobsInv, JobExclusive
<1>8. UNCHANGED <<held, recovery, recoverer, conflicts>>
  BY DEF EndAgentJob, daemonVars
<1>9. NoLostWakeup'
  <2>1. \A u \in Threads : pc'[u] # "waitJob" /\ (pc'[u] = "waitAsync" => pc[u] = "waitAsync")
    BY Zenon, <1>2
  <2> QED BY Zenon, <1>1, <1>8, <2>1 DEF JobsInv, NoLostWakeup
<1>10. RecoveryInv'
  <2>1. recovery # "down"
    BY DEF JobsInv, RecoveryInv, EndAgentJob, HoldsAgentJob
  <2> QED BY Zenon, <1>1, <1>2, <1>5, <1>6, <1>8, <2>1 DEF JobsInv, RecoveryInv
<1>11. AsyncInv'
  <2>1. pc[t] # "idle"
    BY DEF EndAgentJob, HoldsAgentJob
  <2>2. \A u \in Threads \ {t} : (pc'[u] = "idle") <=> (pc[u] = "idle")
    BY <1>2
  <2>3. Cardinality(Busy) \in Nat /\ Cardinality(Busy') = Cardinality(Busy) - 1
    BY <1>2, <2>1, <2>2, BusyCount DEF TypeOK
  <2>4. job'.jobsQueued - job.jobsQueued = Cardinality(Busy') - Cardinality(Busy)
    BY <1>1, <2>3 DEF TypeOK, JobObjs
  <2> QED BY Zenon, <1>1, <1>8, <2>4, SameAsyncKeeps
<1> QED BY <1>3, <1>7, <1>9, <1>10, <1>11 DEF JobsInv

=============================================================================
