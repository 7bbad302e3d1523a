----------------------------- MODULE DomainJob -----------------------------
(***************************************************************************)
(* The job conditions of one virDomainObj: virdomainjob.c (begin, wait,    *)
(* end) together with the parts of the QEMU driver that change the job     *)
(* object outside of it (qemu_domainjob.c, the migration and backup jobs,  *)
(* recovery after a daemon restart).                                       *)
(*                                                                         *)
(* The virDomainObj lock is held between two waits, so one action is one   *)
(* region of code that runs with the lock held.  A thread inside           *)
(* virDomainObjBeginJobInternal is asleep on job->cond or job->asyncCond,  *)
(* or has been woken and not yet got the lock back.                        *)
(***************************************************************************)
EXTENDS Integers, FiniteSets

CONSTANTS
  Threads,       \* daemon threads that use the domain
  NoThread,      \* the owner id 0
  Jobs,          \* the normal jobs requested, a subset of NormalJobs
  AgentJobs,     \* the agent jobs requested
  AsyncJobs,     \* the asynchronous jobs requested, a subset of AllAsyncJobs
  Flags,         \* API flags of an asynchronous job: naturals, 0 included
  PostcopyFailed,\* the last migration phase, QEMU_MIGRATION_PHASE_POSTCOPY_FAILED
  MaxQueuedJobs, \* max_queued of qemu.conf, 0 = no limit
  MaxCrashes,    \* bound on daemon crashes
  MaxConflicts   \* bound on asynchronous jobs taken from a thread that runs one

NormalJobs == {"query", "destroy", "suspend", "modify", "abort",
               "migration_op", "modify_migration_safe"}
MigrationJobs == {"migration_out", "migration_in"}
AllAsyncJobs == MigrationJobs \cup {"save", "dump", "snapshot", "start", "backup"}
AllAgentJobs == {"query", "modify"}

ASSUME DomainJobAssumption ==
  /\ NoThread \notin Threads
  /\ IsFiniteSet(Threads)
  /\ Jobs \subseteq NormalJobs
  /\ AgentJobs \subseteq AllAgentJobs
  /\ AsyncJobs \subseteq AllAsyncJobs
  /\ Flags \subseteq Nat /\ 0 \in Flags
  /\ PostcopyFailed \in Nat
  /\ MaxQueuedJobs \in Nat
  /\ MaxCrashes \in Nat
  /\ MaxConflicts \in Nat

VARIABLES
  job,       \* vm->job, the virDomainJobObj
  removing,  \* obj->removing
  saved,     \* the job part of the status XML on disk
  pc,        \* where each thread is, see PCs
  req,       \* the arguments of each thread's virDomainObjBeginJobInternal
  held,      \* the asynchronous job each thread is running, "none" if none
  recovery,  \* the daemon, see Recoveries
  recoverer, \* the thread in qemuProcessReconnect
  oldjob,    \* its copy of the job the previous daemon left
  crashes,   \* daemon crashes so far
  conflicts  \* history: jobs taken from, or ended under, a thread that runs them

vars == <<job, removing, saved, pc, req, held, recovery, recoverer, oldjob, crashes,
          conflicts>>
recoveryVars == <<recovery, recoverer, oldjob, crashes>>
daemonVars == <<recovery, recoverer, oldjob, crashes, conflicts>>

PCs == {"idle", "waitAsync", "wokenAsync", "waitJob", "wokenJob", "hold"}

\* Of the daemon: "completing" ends the restored job of a migration that is over;
\* when it could not reconnect, "failed", or "dropped" if it had restored a
\* migration by then, the domain is not running any more.
Recoveries == {"up", "down", "reconnect", "completing", "recovered", "failed", "dropped"}

Owners == Threads \cup {NoThread}

JobObjs == [active: NormalJobs \cup {"none", "async_nested"}, owner: Owners,
            agentActive: AllAgentJobs \cup {"none"}, agentOwner: Owners,
            asyncJob: AllAsyncJobs \cup {"none"}, asyncOwner: Owners,
            mask: SUBSET NormalJobs, phase: 0..PostcopyFailed, apiFlags: Flags,
            jobsQueued: Int]

Requests == [job: NormalJobs \cup {"none", "async", "async_nested"},
             agentJob: AllAgentJobs \cup {"none"},
             asyncJob: AllAsyncJobs \cup {"none"},
             apiFlags: Flags, nowait: BOOLEAN]

Status == [active: {"none", "destroy"}, asyncJob: AllAsyncJobs \cup {"none"},
           phase: 0..PostcopyFailed, apiFlags: Flags]

NoRequest == [job |-> "none", agentJob |-> "none", asyncJob |-> "none",
              apiFlags |-> 0, nowait |-> FALSE]

NoStatus == [active |-> "none", asyncJob |-> "none", phase |-> 0, apiFlags |-> 0]

(***************************************************************************)
(* The job object.                                                         *)
(***************************************************************************)

\* VIR_JOB_DEFAULT_MASK
DefaultMask == {"query", "destroy", "abort"}

\* Mutation: DESTROY jobs are not tracked.
TrackJob_NoDestroy(j) == j = "async"

\* VIR_DOMAIN_TRACK_JOBS: the jobs recorded in the status XML
TrackJob(j) == j \in {"destroy", "async"}

\* A zeroed virDomainJobObj.
NewJobObj == [active |-> "none", owner |-> NoThread,
              agentActive |-> "none", agentOwner |-> NoThread,
              asyncJob |-> "none", asyncOwner |-> NoThread,
              mask |-> {}, phase |-> 0, apiFlags |-> 0, jobsQueued |-> 0]

ResetJob(o) == [o EXCEPT !.active = "none", !.owner = NoThread]

ResetAgentJob(o) == [o EXCEPT !.agentActive = "none", !.agentOwner = NoThread]

ResetAsyncJob(o) ==
  [o EXCEPT !.asyncJob = "none", !.asyncOwner = NoThread, !.phase = 0,
            !.mask = DefaultMask, !.apiFlags = 0]

Dequeued(o) == [o EXCEPT !.jobsQueued = @ - 1]

Queued(o) == [o EXCEPT !.jobsQueued = @ + 1]

\* Mutation: asynchronous jobs are not refused during an asynchronous job.
NestedJobAllowed_Async(o, newJob) ==
  o.asyncJob = "none" \/ newJob \in {"none", "async"} \/ newJob \in o.mask

NestedJobAllowed(o, newJob) ==
  \/ o.asyncJob = "none"
  \/ newJob = "none"
  \/ newJob = "modify_migration_safe" /\ "modify" \in o.mask
  \/ newJob \in o.mask

\* Mutation: only the agent job is looked at.
CanSetJob_AgentOnly(o, newJob, newAgentJob) ==
  newAgentJob = "none" \/ o.agentActive = "none"

CanSetJob(o, newJob, newAgentJob) ==
  /\ newJob = "none" \/ o.active = "none"
  /\ newAgentJob = "none" \/ o.agentActive = "none"

\* Mutation: the mask is taken as it is.
SetMask_Plain(o, allowed) ==
  IF o.asyncJob = "none" THEN o ELSE [o EXCEPT !.mask = allowed]

\* qemuDomainObjSetAsyncJobMask
SetMask(o, allowed) ==
  IF o.asyncJob = "none" THEN o ELSE [o EXCEPT !.mask = allowed \cup {"destroy"}]

\* qemuDomainAsyncJobPhaseToString: only migrations have phases.
SavedPhase(o) == IF o.asyncJob \in MigrationJobs THEN o.phase ELSE 0

\* Mutation: the API flags are not written.
StatusOf_NoFlags(o) ==
  [active |-> IF TrackJob(o.active) THEN o.active ELSE "none",
   asyncJob |-> o.asyncJob, phase |-> SavedPhase(o), apiFlags |-> 0]

\* What the job part of the status XML says after a save and a reload.
StatusOf(o) ==
  [active |-> IF TrackJob(o.active) THEN o.active ELSE "none",
   asyncJob |-> o.asyncJob, phase |-> SavedPhase(o), apiFlags |-> o.apiFlags]

(***************************************************************************)
(* virDomainObjBeginJobInternal.                                           *)
(***************************************************************************)

Nested(r) == r.job = "async_nested"

\* The async job refuses the requested job.
Blocked(o, r) == ~Nested(r) /\ ~NestedJobAllowed(o, r.job)

OverLimit(o, r) ==
  /\ r.job \notin {"async", "destroy"}
  /\ MaxQueuedJobs # 0
  /\ o.jobsQueued > MaxQueuedJobs

\* Mutation: obj->removing is not looked at after the waits.
Outcome_NoRemoving(o, r, label) ==
  LET free == CanSetJob(o, r.job, r.agentJob)
      atRetry == label = "retry" \/ (label = "jobLoop" /\ free /\ Blocked(o, r))
  IN CASE atRetry /\ OverLimit(o, r)                      -> "error"
       [] Blocked(o, r) /\ (label # "jobLoop" \/ free)
                                       -> IF r.nowait THEN "error" ELSE "waitAsync"
       [] ~free                        -> IF r.nowait THEN "error" ELSE "waitJob"
       [] OTHER                                           -> "start"

\* Where the code goes from a label ("retry", or the loop a thread wakes up in)
\* until it returns or sleeps.
Outcome(o, r, label) ==
  LET free == CanSetJob(o, r.job, r.agentJob)
      atRetry == label = "retry" \/ (label = "jobLoop" /\ free /\ Blocked(o, r))
  IN CASE atRetry /\ OverLimit(o, r)                      -> "error"
       [] Blocked(o, r) /\ (label # "jobLoop" \/ free)
                                       -> IF r.nowait THEN "error" ELSE "waitAsync"
       [] ~free                        -> IF r.nowait THEN "error" ELSE "waitJob"
       [] removing                                        -> "error"
       [] OTHER                                           -> "start"

\* The job object once the request is granted.
Granted(o, t, r) ==
  LET async == [ResetAsyncJob(ResetJob(o)) EXCEPT !.asyncJob = r.asyncJob,
                                                  !.asyncOwner = t]
      normal == [ResetJob(o) EXCEPT !.active = r.job, !.owner = t]
      monitor == CASE r.job = "none" -> o
                   [] r.job = "async" -> async
                   [] OTHER -> normal
  IN IF r.agentJob = "none" THEN monitor
     ELSE [ResetAgentJob(monitor) EXCEPT !.agentActive = r.agentJob,
                                         !.agentOwner = t]

\* The jobs an asynchronous job allows from its start: the callers of
\* virDomainObjBeginAsyncJob set the mask before they release the lock.
InitialMasks(asyncJob) ==
  CASE asyncJob = "migration_out" ->
         {DefaultMask \cup {"suspend", "migration_op", "modify_migration_safe"}}
    [] asyncJob = "migration_in" -> {{"modify_migration_safe"}}
    [] asyncJob = "start" -> {{}}
    [] asyncJob = "snapshot" -> {{}, DefaultMask}
    [] asyncJob = "backup" -> {DefaultMask \cup {"suspend", "modify"}}
    [] OTHER -> {DefaultMask}

\* Run the code from label for thread t with request r, job object o counting
\* the request already.
BeginJobInternal(t, r, label, o) ==
  LET out == Outcome(o, r, label) IN
  \/ /\ out = "error"
     /\ job' = Dequeued(o)
     /\ pc' = [pc EXCEPT ![t] = "idle"]
     /\ req' = [req EXCEPT ![t] = NoRequest]
     /\ UNCHANGED <<saved, held>>
  \/ /\ out \in {"waitAsync", "waitJob"}
     /\ job' = o
     /\ pc' = [pc EXCEPT ![t] = out]
     /\ req' = [req EXCEPT ![t] = r]
     /\ UNCHANGED <<saved, held>>
  \/ /\ out = "start" /\ r.job # "async"
     /\ job' = Granted(o, t, r)
     /\ pc' = [pc EXCEPT ![t] = "hold"]
     /\ req' = [req EXCEPT ![t] = r]
     /\ saved' = IF TrackJob(r.job) THEN StatusOf(Granted(o, t, r)) ELSE saved
     /\ UNCHANGED held
  \/ /\ out = "start" /\ r.job = "async"
     /\ \E m \in InitialMasks(r.asyncJob) :
          job' = [SetMask(Granted(o, t, r), m) EXCEPT !.apiFlags = r.apiFlags]
     /\ pc' = [pc EXCEPT ![t] = "idle"]
     /\ req' = [req EXCEPT ![t] = NoRequest]
     /\ saved' = StatusOf(Granted(o, t, r))
     /\ held' = [held EXCEPT ![t] = r.asyncJob]

\* virDomainObjBeginJobInternal from its first line.
Begin(t, r) ==
  /\ pc[t] = "idle"
  /\ recovery # "down"
  /\ BeginJobInternal(t, r, "retry", Queued(job))
  /\ UNCHANGED <<removing, daemonVars>>

BeginJob(t, j) ==
  /\ held[t] = "none"
  /\ Begin(t, [NoRequest EXCEPT !.job = j])

BeginJobNowait(t, j) ==
  /\ held[t] = "none"
  /\ Begin(t, [NoRequest EXCEPT !.job = j, !.nowait = TRUE])

BeginAgentJob(t, a) == Begin(t, [NoRequest EXCEPT !.agentJob = a])

\* Migrations are refused first when one is running (qemuMigrationJobIsAllowed).
BeginAsyncJob(t, a, f) ==
  /\ held[t] = "none"
  /\ ~(a \in MigrationJobs /\ job.asyncJob \in MigrationJobs)
  /\ Begin(t, [NoRequest EXCEPT !.job = "async", !.asyncJob = a, !.apiFlags = f])

\* The job of every monitor command of an asynchronous job.
BeginNestedJob(t) ==
  /\ held[t] # "none"
  /\ held[t] = job.asyncJob
  /\ Begin(t, [NoRequest EXCEPT !.job = "async_nested"])

\* A woken thread gets the lock back and goes round its loop.
Resume(t) ==
  /\ \/ /\ pc[t] = "wokenAsync"
        /\ BeginJobInternal(t, req[t], "asyncLoop", job)
     \/ /\ pc[t] = "wokenJob"
        /\ BeginJobInternal(t, req[t], "jobLoop", job)
  /\ UNCHANGED <<removing, daemonVars>>

\* Mutation: the request stays counted.
Timeout_Counted(t) ==
  /\ pc[t] \in {"waitAsync", "waitJob", "wokenAsync", "wokenJob"}
  /\ pc' = [pc EXCEPT ![t] = "idle"]
  /\ req' = [req EXCEPT ![t] = NoRequest]
  /\ UNCHANGED <<job, removing, saved, held, daemonVars>>

\* virCondWaitUntil fails after VIR_JOB_WAIT_TIME, although a broadcast may come
\* before the thread gets the lock back.
Timeout(t) ==
  /\ pc[t] \in {"waitAsync", "waitJob", "wokenAsync", "wokenJob"}
  /\ job' = Dequeued(job)
  /\ pc' = [pc EXCEPT ![t] = "idle"]
  /\ req' = [req EXCEPT ![t] = NoRequest]
  /\ UNCHANGED <<removing, saved, held, daemonVars>>

(***************************************************************************)
(* Ending jobs.                                                            *)
(***************************************************************************)

\* Mutation: virCondSignal.
Broadcast_Signal(p, asleep, woken) ==
  LET sleepers == {u \in Threads : p[u] = asleep}
  IN IF sleepers = {} THEN p ELSE [p EXCEPT ![CHOOSE u \in sleepers : TRUE] = woken]

\* virCondBroadcast.
Broadcast(p, asleep, woken) ==
  [u \in Threads |-> IF p[u] = asleep THEN woken ELSE p[u]]

HoldsJob(t) == pc[t] = "hold" /\ req[t].job # "none"

HoldsAgentJob(t) == pc[t] = "hold" /\ req[t].agentJob # "none"

\* A thread that runs an asynchronous job and is not inside a nested one.  The
\* job may have been taken from it in the meantime: nothing tells the thread.
RunsAsyncJob(t) == pc[t] = "idle" /\ held[t] # "none"

EndJob(t) ==
  LET o == Dequeued(ResetJob(job)) IN
  /\ HoldsJob(t)
  /\ t # recoverer
  /\ job' = o
  /\ saved' = IF TrackJob(job.active) THEN StatusOf(o) ELSE saved
  /\ pc' = Broadcast([pc EXCEPT ![t] = "idle"], "waitJob", "wokenJob")
  /\ req' = [req EXCEPT ![t] = NoRequest]
  /\ UNCHANGED <<removing, held, daemonVars>>

\* qemuDomainObjExitMonitor ends the nested job only if it is still there.
ExitMonitor(t) ==
  /\ HoldsJob(t) /\ Nested(req[t])
  /\ \/ job.active = "async_nested" /\ EndJob(t)
     \/ /\ job.active # "async_nested"
        /\ pc' = [pc EXCEPT ![t] = "idle"]
        /\ req' = [req EXCEPT ![t] = NoRequest]
        /\ UNCHANGED <<job, saved, removing, held, daemonVars>>

EndAgentJob(t) ==
  /\ HoldsAgentJob(t)
  /\ job' = Dequeued(ResetAgentJob(job))
  /\ pc' = Broadcast([pc EXCEPT ![t] = "idle"], "waitJob", "wokenJob")
  /\ req' = [req EXCEPT ![t] = NoRequest]
  /\ UNCHANGED <<removing, saved, held, daemonVars>>

\* virDomainObjEndAsyncJob does not look at the owner.
EndAsyncJob(t) ==
  LET o == Dequeued(ResetAsyncJob(job)) IN
  /\ RunsAsyncJob(t)
  /\ job' = o
  /\ saved' = StatusOf(o)
  /\ pc' = Broadcast([pc EXCEPT ![t] = "idle"], "waitAsync", "wokenAsync")
  /\ held' = [held EXCEPT ![t] = "none"]
  /\ UNCHANGED <<removing, req, daemonVars>>

(***************************************************************************)
(* The QEMU driver's operations on a running asynchronous job.             *)
(***************************************************************************)

\* The masks qemu_snapshot.c switches to in the middle of a snapshot job.
LaterMasks(asyncJob) ==
  IF asyncJob = "snapshot"
  THEN {{}, DefaultMask, DefaultMask \cup {"suspend", "migration_op"}}
  ELSE {}

SetAsyncJobMask(t) ==
  /\ RunsAsyncJob(t)
  /\ \E m \in LaterMasks(held[t]) : job' = SetMask(job, m)
  /\ UNCHANGED <<removing, saved, pc, req, held, daemonVars>>

\* qemuMigrationCheckPhase
PhaseAllowed(phase) == ~(phase < PostcopyFailed /\ phase < job.phase)

\* A thread that is not the owner is warned about, and has its way.
SetJobPhase(t, phase) ==
  /\ RunsAsyncJob(t) /\ held[t] \in MigrationJobs
  /\ PhaseAllowed(phase)
  /\ \/ /\ job.asyncJob # "none"
        /\ job' = [job EXCEPT !.phase = phase]
        /\ saved' = StatusOf(job')
     \/ job.asyncJob = "none" /\ UNCHANGED <<job, saved>>
  /\ UNCHANGED <<removing, pc, req, held, daemonVars>>

\* The thread that ran a phase of a migration, or started a backup, leaves the
\* asynchronous job behind for another thread, even if it is not the owner.
ReleaseAsyncJob(t) ==
  /\ RunsAsyncJob(t) /\ held[t] \in MigrationJobs \cup {"backup"}
  /\ job' = [job EXCEPT !.asyncOwner = NoThread]
  /\ held' = [held EXCEPT ![t] = "none"]
  /\ UNCHANGED <<removing, saved, pc, req, daemonVars>>

\* History: another thread was running the job.
Conflict(other) ==
  /\ conflicts' = IF other THEN conflicts + 1 ELSE conflicts
  /\ conflicts' <= MaxConflicts

\* The API of the next migration phase, or the thread of a peer-to-peer migration,
\* takes the job over from whoever owns it.
StartJobPhase(t, phase) ==
  /\ pc[t] = "idle" /\ recovery # "down"
  /\ \/ held[t] = "none" /\ job.asyncJob \in MigrationJobs
     \/ held[t] \in MigrationJobs /\ job.asyncJob # "none"
  /\ PhaseAllowed(phase)
  /\ job' = [job EXCEPT !.asyncOwner = t, !.phase = phase]
  /\ saved' = StatusOf(job')
  /\ held' = [held EXCEPT ![t] = IF @ = "none" THEN job.asyncJob ELSE @]
  /\ Conflict(job.asyncOwner \notin {NoThread, t})
  /\ UNCHANGED <<removing, pc, req, recoveryVars>>

\* qemuMigrationDstPrepareResume when it refuses to resume: its cleanup gives the
\* job a phase and releases it, whatever job it is and whoever owns it.
PrepareResumeRefused(t) ==
  /\ pc[t] = "idle" /\ held[t] = "none" /\ recovery # "down" /\ ~removing
  /\ job.asyncJob # "none"
  /\ job' = [job EXCEPT !.asyncOwner = NoThread, !.phase = PostcopyFailed]
  /\ saved' = StatusOf(job')
  /\ Conflict(job.asyncOwner # NoThread)
  /\ UNCHANGED <<removing, pc, req, held, recoveryVars>>

\* qemuBackupJobTerminate, run under a normal job when the last block job of
\* the backup ends.
BackupJobTerminate(t) ==
  LET o == Dequeued(ResetAsyncJob(job)) IN
  /\ HoldsJob(t) /\ req[t].job \in {"modify", "destroy"}
  /\ job.asyncJob = "backup" /\ job.asyncOwner = NoThread
  /\ job' = o
  /\ saved' = StatusOf(o)
  /\ pc' = Broadcast(pc, "waitAsync", "wokenAsync")
  /\ UNCHANGED <<removing, req, held, daemonVars>>

\* An event handler records a change of the domain without taking a job.
EventSaveStatus ==
  /\ recovery # "down"
  /\ saved' = StatusOf(job)
  /\ UNCHANGED <<job, removing, pc, req, held, daemonVars>>

\* virDomainObjListRemove, called by a thread with a job.
ListRemove(t) ==
  /\ \/ HoldsJob(t) /\ req[t].job \in {"modify", "destroy"}
     \/ RunsAsyncJob(t)
  /\ t # recoverer
  /\ removing' = TRUE
  /\ UNCHANGED <<job, saved, pc, req, held, daemonVars>>

(***************************************************************************)
(* A crash of the daemon and the recovery of the job by the next one.      *)
(***************************************************************************)

\* Everything but the status XML is lost; the guest keeps running.  A domain that
\* is not running has no status XML and starts afresh in the next daemon.
Crash ==
  /\ crashes < MaxCrashes /\ ~removing /\ recovery \notin {"failed", "dropped"}
  /\ crashes' = crashes + 1
  /\ recovery' = "down"
  /\ recoverer' = NoThread
  /\ oldjob' = NoStatus
  /\ job' = NewJobObj
  /\ pc' = [t \in Threads |-> "idle"]
  /\ req' = [t \in Threads |-> NoRequest]
  /\ held' = [t \in Threads |-> "none"]
  /\ conflicts' = 0
  /\ UNCHANGED <<removing, saved>>

\* qemuDomainObjPrivateXMLParseJob
ParseJob(o) == [o EXCEPT !.active = saved.active, !.asyncJob = saved.asyncJob,
                         !.phase = saved.phase, !.apiFlags = saved.apiFlags]

\* qemuProcessReconnect up to the first unlock: load the job of the status XML,
\* keep a copy, reset it and take a MODIFY job.
Reconnect(t) ==
  LET o == ParseJob(job) IN
  /\ recovery = "down"
  /\ oldjob' = StatusOf(o)
  /\ BeginJobInternal(t, [NoRequest EXCEPT !.job = "modify"], "retry",
                      Queued(ResetAsyncJob(ResetJob(o))))
  /\ recovery' = "reconnect"
  /\ recoverer' = t
  /\ UNCHANGED <<removing, crashes, conflicts>>

RestoreAsyncJob(o, asyncJob, phase, apiFlags, allowed) ==
  SetMask([Queued(o) EXCEPT !.asyncJob = asyncJob, !.phase = phase,
                            !.apiFlags = apiFlags], allowed)

RestoredMask(asyncJob) ==
  CASE asyncJob = "migration_in" -> {"modify_migration_safe"}
    [] asyncJob = "migration_out" ->
         DefaultMask \cup {"migration_op", "modify_migration_safe"}
    [] OTHER -> DefaultMask \cup {"suspend", "modify"}

\* qemuProcessRecoverJob: a backup is restored, a migration is restored once it
\* may be in post-copy, every other asynchronous job is forgotten.  The restored
\* job of a migration that has completed in QEMU is ended at once.
RecoverJob(t) ==
  /\ recovery = "reconnect" /\ t = recoverer
  /\ \/ /\ oldjob.asyncJob = "backup"
        /\ job' = RestoreAsyncJob(job, "backup", 0, 0, RestoredMask("backup"))
        /\ recovery' = "recovered"
     \/ /\ oldjob.asyncJob \in MigrationJobs /\ oldjob.phase > 0
        /\ job' = RestoreAsyncJob(job, oldjob.asyncJob, PostcopyFailed,
                                  oldjob.apiFlags, RestoredMask(oldjob.asyncJob))
        /\ recovery' \in {"recovered", "completing"}
     \/ /\ oldjob.asyncJob # "backup"
        /\ oldjob.asyncJob \in MigrationJobs => oldjob.phase < PostcopyFailed
        /\ recovery' = "recovered"
        /\ UNCHANGED job
  /\ UNCHANGED <<removing, saved, pc, req, held, recoverer, oldjob, crashes, conflicts>>

\* After qemuMigrationDstComplete, which gives up the lock, the recovery of an
\* incoming migration ends the restored job, whoever has taken it since.
CompleteRestoredJob(t) ==
  LET o == Dequeued(ResetAsyncJob(job)) IN
  /\ recovery = "completing" /\ t = recoverer
  /\ oldjob.asyncJob = "migration_in"
  /\ job' = o
  /\ saved' = StatusOf(o)
  /\ pc' = Broadcast(pc, "waitAsync", "wokenAsync")
  /\ recovery' = "recovered"
  /\ Conflict(job.asyncJob = "none" \/ job.asyncOwner # NoThread)
  /\ UNCHANGED <<removing, req, held, recoverer, oldjob, crashes>>

\* The end of qemuProcessReconnect: save the status and end the MODIFY job.
ReconnectDone(t) ==
  /\ recovery = "recovered" /\ t = recoverer
  /\ oldjob.active # "destroy"
  /\ saved' = StatusOf(job)
  /\ job' = Dequeued(ResetJob(job))
  /\ pc' = Broadcast([pc EXCEPT ![t] = "idle"], "waitJob", "wokenJob")
  /\ req' = [req EXCEPT ![t] = NoRequest]
  /\ recovery' = "up"
  /\ recoverer' = NoThread
  /\ UNCHANGED <<removing, held, oldjob, crashes, conflicts>>

\* Its error path, before or after the job is recovered: qemuProcessStop kills the
\* domain, discards a restored migration without jobsQueued-- and without waking
\* the threads that wait for its end, ends a restored backup and deletes the status
\* file.  A source whose migration has completed is stopped in the same way.  The
\* cleanup that discards is registered while no thread owns the job.  A transient
\* domain is removed from the list.
ReconnectError(t) ==
  \E discard \in BOOLEAN :
    LET backup == job.asyncJob = "backup"
        o == IF discard THEN ResetAsyncJob(job)
             ELSE IF backup THEN Dequeued(ResetAsyncJob(job)) ELSE job
        p == Broadcast([pc EXCEPT ![t] = "idle"], "waitJob", "wokenJob")
    IN /\ \/ recovery \in {"reconnect", "recovered"}
          \/ recovery = "completing" /\ oldjob.asyncJob = "migration_out"
       /\ t = recoverer
       /\ discard => job.asyncJob \in MigrationJobs
       /\ job.asyncJob \in MigrationJobs /\ job.asyncOwner = NoThread => discard
       /\ saved' = NoStatus
       /\ job' = Dequeued(ResetJob(o))
       /\ pc' = IF backup THEN Broadcast(p, "waitAsync", "wokenAsync") ELSE p
       /\ req' = [req EXCEPT ![t] = NoRequest]
       /\ removing' \in BOOLEAN
       /\ recovery' = IF discard THEN "dropped" ELSE "failed"
       /\ recoverer' = NoThread
       /\ Conflict((discard \/ backup) /\ job.asyncOwner # NoThread)
       /\ UNCHANGED <<held, oldjob, crashes>>

Init ==
  /\ job = NewJobObj
  /\ removing = FALSE
  /\ saved = NoStatus
  /\ pc = [t \in Threads |-> "idle"]
  /\ req = [t \in Threads |-> NoRequest]
  /\ held = [t \in Threads |-> "none"]
  /\ recovery = "up" /\ recoverer = NoThread /\ oldjob = NoStatus /\ crashes = 0
  /\ conflicts = 0

\* A thread asks for a job.
Request(t) ==
  \/ \E j \in Jobs : BeginJob(t, j)
  \/ BeginJobNowait(t, "query")
  \/ \E a \in AgentJobs : BeginAgentJob(t, a)
  \/ \E a \in AsyncJobs, f \in Flags : BeginAsyncJob(t, a, f)
  \/ BeginNestedJob(t)

\* A thread finishes what it was doing with a job.
Finish(t) ==
  \/ EndJob(t)
  \/ ExitMonitor(t)
  \/ EndAgentJob(t)
  \/ EndAsyncJob(t)

Manage(t) ==
  \/ SetAsyncJobMask(t)
  \/ \E p \in 0..PostcopyFailed : SetJobPhase(t, p) \/ StartJobPhase(t, p)
  \/ ReleaseAsyncJob(t)
  \/ PrepareResumeRefused(t)
  \/ BackupJobTerminate(t)
  \/ ListRemove(t)

Recover(t) ==
  \/ Reconnect(t)
  \/ RecoverJob(t)
  \/ CompleteRestoredJob(t)
  \/ ReconnectDone(t)
  \/ ReconnectError(t)

Next ==
  \/ \E t \in Threads : Request(t) \/ Resume(t) \/ Timeout(t) \/ Finish(t)
                          \/ Manage(t) \/ Recover(t)
  \/ EventSaveStatus
  \/ Crash

Spec == Init /\ [][Next]_vars

(***************************************************************************)
(* Properties.                                                             *)
(***************************************************************************)

\* The fields of the job object, the status XML and each thread's request keep
\* their types; jobsQueued may be any integer here (see QueueAccounting).
TypeOK ==
  /\ job \in JobObjs
  /\ removing \in BOOLEAN
  /\ saved \in Status
  /\ pc \in [Threads -> PCs]
  /\ req \in [Threads -> Requests]
  /\ held \in [Threads -> AllAsyncJobs \cup {"none"}]
  /\ recovery \in Recoveries
  /\ recoverer \in Owners
  /\ oldjob \in Status
  /\ crashes \in 0..MaxCrashes
  /\ conflicts \in 0..MaxConflicts

\* "Only 1 job is allowed at any time": a thread that was granted a normal job
\* is the owner the job object names until it ends the job itself, and the job
\* object never names a job or an agent job that no thread is running.
JobExclusive ==
  /\ \A t \in Threads : HoldsJob(t) => job.owner = t /\ job.active = req[t].job
  /\ \A t \in Threads :
       HoldsAgentJob(t) => job.agentOwner = t /\ job.agentActive = req[t].agentJob
  /\ job.active # "none" => \E t \in Threads : HoldsJob(t)
  /\ job.agentActive # "none" => \E t \in Threads : HoldsAgentJob(t)

\* The threads that run an asynchronous job they do not own.
Stale == {t \in Threads : held[t] # "none" /\ job.asyncOwner # t}

\* The owner of an asynchronous job is a thread that runs one: a job parked or left
\* by its thread is never refused to the next one as "actively monitored by another
\* thread".  And a thread runs an asynchronous job it does not own only if another
\* one has interfered, once for each such thread: while none has taken, released or
\* ended a job under its owner, no two threads run one and the owner runs the job
\* that the job object names.
AsyncExclusive ==
  /\ \A t \in Threads : job.asyncOwner = t =>
       held[t] # "none" /\ (conflicts = 0 => held[t] = job.asyncJob)
  /\ Cardinality(Stale) <= conflicts

Busy == {t \in Threads : pc[t] # "idle"}

\* What jobsQueued should be: one for each thread that waits for or holds a job, one
\* for the asynchronous job, whoever runs it, and one that is lost for good when a
\* reconnect fails after it has restored a migration.
Queue ==
  Cardinality(Busy) + (IF job.asyncJob = "none" THEN 0 ELSE 1)
    + (IF recovery = "dropped" THEN 1 ELSE 0)

\* jobsQueued is exact on every path through begin, time-out, release, take-over,
\* recovery and end, except that a thread whose job was taken from it may count the
\* end of the job again: each conflict costs at most one decrement too many, or has
\* left a thread that does not know yet.  No path adds more than its own.
QueueAccounting ==
  /\ job.jobsQueued <= Queue
  /\ job.jobsQueued >= Queue + Cardinality(Stale) - conflicts

\* A thread asleep on a condition variable is asleep for a reason: on job->cond
\* while the job it wants cannot be set, on job->asyncCond while an asynchronous
\* job exists.  A missing broadcast would leave it there until the time-out, as it
\* does when a reconnect fails after it has restored a migration.
NoLostWakeup ==
  \A t \in Threads :
    /\ pc[t] = "waitJob" => ~CanSetJob(job, req[t].job, req[t].agentJob)
    /\ pc[t] = "waitAsync" => job.asyncJob # "none" \/ recovery = "dropped"

\* No asynchronous job, started, restored or with its mask changed, can keep a
\* DESTROY request waiting: VIR_JOB_DESTROY "cannot be masked out".
DestroyNotMasked ==
  \A t \in Threads : req[t].job = "destroy" => pc[t] # "waitAsync"

\* Outside of recovery the status XML records the asynchronous job and its phase
\* and a DESTROY job exactly, whichever step comes last before a crash.
SavedStatus ==
  recovery = "up" =>
    /\ saved.asyncJob = job.asyncJob /\ saved.phase = SavedPhase(job)
    /\ saved.active = (IF job.active = "destroy" THEN "destroy" ELSE "none")

\* Once a migration has entered a phase, the API flags its recovery will use
\* are the ones it was started with, although the flags are assigned after
\* virDomainObjBeginJobInternal has saved the status.
SavedFlags ==
  recovery = "up" /\ SavedPhase(job) # 0 => saved.apiFlags = job.apiFlags

\* qemuProcessRecoverJob restores an asynchronous job by plain assignment: no
\* other thread has started a job in the meantime.
RecoveryUndisturbed ==
  recovery = "reconnect" =>
    /\ job.asyncJob = "none" /\ job.owner = recoverer /\ job.active = "modify"
    /\ \A t \in Threads : held[t] = "none"

\* A job that starts does so on a domain still in the list: a thread that slept
\* while the domain was removed never gets its job.
NoJobOnRemoved ==
  [][\A t \in Threads :
       removing /\ pc[t] # "hold" =>
         /\ pc'[t] # "hold"
         /\ held'[t] # "none" => held[t] # "none" \/ job.asyncJob # "none"]_vars

(***************************************************************************)
(* The strengthening that makes the invariants inductive.                  *)
(***************************************************************************)

\* A request is for a normal job or for an agent job, never for both, and for an
\* asynchronous job exactly when it names one.
WellFormed(r) ==
  /\ (r.job = "none") # (r.agentJob = "none")
  /\ (r.job = "async") = (r.asyncJob # "none")

RequestInv ==
  \A t \in Threads : /\ pc[t] = "idle" => req[t] = NoRequest
                     /\ pc[t] # "idle" => WellFormed(req[t])
                     /\ pc[t] = "hold" => req[t].job # "async"

RecoveryInv ==
  /\ recovery = "down" => /\ job = NewJobObj /\ ~removing
                          /\ \A t \in Threads : pc[t] = "idle" /\ held[t] = "none"
  /\ recovery \in {"up", "down", "failed", "dropped"} => recoverer = NoThread
  /\ recovery \in {"reconnect", "completing", "recovered"} =>
       recoverer \in Threads /\ HoldsJob(recoverer) /\ req[recoverer].job = "modify"
  /\ recovery = "reconnect" => /\ job.asyncJob = "none"
                               /\ \A t \in Threads : held[t] = "none"

\* An asynchronous job that does not exist has no owner.
OwnerInv == job.asyncJob = "none" => job.asyncOwner = NoThread

\* The inductive invariant: the exclusivity of the jobs, the reasons to sleep and
\* the counter hold together, with the form of pending requests and of recovery.
IInv == /\ TypeOK /\ RequestInv /\ RecoveryInv /\ OwnerInv /\ JobExclusive /\ AsyncExclusive
        /\ NoLostWakeup /\ QueueAccounting

=============================================================================
