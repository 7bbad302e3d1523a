------------------------- MODULE DomainJobDiscard -------------------------
(***************************************************************************)
(* The job object together with qemuDomainObjDiscardAsyncJob, which drops  *)
(* an asynchronous job without ending it: when a domain is stopped while a *)
(* migration is parked between two phases, and when an autodestroy domain  *)
(* loses its connection, whoever runs the job.                             *)
(***************************************************************************)
EXTENDS DomainJob

CONSTANT MaxDiscards  \* bound on discarded jobs

ASSUME DiscardAssumption == MaxDiscards \in Nat

VARIABLES
  destroyer, \* the thread inside qemuProcessAutoDestroy, with the domain locked
  discards   \* asynchronous jobs discarded so far

discardVars == <<vars, destroyer, discards>>

DiscardAsyncJob(o) ==
  ResetAsyncJob(IF o.active = "async_nested" THEN ResetJob(o) ELSE o)

\* Mutation: the status is not saved.
Discard_Unsaved ==
  /\ discards < MaxDiscards
  /\ job' = DiscardAsyncJob(job)
  /\ discards' = discards + 1
  /\ UNCHANGED <<saved, removing, pc, req, held, daemonVars>>

Discard ==
  /\ discards < MaxDiscards
  /\ job' = DiscardAsyncJob(job)
  /\ saved' = StatusOf(job')
  /\ discards' = discards + 1
  /\ UNCHANGED <<removing, pc, req, held, daemonVars>>

\* qemuProcessStop under a DESTROY job calls qemuProcessCleanupMigrationJob, or
\* qemuMigrationDstPrepareCleanup between Prepare and Finish, which does the same to
\* the job: one of them is registered while a migration is parked.
CleanupMigrationJob(t) ==
  /\ HoldsJob(t) /\ req[t].job = "destroy"
  /\ job.asyncJob \in MigrationJobs /\ job.asyncOwner = NoThread
  /\ Discard
  /\ UNCHANGED destroyer

\* qemuProcessAutoDestroy from the callback of a closed connection.
AutoDestroy(t) ==
  /\ pc[t] = "idle" /\ held[t] = "none" /\ recovery = "up"
  /\ job.asyncJob # "none"
  /\ Discard
  /\ destroyer' = t

\* It goes on to qemuProcessBeginStopJob, which fails if the process cannot be
\* killed, without having released the lock.
AutoDestroyStop(t) ==
  /\ t = destroyer
  /\ destroyer' = NoThread
  /\ BeginJob(t, "destroy") \/ UNCHANGED vars
  /\ UNCHANGED discards

\* Bound: behaviours are followed while each discard and each conflict has cost the
\* counter at most one decrement too many.
CounterBound == job'.jobsQueued >= -(discards + conflicts')

InitDiscard == Init /\ destroyer = NoThread /\ discards = 0

NextDiscard ==
  \/ /\ destroyer = NoThread
     /\ \/ Next /\ CounterBound /\ UNCHANGED <<destroyer, discards>>
        \/ \E t \in Threads : CleanupMigrationJob(t) \/ AutoDestroy(t)
  \/ \E t \in Threads : AutoDestroyStop(t)
  \/ destroyer # NoThread /\ Crash /\ destroyer' = NoThread /\ UNCHANGED discards

SpecDiscard == InitDiscard /\ [][NextDiscard]_discardVars

(***************************************************************************)
(* Properties.                                                             *)
(***************************************************************************)

\* The APIs in progress: threads that wait for or hold a job or run an
\* asynchronous one, and a migration or backup between two of its threads.
ApisInProgress ==
  Cardinality({t \in Threads : pc[t] # "idle" \/ held[t] # "none"})
    + (IF job.asyncJob # "none" /\ job.asyncOwner = NoThread THEN 1 ELSE 0)

\* qemu.conf on max_queued: the limit is on the "APIs queued on one domain", "All
\* other APIs over this threshold will fail".  A request is refused only if it
\* and the APIs in progress exceed the limit.
RefusedOnlyOverLimit ==
  recovery = "up" /\ OverLimit(Queued(job), [NoRequest EXCEPT !.job = "query"])
    => ApisInProgress + 1 > MaxQueuedJobs
=============================================================================
