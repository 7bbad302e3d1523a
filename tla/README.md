# libvirt in TLA+

libvirt is a set of daemons that manage virtual machines for many clients. Most
of its code is sequential glue to hypervisors, but it stands on a few
concurrent cores. This project models those cores, checks them with TLC and
proves what matters most with TLAPS.

## The parts of the system

| part | source | status |
|---|---|---|
| job conditions of a domain | `src/conf/virdomainjob.c` | `DomainJob` |
| the QEMU driver's use of them: phases, masks, discard, recovery | `src/qemu/qemu_domainjob.c`, parts of `qemu_process.c`, `qemu_migration.c`, `qemu_backup.c` | `DomainJob`, `DomainJobDiscard` |
| worker threads of a daemon | `src/util/virthreadpool.c` | `ThreadPool` |
| leases on resources (virtlockd) | `src/util/virlockspace.c`, `src/locking/lock_daemon.c` | `LockSpace` |
| RPC client and its end of the keep-alive | `src/rpc/virnetclient.c`, `virkeepalive.c` | `NetClient`, `RpcCalls` |
| migration protocol, version 3, managed by the client | `src/libvirt-domain.c`, `src/qemu/qemu_migration.c`, `src/hypervisor/virclosecallbacks.c` | `Migration` |
| recovery of migrations after a restart | `src/qemu/qemu_process.c` | `Migration` |
| RPC server, domain list, object events, port allocator, QEMU monitor | `src/rpc/`, `src/conf/`, `src/util/`, `src/qemu/` | not modelled |
| XML configuration, host resource drivers, other hypervisors, generated dispatch code | | not modelled |

How they interact: the threads of an application share the socket of an **RPC
client**. An RPC server reads calls from its clients and hands them to
a **thread pool**. A worker that runs an API call on a domain looks it up,
locks it and takes a **job**. The domain lock protects memory and is given up
during every monitor command; the job is what keeps two API calls from changing
the domain at once. Long operations (migration, snapshot, backup) are
*asynchronous* jobs, which allow a set of normal jobs meanwhile and survive a
restart of the daemon through the status XML. When a guest starts, its disks
are **leased** from virtlockd, which keeps the leases as file locks in a
directory that other hosts may share. A **migration** uses all of it: a client
calls two daemons in turn, each keeps an asynchronous job between the calls,
leases move with the guest, and a daemon that restarts decides from its status
XML what to do with its half.

## Modules

### DomainJob

State: `job` is `virDomainJobObj`, field by field; `removing` is
`obj->removing`; `saved` is the job part of the status XML on disk. `pc[t]`
says where a thread is: outside (`idle`), asleep on `job->asyncCond` or
`job->cond` (`waitAsync`, `waitJob`), woken but without the lock (`wokenAsync`,
`wokenJob`), or running a normal or agent job (`hold`). `req[t]` are the
arguments of its request, `held[t]` the asynchronous job it runs. `recovery`,
`recoverer` and `oldjob` describe a restart of the daemon.

The domain lock is held from one wait to the next, so an action is one such
region. `BeginJobInternal` is the whole of `virDomainObjBeginJobInternal` from
a label (`retry`, or the loop a thread wakes up in) to its next wait or its
return, and the begin functions are its callers. Every end function is an
action with its reset, its decrement, its save and its broadcast. A time-out
may strike a sleeping thread at any moment, also one that a broadcast has just
woken. `Crash` keeps only the status XML; `Reconnect`, `RecoverJob`,
`CompleteRestoredJob`, `ReconnectDone` and `ReconnectError` are
`qemuProcessReconnect` between the points where it releases the lock. The error
path may be taken before the job is restored or after it. In the second case
`qemuProcessStop` discards a restored migration: its unit of `jobsQueued` is
lost, and threads that wait for its end are not woken (`recovery = "dropped"`).

An asynchronous job has an owner, but the code does not insist on it.
`qemuDomainObjStartJobPhase` warns and takes the job from a thread that still
runs it, and the cleanup of a refused `qemuMigrationDstPrepareResume`
(`PrepareResumeRefused`) gives it a phase and releases it; so may the end of a
recovered migration that another thread has taken over meanwhile. The old thread
goes on with a job that is no longer its own and ends or releases whatever there
is. `conflicts` counts these interferences (the bound is `MaxConflicts`) and
`Stale` is the set of threads that run a job they do not own. `AsyncExclusive`
and `QueueAccounting` say how far the owner and the counter can be off after so
many conflicts; with none, exclusivity holds and the counter is exact.

Abstractions: names of owners and APIs, time stamps and statistics are left
out; masks are sets of jobs; migration phases are `0..PostcopyFailed`. The
guest runs all the time, except on the error path of the reconnection. A
recovered migration may be finished or restored in a middle phase, because that
depends on what QEMU reports, and every step of the reconnection may fail.
`qemuDomainObjAbortAsyncJob` is left out: it only
sets a flag the job's own thread polls.

### DomainJobDiscard

Adds `qemuDomainObjDiscardAsyncJob` outside of a reconnection. It is called for
a parked migration (`qemuProcessCleanupMigrationJob`, and
`qemuMigrationDstPrepareCleanup` between Prepare and Finish) and by
`qemuProcessAutoDestroy` for whatever job there is, without the decrement and the
broadcast that end a job. The bounds of `DomainJob` on owners and counter do not
hold with it; the module says what does and which documented promise does not.

### ThreadPool

All of `virthreadpool.c`. The pool mutex is released only in waits and while a
job runs, so each action is one region under the mutex: a worker starts, wakes
up, takes a job or quits; a caller sends a job, changes the limits, stops,
drains or frees the pool. Counters are `size_t` (modulo `SizeT`), which
`NoFreeWorker` needs. Creation of a thread may fail (`Expand`). Signals wake
one sleeper, chosen freely, and wake-ups may be spurious.

### LockSpace

`virlockspace.c` for several daemons that share a directory. The daemon's own
mutex serialises its operations, but nothing serialises the system calls of two
daemons, so open, lock, stat, unlink and close are separate actions. `path`
maps a resource to the inode at its path, `fd` and `lock` are what a daemon has
open and locked, `owners` and `shared` its hash table: how often the resource's
list of owners names each owner (the order of the list has no effect), and
whether the resource is shared. A daemon may die at any point. Client connections end in `ClientFree`, which releases the leases of an
owner as `virLockDaemonClientFree` does. `execve` of a new virtlockd keeps the
table, the descriptors and with them the locks, so it would be a stuttering
step; a failure to read the state back is not modelled.

`LeaseExclusive` and `DeleteUnleased` speak of names whose files are created on
demand. `virLockSpaceDeleteResource` looks only in the table of its own daemon, so
it unlinks the file of an explicitly created name although another daemon has a
lease on it; the model does the same, and nothing is claimed for such names.

### NetClient and RpcCalls

Several threads share one socket, and one of them "has the buck": it runs the
main loop and does the I/O for all calls in `waitDispatch`, while the others
sleep on their conditions. `client` holds the fields of `virNetClient`, `call`
those of each call and where its thread is, `wire` both directions of the
connection. The list changes by appending a call (`CallQueue`), by removing one
(`CallRemove`) and by keeping those that satisfy a condition (`Kept`). The client lock is given up in `virCondWait` and around the main
loop, so these are the borders of the actions. One more thread runs the event
loop of the application: the timer of the keep-alive and the callback of the
socket. Writes may be partial; the server may be slow, stop reading for a while
or hang up; any party may close. Spurious wake-ups of `virCondWait` are left
out: the code waits without a loop, and relies on there being none.

`RpcCalls` is what this promises a caller who knows nothing of the buck: a call
that returns a reply was handled by the server, and a call fails only when the
connection is closed. `NetClient` implements it (`ImplementsRpc`).

### Migration

`vm[h]` is what there is of the guest on host `h`: the domain object (state,
reason), its job (phase, owner, `asyncPaused`), its close callbacks (`cb`,
`auto`), the copy in the status XML (`disk`) and QEMU (alive, CPUs, lease,
migration status). `client[c]` is where a client is in
`virDomainMigrateVersion3Full`, `api[c][h]` where the handler of its call is:
a handler outlives the connection of its client. The first client, `mig`,
migrates; `Resumers` repeat the call with `VIR_MIGRATE_POSTCOPY_RESUME`.

A step is what a thread does with the domain locked. Handlers that wait for
QEMU, or that a crash may cut in two with something saved in between, have
several steps. Confirm saves its phase twice, before and after it has looked at
QEMU (`SrcConfirm`, `SrcConfirmPhase`), and then kills or resumes the source; the
end of Finish is separate from what it saves first; the close callback saves
`CONFIRM3_CANCELLED` and waits for QEMU before it ends the job (`ConnectClose`,
`ConnectionClosedEnd`). Error paths, close callbacks (`AnyConnectionClosed`,
`qemuProcessAutoDestroy`), unattended completion and `Reconnect` with its
verdict for every phase are translated as they are.

QEMU and the lock manager are external. QEMU goes through the statuses the code
distinguishes and may fail in each; a daemon that runs handles an event in the
step that causes it. `qemuProcessUpdateState` takes the reason of a guest that
stopped unseen from QEMU, which is `finish-migrate` here. The other steps of
`qemuProcessReconnect` succeed.

Faults: a connection breaks with a call on the way, in progress or answered; a
client goes away at any step; a daemon dies between any two steps, also between
the start of the CPUs and the event that says so (`CrashStartingCPUs`).

### MC modules

`MCDomainJob`, `MCDomainJobLive`, `MCDomainJobDiscard`, `MCThreadPool`,
`MCLockSpace`, `MCNetClient` and `MCMigration` give the modules symmetry sets,
bounds and fairness for TLC.

## Runs

| run | shows |
|---|---|
| `domain_job_safety` | Normal and agent jobs are exclusive and owned by who runs them; asynchronous jobs are exclusive and `jobsQueued` is exact, but for what a job taken from its thread and a failed reconnection cost (`AsyncExclusive`, `QueueAccounting`); nobody sleeps without a reason, unless a failed reconnection has discarded the migration it waits for; DESTROY is never masked; the status XML always names the asynchronous job and its phase; recovery overwrites no other job; no job starts on a removed domain. |
| `domain_job_live` | Every request is served and every job ends, without the help of time-outs. |
| `domain_job_discard` | The status XML still names the asynchronous job when jobs are discarded, and the API flags of a migration that has entered a phase. |
| `domain_job_discard_limit` (violation) | Discarding a parked job leaks a unit of `max_queued`. |
| `thread_pool` | Counters and list are exact, no job is left to sleepers, lowered limits are reached, nothing outlives the pool; accepted jobs run unless the pool is stopped, drain returns, and priority jobs start although no normal worker moves. |
| `thread_pool_spawn` (violation) | With a backlog the pool does not grow to its maximum. |
| `lock_space_leases` | Leases of daemons that race through the file system are exclusive and on the file at the path; no descriptor leaks; a file that was created on demand is not deleted under a lease. Exclusion is claimed for names created on demand only. |
| `lock_space_clients` (violation) | A client with two entries in a shared resource leaves a lease behind. |
| `net_client` | Some thread has the buck while calls wait, no waiting call is dropped, messages are not mixed on the wire, the server is given up only after `count` requests whose answers were not read, every call returns, what is queued is sent, and the client implements `RpcCalls`. |
| `net_client_close` (violation) | A thread that is handed the buck of a closing connection waits for the server. |
| `migration` | The guest is never lost (`GuestKept`, with the assumption on QEMU below); it runs on both hosts only after a lost answer of Finish or a crash inside the close callback of the source (`ForkNeedsLoss`), and never with a lock manager (`CpusExclusive`); no finished guest has an auto-destroy callback; the unattended completion does not end the job of a waiting Finish (`FinishKeepsJob`; clients that overlap are the subject of `migration_overlap`); success is reported only of a guest that is complete on the destination, and an error without faults leaves the source as it was, a migration that can be resumed on both hosts, or a guest stranded on the source (`Answered`); every job ends or is parked, without an owner, for a client that resumes (`JobsEnd`). |
| `migration_overlap` (violation) | A refused attempt to resume leaves the auto-destroy callback of a migrated guest behind. |

Bounds. Three threads are the smallest number with a holder, a sleeper and a
third who overtakes it; one crash is enough because a restart forgets all but
the status XML. `PostcopyFailed = 2` gives a first, a middle and a last phase. The safety run has
an asynchronous job with phases (migration), one that is recovered in its own
way (backup) and one that changes its mask (snapshot).
One conflict (`MaxConflicts = 1`) lets a thread lose its job, a second one take it
and either end it first; the bounds for any number of them are proved. The
liveness run and the run of the limit have none, so that what they show does not
rest on one. The API flags vary in `domain_job_discard`, which has fewer jobs.
`max_queued` is 2, below the number of threads, so that the limit is met. The
thread pool runs have limits up to two workers of each kind, a few jobs and
enough thread slots for workers that quit and are replaced. Two daemons, with
three inodes per path, are what a race on one file needs: the file of each and
the one a daemon may create next; a second resource, created beforehand, takes
the other branch of each operation. `MaxEntries` bounds how often a resource
lists one owner: once is enough for the races, twice for the finding about
clients. The network client has two calling threads, so that the buck is passed,
one keep-alive message and one closing thread. One message means one ping or one
pong in a behaviour, with `KeepAliveCount = 1`; several rounds of the keep-alive
are not reached by the run. With one caller, two messages and counts of 1 and 2
the safety properties and `ImplementsRpc` were checked by hand and hold as well. The migration has one resumer, one
crash of either daemon, and five kinds of migration: pre-copy with a lock manager
of a running and of a paused guest, pre-copy without one, post-copy, and
post-copy of a paused guest, which Prepare rejects.
A connection breaks only while its client is migrating, and clients migrate
one after the other unless `Overlap` is set. Symmetry is used for threads, daemons,
owners and inodes, only in runs without liveness properties.

In most runs deadlock is not an error, because every thread may simply have
nothing more to do.

Fairness. In `domain_job_live` each thread is weakly fair in getting on after a
wake-up and in ending the jobs it holds: the mutex is granted in the end, and
API calls return. Time-outs are excluded, so that they do not hide a lost
wake-up. In `thread_pool` the specification is fair to priority workers only,
which is all `PrioJobsStarted` needs; `JobsRun` and `DrainReturns` state the
fairness of the normal workers as their hypothesis: job functions return. In
`net_client` the threads and the event loop are weakly fair, and the server
answers and reads in the end. In `migration` code and QEMU are weakly fair
together: handlers return, a daemon that died is restarted, and QEMU completes
or fails in the end. Nothing repeats without a further client, of whom there are
finitely many. Faults and new clients need not come.

`EarlyCompletion = FALSE` in `migration` is an assumption about QEMU: post-copy
takes longer than the start of the CPUs on the destination. It is needed, see
below.

## What the models show beyond the runs

The violations above are described, with the lines they contradict, in
`PROJECT.json`. The model of the migration has six more behaviours that no run
forbids. TLC finds each of them:

* Without the assumption above, `GuestKept` is violated with no connection lost
  and no crash. Post-copy completes, a step of Finish fails and the destination
  is killed "as the source VM is still available"; Confirm is told of the
  failure, but finds the status completed, forces success and kills the source.
* When the client goes away between Perform and Confirm, the close callback saves
  `CONFIRM3_CANCELLED` although nobody knows how Finish ended. A crash before the
  callback ends the job makes the recovery resume the source, "Finish3 failed, we
  need to resume the domain", while the guest runs on the destination. Only a lock
  manager prevents it; `ForkNeedsLoss` names this case.
* A Finish that fails in post-copy mode before it has started the CPUs kills the
  destination, "the source VM is still available to restart during confirm()". But
  the source has failed in post-copy mode and stays paused; a client that resumes
  passes Begin, and Prepare finds no domain. `Answered` admits it as `Stranded`.
* A daemon that dies while Perform is in post-copy mode cancels the migration
  when it restarts, but leaves the source paused: the block that resumes it
  does not look for `PAUSED_POSTCOPY`.
* When the client goes away after post-copy has completed but before Confirm,
  the close callback marks the source as failed. The event that would complete
  it unattended has passed.
* A destination that dies between the start of the CPUs and the RESUME event
  finds a running guest that is not in post-copy mode, and drops the job of a
  migration that still runs. It cannot be resumed then.

## Proofs

Every theorem holds for all values of the constants that the assumption of its
module allows.

### DomainJob

`DomainJobStepProofs` (how the actions move owners, sleepers and the counter) and
`DomainJobProofs` (the invariant and the theorems) prove for any number of threads,
any set of requested jobs, any limits and any number of conflicts, from
`DomainJobAssumption` alone:

* `TypeCorrect`: the type invariant;
* `Invariant`: `Spec => []IInv`;
* `ExclusiveJobs`, `ExclusiveAsyncJobs`, `CounterBounds`, `NoWakeupLost`,
  `SafeRecovery`: the properties `JobExclusive`, `AsyncExclusive`,
  `QueueAccounting`, `NoLostWakeup` and `RecoveryUndisturbed` that
  `domain_job_safety` checks.

None of them is inductive alone. That a job ends only by its owner needs to
know that the threads in `hold` have well-formed requests (`RequestInv`); the
counter needs the number of threads whose job was taken from them (`Stale`),
because an end function decrements whatever it resets, and each of them will do so
once more than it should; a job that does not exist must have no owner
(`OwnerInv`), or its end would leave a thread that is not counted as stale; the
recovery of a job needs that no request was granted before it
(`RecoveryInv`). `IInv` is their conjunction. The proof has one step per action
and in it one per conjunct the action disturbs; the counter is handled by
lemmas on the cardinality of the busy and of the stale threads when one joins or
leaves (`BusyCount`, `StaleTaken`, `StaleLeft`).

On top of `IInv` it proves:

* `StatusSaved`, `DestroyAllowed`: the invariants `SavedStatus` and
  `DestroyNotMasked`. They need that an asynchronous job always has DESTROY in
  its mask (`MaskInv`) and that a job object without one has phase 0
  (`PhaseInv`), or the error path of a reconnection would leave a phase the
  deleted status file does not have;
* `FlagsSaved`: the invariant `SavedFlags`. The grant of an asynchronous job saves
  the status before it sets the API flags, so the file is behind until the first
  change of phase writes it again. The theorem claims nothing before that: the
  flags are saved whenever a migration is in a phase;
* `RemovedStaysFree`: the action property `NoJobOnRemoved`.

### ThreadPool

`ThreadPoolProofs` (the list and the counts, the operations on the pool, the actions,
the invariant) proves for any number of workers, jobs and settings of the limits, from
`ThreadPoolAssumption` alone:

* `Invariant`: `Spec => []IInv`;
* `CountersAreExact`, `FirstPrioIsExact`, `NoLostWakeup`, `ShrinkIsReached`,
  `FreeIsSafe`: the invariants `CountersExact`, `FirstPrioExact`,
  `NoJobLeftToSleepers`, `ShrinkReached` and `FreedAlone`.

That no job is left to sleepers is not inductive: a worker that was woken for a
job may find a limit lowered and quit, and one that was woken to quit may find a
job. `ClassInv` counts both uses of a wake-up at once: while a worker of a class
sleeps, the jobs it could take and the workers above the limit together are at
most the workers of the class that are starting or woken. It also says that no
more workers sleep than the limit allows. `PoolInv` states this for normal workers, who take any job, and
priority workers, who take priority jobs only, with the exact counters;
`JobsInv` is the list with its length and its first priority job; `DrainerInv`
says that whoever drains has stopped the pool. Lemmas on the cardinality of the
workers of a class in given states show what one move of a worker, one signal, a
broadcast and an expansion do to the counts.

### LockSpace

`LockSpaceProofs` proves for any number of daemons, resources, owners and inodes,
from `LockSpaceAssumption` alone:

* `Invariant`: `Spec => []IInv`;
* `Exclusive`, `OnPath`, `Backed`, `NoLeak`: the invariants `LeaseExclusive`,
  `LeaseOnPath`, `LeaseBacked` and `NoDescriptorLeak`;
* `Deletion`: the action property `DeleteUnleased`.

`LockSpaceAssumption` says that a name is either always created on demand or
never, and that only the latter are created and deleted explicitly; the lock
drivers use a lockspace in this way. Exclusion is not inductive: it follows from
two facts about files. Locks on one inode are compatible (`CompatInv`), and
whoever has a lease, or is about to delete the file, has the inode at the path
open (`PathInv`). The second is preserved by `unlink` only because the exclusive
lock of the daemon that deletes keeps every other user of the inode away, and by
an acquisition only because the path is looked at after the lock is taken.
`FileInv` and `OpInv` say which locks a daemon has at each step of an operation.
The lemma `Local` reduces a step of one daemon on one resource to what it says
about that pair and about pairs of daemons; every action but the crash and the
release for an owner, which touch all resources of a daemon, uses it.

### NetClient

Three modules prove for any number of calls and keep-alive messages and any
`KeepAliveCount`, from `NetClientAssumption` alone:

* `Invariant`: `Spec => []IInv`;
* `BuckIsHeld`, `WaitersAreKept`, `FramesAreWhole`: the invariants `BuckHeld`,
  `WaitersKept` and `Framing`;
* `DeathIsCounted`: the action property `DeadAfterCount`;
* `CallsAreIndependent`: `NetClient` implements `RpcCalls` (`ImplementsRpc`).

`IInv` says of some owner of the buck, or of nobody:

* `Placed`: the list holds the owner's call, those of the sleepers and those that
  are queued, each once, and nothing else;
* `Held`: `haveTheBuck` is set exactly when there is an owner, the owner has a
  socket, and nobody sleeps without an owner;
* `Clean`: between two steps no call of the list is complete;
* `Framed`: a message that is partly on the wire is the next one that will be
  written;
* `Spared` and `Counted`: `countToDeath`, the requests of the keep-alive that have
  no answer and the answers that were not read are together at least
  `KeepAliveCount`;
* `Answered`: a reply arrives only for a call that was written in full and served.

None of the properties is inductive without the others. A sleeper is woken
because the owner passes the buck to the head of a list that holds exactly the
sleepers and queued calls; a message is not torn because calls are queued at the
tail and removed only when they are complete or the connection ends; and the
main loop changes all of it within one step. `NetClientOpsProofs` therefore shows
first, operator by operator, what the functions of `virnetclient.c` do to the
list, the wire and the keep-alive while the owner stays the same;
`NetClientThreadProofs` puts them together for the input, the keep-alive and the main
loop; `NetClientProofs` has the ways out of the loop, the event loop, the other
threads and the server, and the theorems. The lemma of each action proves `Step`: the invariant,
what the action property asks, and what each call may do in the abstract
specification (`Moves`), so that the refinement follows without another pass
over the actions.

### Migration

`MigrationProofs` proves for any clients and options, any number of crashes,
overlapping clients and early completion, without any assumption:

* `CpusNeverShared`: the invariant `CpusExclusive`.

It is not inductive: that the other host has no running CPUs follows from its
lease. `LeaseInv` says that CPUs run under a lease and that one host has it. A
lemma per group of operations shows that each changes CPUs and lease in one of
four ways (not at all, by killing QEMU, by stopping the CPUs, by starting them
when the lease is free), and `SetKeepsInv` that these keep the invariant. What
carries the argument is that every path that starts the CPUs asks for the lease,
the error paths and the recovery included, and that the STOP event gives it up
only when they have stopped.

### Only model-checked

* Liveness, which is out of the prover's reach: `domain_job_live`, `JobsRun`,
  `DrainReturns` and `PrioJobsStarted` of `thread_pool`, `CallsReturn` and
  `QueuedSent` of `net_client`, `JobsEnd` of `migration`.
* Of `Migration`, everything but `CpusExclusive`: `ForkNeedsLoss`, `GuestKept`,
  `NoStaleAutoDestroy`, `FinishKeepsJob` and `Answered`. They relate the places of
  the clients, the handlers and the two hosts at every step of the protocol; the
  inductive invariant they need has not been written.
* `DomainJobDiscard`.

## Not modelled

* Of the migration: peer-to-peer and tunnelled mode, version 2, offline
  migration, storage over NBD, cookies and parameters, a user who suspends or
  destroys the guest meanwhile, I/O errors, and the death of QEMU.
* Of the RPC client: streams, SASL, TLS and descriptor passing. The server's end
  of the keep-alive.
* The RPC server, the domain list with its reference counts, object events and
  the QEMU monitor. They are concurrent and could be modelled in the same way;
  they are left out for their size, not because a model could not reach them. A
  monitor command is one step of the models that use it.
* The port allocator: each operation is one critical section on one bitmap.
* XML configuration (conversions of documents TLC cannot enumerate), drivers for
  host resources and other hypervisors (glue to external programs), and the
  generated dispatch code.
