----------------------------- MODULE Migration -----------------------------
(***************************************************************************)
(* The managed migration protocol, version 3, of a running or paused       *)
(* domain with change protection: a client calls Begin, Prepare, Perform,  *)
(* Finish and Confirm in turn on the two daemons (libvirt-domain.c), each  *)
(* daemon handles its calls (qemu_migration.c), the events of its QEMU and *)
(* the loss of connections, and recovers its job when it restarts          *)
(* (qemu_process.c).  Further clients resume a failed post-copy migration. *)
(*                                                                         *)
(* A step is what a thread does without giving up the domain object: the   *)
(* handlers that wait for QEMU, and those a crash may cut in two with      *)
(* something saved in between, take several.  QEMU and the lock manager    *)
(* are external: they keep their state when a daemon dies.                 *)
(***************************************************************************)
EXTENDS Naturals, FiniteSets

CONSTANTS
  Options,          \* what the migrations differ in, see opts
  Resumers,         \* clients that repeat the migration with POSTCOPY_RESUME
  MaxCrashes,       \* bound: crashes of the two daemons together
  EarlyCompletion,  \* post-copy may be over before the guest is started
  Overlap           \* a client may start before the others have ended

ASSUME MigrationAssumption ==
  /\ Options \subseteq [postcopy : BOOLEAN, paused : BOOLEAN, lock : BOOLEAN]
  /\ "mig" \notin Resumers /\ "none" \notin Resumers
  /\ MaxCrashes \in Nat /\ EarlyCompletion \in BOOLEAN /\ Overlap \in BOOLEAN

VARIABLES
  opts,    \* of this migration: post-copy enabled, guest paused, lock manager
  vm,      \* per host: the domain object, its job, its status file and its QEMU
  client,  \* per client: where it is in virDomainMigrateVersion3Full
  conn,    \* per client and host: the connection
  api,     \* per client and host: where the handler of its call is
  hist     \* history: lost answers, cut callbacks, other faults, number of crashes

vars == <<opts, vm, client, conn, api, hist>>

Hosts == {"src", "dst"}
Clients == {"mig"} \cup Resumers
Other(h) == IF h = "src" THEN "dst" ELSE "src"

\* qemuMigrationJobPhase
NONE == 0
BEGIN3 == 2
PERFORM3 == 3
PERFORM3_DONE == 4
CONFIRM3_CANCELLED == 5
CONFIRM3 == 6
PREPARE == 7
FINISH3 == 9
POSTCOPY_FAILED == 10
BEGIN_RESUME == 11
PERFORM_RESUME == 12
CONFIRM_RESUME == 13
PREPARE_RESUME == 14
FINISH_RESUME == 15

-----------------------------------------------------------------------------
(***************************************************************************)
(* Operations on the domain object v of a host.                            *)
(***************************************************************************)

\* qemuDomainSaveStatus
Save(v) ==
  [v EXCEPT !.disk = [state |-> v.state, reason |-> v.reason, job |-> v.job,
                      phase |-> v.phase, apaused |-> v.apaused]]

\* virDomainObjIsFailedPostcopy
IsFailedPostcopy(v) == v.alive /\ ((v.job /\ v.apaused) \/ v.reason = "postcopy_failed")

\* virDomainObjIsPostcopy
IsPostcopy(v) == v.alive /\ (IsFailedPostcopy(v) \/ v.reason = "postcopy")

\* qemuMigrationCheckPhase
CheckPhase(v, phase) == phase >= POSTCOPY_FAILED \/ phase >= v.phase

\* qemuMigrationJobSetPhase, qemuDomainObjSetJobPhase: nothing without a job
SetPhase(v, phase) == IF v.job THEN Save([v EXCEPT !.phase = phase]) ELSE v

\* qemuMigrationJobStartPhase, qemuDomainObjStartJobPhase
StartPhase(v, phase, c) == IF v.job THEN SetPhase([v EXCEPT !.owner = c], phase) ELSE v

\* qemuMigrationJobContinue, qemuDomainObjReleaseAsyncJob: the owner is not saved
JobContinue(v) == [v EXCEPT !.owner = "none"]

\* virDomainObjResetAsyncJob
NoJob(v) == [v EXCEPT !.job = FALSE, !.phase = NONE, !.owner = "none", !.apaused = FALSE]

\* qemuMigrationJobFinish, qemuDomainObjDiscardAsyncJob
JobFinish(v) == Save(NoJob(v))

\* qemuProcessStop: its cleanup callbacks discard the migration job
Stopped(v) ==
  Save([NoJob(v) EXCEPT !.alive = FALSE, !.cpus = FALSE, !.state = "shutoff", !.reason = "none",
                        !.auto = {}, !.lease = FALSE, !.mig = "none", !.listen = FALSE])

\* The lock manager: a lease is given to one of the hosts.
LeaseFree(h) == ~vm[Other(h)].lease

\* qemuProcessStartCPUs refuses without the lease.  Mutation: it resumes without it.
MayStart_NoLease(h) == TRUE

\* virDomainLockProcessResume in qemuProcessStartCPUs
MayStart(h) == opts.lock => LeaseFree(h)

\* QEMU resumes the guest, with the lease.
Resumed(v) == [v EXCEPT !.cpus = TRUE, !.lease = opts.lock, !.ran = TRUE]

\* qemuProcessHandleResume
HandleResume(v, reason) ==
  Save([v EXCEPT !.state = "running",
                 !.reason = IF IsFailedPostcopy(v) THEN "postcopy_failed"
                            ELSE IF IsPostcopy(v) THEN "postcopy" ELSE reason])

\* qemuProcessHandleStop
HandleStop(v) ==
  IF v.state = "running"
  THEN Save([v EXCEPT !.state = "paused", !.lease = FALSE,
                      !.reason = IF v.job THEN "migration" ELSE "unknown"])
  ELSE v

\* Mutation: a guest that was running is left paused.
SrcRestoreDomainState_Keep(h, v) == [v EXCEPT !.pre = "none"]

\* qemuMigrationSrcRestoreDomainState
SrcRestoreDomainState(h, v) ==
  LET w == [v EXCEPT !.pre = "none"]
  IN IF v.reason = "postcopy_failed" \/ v.pre # "running" \/ v.state # "paused" THEN w
     ELSE IF MayStart(h) THEN HandleResume(Resumed(w), "canceled")
     ELSE [w EXCEPT !.reason = "api_error"]

\* qemuMigrationSrcPostcopyFailed
SrcPostcopyFailed(v) ==
  IF v.state # "paused" \/ IsFailedPostcopy(v) THEN v
  ELSE [v EXCEPT !.apaused = TRUE, !.reason = "postcopy_failed"]

\* qemuMigrationDstPostcopyFailed: a guest paused for other reasons keeps its reason
DstPostcopyFailed(v) ==
  IF v.state \notin {"running", "paused"} \/ IsFailedPostcopy(v) THEN v
  ELSE [v EXCEPT !.apaused = TRUE, !.reason = IF v.state = "running" THEN "postcopy_failed" ELSE @]

AnyPostcopyFailed(h, v) == IF h = "src" THEN SrcPostcopyFailed(v) ELSE DstPostcopyFailed(v)

\* qemuMigrationSrcComplete
SrcComplete(v) == Stopped(v)

\* qemuMigrationDstComplete.  Mutation: the auto-destroy callback stays.
DstComplete_KeepAuto(v, inPostCopy) ==
  Save([v EXCEPT !.reason = IF v.state = "paused" THEN "user"
                            ELSE IF inPostCopy THEN "migrated" ELSE v.reason])

\* qemuMigrationDstComplete
DstComplete(v, inPostCopy) ==
  LET w == Save([v EXCEPT !.reason = IF v.state = "paused" THEN "user"
                                     ELSE IF inPostCopy THEN "migrated" ELSE v.reason])
  IN IF v.phase < POSTCOPY_FAILED THEN [w EXCEPT !.auto = {}] ELSE w

\* qemuMigrationAnyCanResume
AnyCanResume(v, c, expectedPhase) ==
  /\ v.job /\ v.owner \in {"none", c}
  /\ IsPostcopy(v)
  /\ v.phase >= POSTCOPY_FAILED \/ IsFailedPostcopy(v)
  /\ v.phase <= expectedPhase

-----------------------------------------------------------------------------
(***************************************************************************)
(* Calls: a client waits for one at a time, a handler outlives the         *)
(* connection of its client.                                               *)
(***************************************************************************)

At(c, h, pc) == vm[h].up /\ api[c][h] = pc

Set(h, v) == vm' = [vm EXCEPT ![h] = v]

\* The handler goes on at pc.
Goto(c, h, v, pc) ==
  /\ Set(h, v)
  /\ api' = [api EXCEPT ![c][h] = pc]
  /\ UNCHANGED <<opts, client, conn, hist>>

\* The handler returns; the answer arrives if the connection is still there.
Return(c, h, v, ok) ==
  /\ Set(h, v)
  /\ api' = [api EXCEPT ![c][h] = "idle"]
  /\ client' = IF conn[c][h] = "open"
               THEN [client EXCEPT ![c].rpc = IF ok THEN "ok" ELSE "fail"] ELSE client
  /\ UNCHANGED <<opts, conn, hist>>

-----------------------------------------------------------------------------
(***************************************************************************)
(* Begin, Perform and Confirm on the source.                               *)
(***************************************************************************)

\* qemuMigrationSrcBegin, with a failing qemuMigrationSrcBeginPhase
SrcBegin ==
  /\ At("mig", "src", "begin")
  /\ \E ok \in BOOLEAN, v \in {vm["src"]} :
       LET w == StartPhase([v EXCEPT !.job = TRUE, !.pre = v.state], BEGIN3, "mig")
       IN IF v.job \/ ~v.alive THEN ~ok /\ Return("mig", "src", v, FALSE)
          ELSE IF ok THEN Return("mig", "src", JobContinue([w EXCEPT !.cb = @ \cup {"mig"}]), TRUE)
          ELSE Return("mig", "src", JobFinish(w), FALSE)

\* qemuMigrationSrcBeginResumePhase, qemuMigrationSrcBeginResume
SrcBeginResumePhase(c) ==
  /\ At(c, "src", "begin") /\ c \in Resumers
  /\ \E v \in {vm["src"]} :
       LET w == [StartPhase(v, BEGIN_RESUME, c) EXCEPT !.cb = {c}]
       IN IF ~AnyCanResume(v, c, POSTCOPY_FAILED) THEN Return(c, "src", v, FALSE)
          ELSE IF v.mig = "paused" THEN Return(c, "src", JobContinue(w), TRUE)
          ELSE Return(c, "src", JobContinue(SetPhase(w, POSTCOPY_FAILED)), FALSE)

\* qemuMigrationSrcPerformPhase up to the wait in qemuMigrationSrcRun
SrcPerformPhase ==
  /\ At("mig", "src", "perform")
  /\ \E v \in {vm["src"]} :
       IF ~v.job THEN Return("mig", "src", v, FALSE)
       ELSE Goto("mig", "src", [StartPhase(v, PERFORM3, "mig") EXCEPT !.cb = {}, !.mig = "active"],
                 "performing")

\* qemuMigrationSrcContinue in qemuMigrationSrcRun
SrcContinue ==
  /\ At("mig", "src", "performing") /\ vm["src"].mig = "preswitch"
  /\ Goto("mig", "src", [vm["src"] EXCEPT !.mig = "device"], "performing")

\* The end of qemuMigrationSrcRun and qemuMigrationSrcPerformPhase: in post-copy
\* mode the source has done its part when the mode is entered.
SrcPerformDone ==
  /\ At("mig", "src", "performing")
  /\ vm["src"].mig \in {"completed"} \cup {m \in {"postcopy"} : opts.postcopy}
  /\ Return("mig", "src", JobContinue(SetPhase([vm["src"] EXCEPT !.cb = @ \cup {"mig"}], PERFORM3_DONE)),
            TRUE)

\* The error path of both: QEMU has given up
SrcPerformFailed ==
  /\ At("mig", "src", "performing") /\ vm["src"].mig \in {"failed", "paused"}
  /\ \E v \in {IF vm["src"].reason = "postcopy" THEN [vm["src"] EXCEPT !.reason = "migration"]
               ELSE vm["src"]} :
       Return("mig", "src",
              IF IsFailedPostcopy(v) THEN JobContinue(SetPhase(v, POSTCOPY_FAILED))
              ELSE JobFinish(SrcRestoreDomainState("src", v)), FALSE)

\* qemuMigrationSrcPerformResume; QEMU resumes only what is paused
SrcPerformResume(c) ==
  /\ At(c, "src", "perform") /\ c \in Resumers
  /\ \E v \in {vm["src"]} :
       LET w == [StartPhase(v, PERFORM_RESUME, c) EXCEPT !.cb = {}]
       IN IF ~AnyCanResume(v, c, BEGIN_RESUME) THEN Return(c, "src", v, FALSE)
          ELSE IF v.mig = "paused" THEN Goto(c, "src", [w EXCEPT !.mig = "recover"], "resuming")
          ELSE Return(c, "src", JobContinue(SetPhase([w EXCEPT !.cb = {c}], POSTCOPY_FAILED)), FALSE)

\* The wait in qemuMigrationSrcResume and the end of qemuMigrationSrcPerformResume
SrcResumeEnd(c) ==
  /\ At(c, "src", "resuming") /\ vm["src"].mig # "recover"
  /\ \E v \in {[vm["src"] EXCEPT !.cb = @ \cup {c}]} :
       IF v.mig \in {"postcopy", "completed"} THEN Return(c, "src", JobContinue(v), TRUE)
       ELSE Return(c, "src", JobContinue(SetPhase(v, POSTCOPY_FAILED)), FALSE)

\* The phase qemuMigrationSrcConfirm and then qemuMigrationSrcConfirmPhase start.
ConfirmPhase(v, c, success) ==
  IF c \in Resumers THEN CONFIRM_RESUME
  ELSE IF IsFailedPostcopy(v) THEN v.phase
  ELSE IF success THEN CONFIRM3 ELSE CONFIRM3_CANCELLED

\* Finish failed but QEMU has completed: qemuMigrationSrcConfirmPhase
ConfirmSuccess(v, c) == ~client[c].cancelled \/ (IsPostcopy(v) /\ v.mig = "completed")

\* qemuMigrationSrcConfirm up to the phase it saves
SrcConfirm(c) ==
  /\ At(c, "src", "confirm")
  /\ \E v \in {vm["src"]} :
       LET phase == ConfirmPhase(v, c, ~client[c].cancelled)
       IN IF IF c \in Resumers THEN AnyCanResume(v, c, PERFORM_RESUME)
             ELSE v.job /\ CheckPhase(v, phase)
          THEN Goto(c, "src", [StartPhase(v, phase, c) EXCEPT !.cb = {}], "confirming")
          ELSE Return(c, "src", v, FALSE)

\* The end of qemuMigrationSrcConfirm
ConfirmEnd(v) ==
  IF IsFailedPostcopy(v) THEN JobContinue(SetPhase(v, POSTCOPY_FAILED)) ELSE JobFinish(v)

\* qemuMigrationSrcConfirmPhase up to the phase it saves in turn
SrcConfirmPhase(c) ==
  /\ At(c, "src", "confirming")
  /\ \E v \in {vm["src"]} :
       LET success == ConfirmSuccess(v, c)
           phase == ConfirmPhase(v, c, success)
       IN IF CheckPhase(v, phase)
          THEN Goto(c, "src", StartPhase(v, phase, c), IF success THEN "confirmed" ELSE "cancelled")
          ELSE Return(c, "src", ConfirmEnd(v), FALSE)

\* qemuMigrationSrcConfirmPhase kills the source or resumes it
SrcConfirmEnd(c) ==
  \E v \in {vm["src"]} :
     \/ At(c, "src", "confirmed") /\ Return(c, "src", SrcComplete(v), TRUE)
     \/ /\ At(c, "src", "cancelled")
        /\ LET w == IF v.reason = "postcopy" THEN SrcPostcopyFailed(v)
                    ELSE IF IsFailedPostcopy(v) \/ ~v.alive THEN v
                    ELSE SrcRestoreDomainState("src", v)
           IN Return(c, "src", ConfirmEnd(w), TRUE)

-----------------------------------------------------------------------------
(***************************************************************************)
(* Prepare and Finish on the destination.                                  *)
(***************************************************************************)

\* qemuMigrationDstPrepareFresh and qemuMigrationDstPrepareActive
DstPrepareFresh ==
  /\ At("mig", "dst", "prepare")
  /\ \E ok \in BOOLEAN, v \in {vm["dst"]} :
       IF v.alive \/ ~ok \/ (opts.postcopy /\ opts.paused)
       THEN ~ok /\ Return("mig", "dst", v, FALSE)
       ELSE Return("mig", "dst",
                   JobContinue(StartPhase([v EXCEPT !.alive = TRUE, !.state = "paused",
                                                    !.reason = "migration", !.job = TRUE,
                                                    !.auto = {"mig"}, !.mig = "active"],
                                          PREPARE, "mig")), TRUE)

\* qemuMigrationDstPrepareResume, in which migrate-recover may fail; its cleanup runs
\* on every error
DstPrepareResume(c) ==
  /\ At(c, "dst", "prepare") /\ c \in Resumers
  /\ \E ok \in BOOLEAN, v \in {vm["dst"]} :
       LET w == StartPhase(v, PREPARE_RESUME, c)
       IN IF ~v.alive THEN Return(c, "dst", v, FALSE)
          ELSE IF ~AnyCanResume(v, c, POSTCOPY_FAILED)
          THEN Return(c, "dst", JobContinue(SetPhase(v, POSTCOPY_FAILED)), FALSE)
          ELSE IF v.mig # "paused" \/ ~ok
          THEN Return(c, "dst", JobContinue(SetPhase(w, POSTCOPY_FAILED)), FALSE)
          ELSE Return(c, "dst", JobContinue([w EXCEPT !.listen = TRUE, !.cb = @ \cup {c}]), TRUE)

\* Mutation: the guest of a failed post-copy migration is killed as well.
FinishFailed_Kill(v, doKill) == IF v.alive THEN Stopped(v) ELSE JobFinish(v)

\* The error path of qemuMigrationDstFinishActive and qemuMigrationDstFinish
FinishFailed(v, doKill) ==
  LET w == IF ~v.alive THEN v ELSE IF doKill THEN Stopped(v) ELSE DstPostcopyFailed(v)
  IN IF IsFailedPostcopy(w) THEN JobContinue([SetPhase(w, POSTCOPY_FAILED) EXCEPT !.auto = {}])
     ELSE JobFinish(w)

\* qemuMigrationDstFinish up to the first wait; with retcode # 0 there is none
DstFinish(c) ==
  \E pc \in {"finish", "giveup"}, v \in {vm["dst"]} :
     /\ At(c, "dst", pc)
     /\ LET resume == c \in Resumers
            w == IF resume THEN [StartPhase(v, FINISH_RESUME, c) EXCEPT !.cb = {}]
                 ELSE StartPhase(v, FINISH3, c)
        IN IF ~v.job \/ (IF resume THEN ~AnyCanResume(v, c, PREPARE_RESUME)
                         ELSE ~CheckPhase(v, FINISH3))
           THEN Return(c, "dst", v, FALSE)
           ELSE IF pc = "giveup" THEN Return(c, "dst", FinishFailed(w, ~resume), FALSE)
           ELSE Goto(c, "dst", w, IF resume THEN "waiting" ELSE "incoming")

\* qemuMigrationDstFinishFresh: QEMU has the data, or enough for post-copy.
DstFinishFresh ==
  /\ At("mig", "dst", "incoming") /\ vm["dst"].mig \in {"completed", "postcopy"}
  /\ \E v \in {vm["dst"]} :
       LET inPostCopy == v.mig = "postcopy"
           next == IF inPostCopy THEN "waiting" ELSE "finishing"
       IN IF opts.paused THEN Goto("mig", "dst", v, next)
          ELSE /\ MayStart("dst")
               /\ Goto("mig", "dst",
                       HandleResume(Resumed(v), IF inPostCopy THEN "postcopy" ELSE "migrated"), next)

\* A step of qemuMigrationDstFinishFresh fails, at the latest the start of the CPUs:
\* the guest is killed, as the source still has it.
DstFinishFreshFailed ==
  /\ At("mig", "dst", "incoming")
  /\ Return("mig", "dst", FinishFailed(vm["dst"], TRUE), FALSE)

\* The end of qemuMigrationDstFinishActive after a pre-copy migration
DstFinishActive ==
  /\ At("mig", "dst", "finishing")
  /\ Return("mig", "dst", JobFinish(DstComplete(vm["dst"], FALSE)), TRUE)

\* The second wait, with the guest running in post-copy mode
DstFinishPostcopy(c) ==
  /\ At(c, "dst", "waiting")
  /\ \E v \in {vm["dst"]} :
       \/ v.mig = "completed" /\ Return(c, "dst", JobFinish(DstComplete(v, TRUE)), TRUE)
       \/ v.mig \in {"paused", "failed", "none"} /\ Return(c, "dst", FinishFailed(v, FALSE), FALSE)

-----------------------------------------------------------------------------
(***************************************************************************)
(* What a daemon does without a call: close callbacks, events, recovery.   *)
(***************************************************************************)

\* The phases of a migration in post-copy mode that a client leaves.
InterruptedPostcopy(v) ==
  \/ v.phase = PERFORM3_DONE /\ IsPostcopy(v)
  \/ v.phase \in {POSTCOPY_FAILED, BEGIN_RESUME, PERFORM_RESUME, PREPARE_RESUME}

\* Mutation: a source that waits for Confirm is resumed when its client goes.
AnyConnectionClosed_Resume(h, v, c) ==
  IF InterruptedPostcopy(v) THEN JobContinue(AnyPostcopyFailed(h, StartPhase(v, POSTCOPY_FAILED, c)))
  ELSE IF v.phase \in {BEGIN3, PERFORM3_DONE}
  THEN SrcRestoreDomainState(h, StartPhase(v, CONFIRM3_CANCELLED, c))
  ELSE v

\* Mutation: the job of Begin is not aborted.
AnyConnectionClosed_KeepBegin(h, v, c) ==
  IF InterruptedPostcopy(v) THEN JobContinue(AnyPostcopyFailed(h, StartPhase(v, POSTCOPY_FAILED, c)))
  ELSE IF v.phase = PERFORM3_DONE THEN StartPhase(v, CONFIRM3_CANCELLED, c) ELSE v

\* qemuMigrationAnyConnectionClosed up to qemuMigrationParamsReset
AnyConnectionClosed(h, v, c) ==
  IF InterruptedPostcopy(v) THEN JobContinue(AnyPostcopyFailed(h, StartPhase(v, POSTCOPY_FAILED, c)))
  ELSE IF v.phase \in {BEGIN3, PERFORM3_DONE} THEN StartPhase(v, CONFIRM3_CANCELLED, c)
  ELSE v

\* virCloseCallbacksDomainRun, qemuProcessAutoDestroy: the connection is closed
\* when the last handler that uses it has returned.  A migration that is cancelled
\* waits in the callback for QEMU.
ConnectClose(c, h) ==
  /\ vm[h].up /\ conn[c][h] = "lost" /\ api[c][h] = "idle"
  /\ \E v \in {[vm[h] EXCEPT !.cb = @ \ {c}]} :
       LET w == IF c \in vm[h].auto THEN Stopped(v)
                ELSE IF c \in vm[h].cb /\ v.job THEN AnyConnectionClosed(h, v, c) ELSE v
           waits == w.phase = CONFIRM3_CANCELLED /\ v.phase # CONFIRM3_CANCELLED
       IN /\ Set(h, w)
          /\ conn' = [conn EXCEPT ![c][h] = IF waits THEN "closing" ELSE "closed"]
  /\ UNCHANGED <<opts, client, api, hist>>

\* The end of qemuMigrationAnyConnectionClosed: until then a crash leaves the phase
\* of a failed Finish, though nobody knows how Finish ended.
ConnectionClosedEnd(c, h) ==
  /\ vm[h].up /\ conn[c][h] = "closing"
  /\ Set(h, JobFinish(vm[h]))
  /\ conn' = [conn EXCEPT ![c][h] = "closed"]
  /\ UNCHANGED <<opts, client, api, hist>>

\* Mutation: every completed post-copy migration is taken for an unattended one.
HandleMigrationStatus_Attended(h, v, status) ==
  LET w == [v EXCEPT !.mig = status]
  IN IF v.up /\ v.job /\ status = "completed" /\ IsPostcopy(w) THEN [w EXCEPT !.unattended = TRUE] ELSE w

\* qemuProcessHandleMigrationStatus, for the status QEMU goes to
HandleMigrationStatus(h, v, status) ==
  LET w == [v EXCEPT !.mig = status]
  IN IF ~v.up \/ ~v.job THEN w
     ELSE IF status = "postcopy" /\ h = "src" /\ w.reason = "migration"
     THEN Save([w EXCEPT !.reason = "postcopy"])
     ELSE IF status = "paused" /\ h = "src" THEN Save(SrcPostcopyFailed(w))
     ELSE IF status = "recover" /\ IsFailedPostcopy(w)
     THEN Save([w EXCEPT !.apaused = FALSE, !.reason = "postcopy"])
     ELSE IF status = "completed" /\ IsPostcopy(w) /\ w.phase = POSTCOPY_FAILED /\ w.owner = "none"
     THEN [w EXCEPT !.unattended = TRUE]
     ELSE w

\* qemuMigrationProcessUnattended, run by a worker of the driver
ProcessUnattended(h) ==
  /\ vm[h].up /\ vm[h].unattended
  /\ \E v \in {[vm[h] EXCEPT !.unattended = FALSE]} :
       Set(h, IF ~v.job THEN v
              ELSE IF h = "src" THEN SrcComplete(v)
              ELSE JobFinish(DstComplete(StartPhase(v, FINISH_RESUME, "none"), TRUE)))
  /\ UNCHANGED <<opts, client, conn, api, hist>>

\* qemuProcessUpdateState: the state QEMU is in, with the reason it gives
UpdateState(v) ==
  IF v.state = "paused" /\ v.cpus THEN [v EXCEPT !.state = "running", !.reason = "unpaused"]
  ELSE IF v.state = "running" /\ ~v.cpus THEN [v EXCEPT !.state = "paused", !.reason = "migration"]
  ELSE v

\* The resume block of qemuProcessRecoverMigrationOut
RecoverResume(v) ==
  IF v.state = "paused" /\ v.reason \in {"migration", "unknown"} /\ MayStart("src")
  THEN HandleResume(Resumed(v), "canceled") ELSE v

\* qemuMigrationSrcCancelUnattended
SrcCancelUnattended(v) == IF v.mig \in {"completed", "failed"} THEN v ELSE [v EXCEPT !.mig = "failed"]

\* What qemuProcessRecoverMigrationOut and -In return: kill (-1), over (0), postcopy (1).
RecoverVerdict(h, v) ==
  LET postcopy == IsPostcopy(v)
  IN IF h = "src"
     THEN IF v.phase = CONFIRM3 THEN "kill"
          ELSE IF v.phase = CONFIRM_RESUME /\ v.mig = "completed" THEN "kill"
          ELSE IF v.phase >= POSTCOPY_FAILED THEN "postcopy"
          ELSE IF v.phase \in {PERFORM3_DONE, CONFIRM3_CANCELLED} /\ postcopy THEN "postcopy"
          ELSE "over"
     ELSE IF v.phase >= POSTCOPY_FAILED \/ (v.phase = FINISH3 /\ postcopy) THEN "postcopy"
          ELSE IF v.phase = FINISH3 /\ v.state = "running" THEN "over"
          ELSE "kill"

\* qemuProcessRecoverMigration; v still has the job of the status file
RecoverMigration(h, v) ==
  CASE RecoverVerdict(h, v) = "kill" -> Stopped(v)
    [] RecoverVerdict(h, v) = "over" ->
         IF h = "src" /\ v.phase = PERFORM3 THEN RecoverResume(NoJob(SrcCancelUnattended(v)))
         ELSE IF h = "src" /\ v.phase = CONFIRM3_CANCELLED THEN RecoverResume(NoJob(v))
         ELSE NoJob(v)
    [] OTHER ->
         LET w == [v EXCEPT !.phase = POSTCOPY_FAILED]
         IN IF w.mig = "postcopy" THEN [w EXCEPT !.apaused = FALSE]
            ELSE IF w.mig # "completed" THEN [AnyPostcopyFailed(h, w) EXCEPT !.apaused = TRUE]
            ELSE IF h = "src" THEN SrcComplete(w)
            ELSE JobFinish(DstComplete(w, TRUE))

\* qemuProcessReconnect of a new daemon
Reconnect(h) ==
  /\ ~vm[h].up
  /\ \E d \in {vm[h].disk} :
       LET v == [vm[h] EXCEPT !.up = TRUE, !.state = d.state, !.reason = d.reason, !.job = d.job,
                              !.phase = d.phase, !.apaused = d.apaused]
           w == UpdateState(v)
       IN Set(h, IF ~v.alive THEN v ELSE IF ~v.job THEN Save(w) ELSE Save(RecoverMigration(h, w)))
  /\ UNCHANGED <<opts, client, conn, api, hist>>

-----------------------------------------------------------------------------
(***************************************************************************)
(* QEMU on both hosts (external).  A daemon that runs handles each change  *)
(* of status as it comes; one that is down learns of it when it restarts.  *)
(***************************************************************************)

Status(h) == vm[h].mig

\* QEMU of h goes to status.
Changes(h, status) ==
  /\ vm[h].alive
  /\ Set(h, HandleMigrationStatus(h, vm[h], status))
  /\ UNCHANGED <<opts, client, conn, api, hist>>

\* pause-before-switchover: the CPUs stop before the last data are sent
QemuPreSwitchover ==
  /\ Status("src") = "active" /\ Status("dst") = "active"
  /\ \E v \in {[vm["src"] EXCEPT !.mig = "preswitch", !.cpus = FALSE]} :
       Set("src", IF v.up THEN HandleStop(v) ELSE v)
  /\ UNCHANGED <<opts, client, conn, api, hist>>

QemuSrc ==
  \/ Status("src") \in {"active", "preswitch", "device"} /\ Changes("src", "failed")
  \/ Status("src") = "device" /\ vm["dst"].alive /\ Changes("src", "completed")
  \/ Status("src") = "device" /\ opts.postcopy /\ Status("dst") = "active" /\ Changes("src", "postcopy")
  \/ Status("src") = "postcopy" /\ Status("dst") = "completed" /\ Changes("src", "completed")
  \/ Status("src") \in {"postcopy", "recover"} /\ Changes("src", "paused")

QemuDst ==
  \/ Status("dst") = "active" /\ Status("src") \in {"device", "completed"} /\ Changes("dst", "completed")
  \/ Status("dst") = "active" /\ Status("src") \in {"postcopy", "paused"} /\ Changes("dst", "postcopy")
  \/ Status("dst") = "active" /\ Changes("dst", "failed")
  \/ /\ Status("dst") = "postcopy" /\ Status("src") = "postcopy" /\ (EarlyCompletion \/ vm["dst"].ran)
     /\ Changes("dst", "completed")
  \/ Status("dst") = "postcopy" /\ Changes("dst", "paused")

\* postcopy-recover and postcopy-active on both sides of a new channel
QemuRecover ==
  /\ Status("src") = "recover" /\ Status("dst") = "paused" /\ vm["dst"].listen
  /\ vm' = [h \in Hosts |->
              HandleMigrationStatus(h, HandleMigrationStatus(h, [vm[h] EXCEPT !.listen = FALSE],
                                                             "recover"), "postcopy")]
  /\ UNCHANGED <<opts, client, conn, api, hist>>

-----------------------------------------------------------------------------
(***************************************************************************)
(* virDomainMigrateVersion3Full and the faults around it.                  *)
(***************************************************************************)

HostOf(pc) == IF pc \in {"prepare", "finish"} THEN "dst" ELSE "src"

\* A call on a connection that is gone fails at once.
Call(c, pc, r) ==
  \E h \in {HostOf(pc)} :
     /\ client' = [client EXCEPT ![c] = [r EXCEPT !.pc = pc,
                     !.rpc = IF conn[c][h] = "open" THEN "wait" ELSE "fail"]]
     /\ api' = IF conn[c][h] = "open"
               THEN [api EXCEPT ![c][h] = IF pc = "finish" /\ r.cancelled THEN "giveup" ELSE pc]
               ELSE api
     /\ UNCHANGED <<opts, vm, conn, hist>>

Done(c, r) == client' = [client EXCEPT ![c] = [r EXCEPT !.pc = "done", !.rpc = "none"]]
              /\ UNCHANGED <<opts, vm, conn, api, hist>>

\* virDomainMigrate3, by a resumer once the migration has started
Migrate(c) ==
  /\ client[c].pc = "idle"
  /\ c \in Resumers => client["mig"].pc # "idle"
  /\ \A h \in Hosts : vm[h].up
  /\ Overlap \/ \A d \in Clients : client[d].pc \in {"idle", "done", "gone"}
                                   /\ \A h \in Hosts : api[d][h] = "idle"
  /\ Call(c, "begin", client[c])

\* The next phase, given how the last call ended.
MigrateVersion3(c) ==
  /\ client[c].rpc \in {"ok", "fail"}
  /\ \E r \in {client[c]} :
       LET ok == r.rpc = "ok"
       IN CASE r.pc = "begin" -> IF ok THEN Call(c, "prepare", r) ELSE Done(c, r)
            [] r.pc = "prepare" -> Call(c, IF ok THEN "perform" ELSE "confirm", r)
            [] r.pc = "perform" -> Call(c, "finish", [r EXCEPT !.notify = ok, !.cancelled = ~ok])
            [] r.pc = "finish" ->
                 LET q == [r EXCEPT !.cancelled = ~ok, !.ddomain = ok]
                 IN IF r.notify THEN Call(c, "confirm", q) ELSE Done(c, q)
            [] OTHER -> Done(c, r)  \* after Confirm

Waits(c, h) == client[c].rpc = "wait" /\ HostOf(client[c].pc) = h

\* The connection breaks: a waiting call fails, an answer or a request that was
\* not read yet is lost.
ConnectionLost(c, h) ==
  /\ conn[c][h] = "open" /\ client[c].pc \notin {"idle", "done"}
  /\ conn' = [conn EXCEPT ![c][h] = "lost"]
  /\ client' = IF Waits(c, h) THEN [client EXCEPT ![c].rpc = "fail"] ELSE client
  /\ \E gone \in BOOLEAN :
       api' = IF gone /\ api[c][h] \in {client[c].pc, "giveup"}
              THEN [api EXCEPT ![c][h] = "idle"] ELSE api
  /\ hist' = [hist EXCEPT !.fault = TRUE, !.lost = @ \/ (Waits(c, h) /\ client[c].pc = "finish")]
  /\ UNCHANGED <<opts, vm>>

\* The client closes its connections, or dies.
Disconnect(c) ==
  /\ client[c].pc \notin {"idle", "gone"}
  /\ client' = [client EXCEPT ![c].pc = "gone", ![c].rpc = "none"]
  /\ conn' = [conn EXCEPT ![c] = [h \in Hosts |-> IF @[h] = "open" THEN "lost" ELSE @[h]]]
  /\ hist' = [hist EXCEPT !.fault = @ \/ client[c].pc \notin {"idle", "done"}]
  /\ UNCHANGED <<opts, vm, api>>

\* The daemon of h dies and leaves its QEMU and v behind.
Dies(h, v) ==
  /\ hist.crashes < MaxCrashes
  /\ Set(h, [v EXCEPT !.up = FALSE, !.owner = "none", !.cb = {}, !.auto = {}, !.pre = "none",
                      !.unattended = FALSE])
  /\ api' = [c \in Clients |-> [api[c] EXCEPT ![h] = "idle"]]
  /\ conn' = [c \in Clients |-> IF client[c].pc = "idle" THEN conn[c] ELSE [conn[c] EXCEPT ![h] = "closed"]]
  /\ client' = [c \in Clients |-> IF Waits(c, h) THEN [client[c] EXCEPT !.rpc = "fail"] ELSE client[c]]
  /\ hist' = [hist EXCEPT !.fault = TRUE, !.crashes = @ + 1,
                          !.cut = @ \/ \E c \in Clients : conn[c][h] = "closing",
                          !.lost = @ \/ \E c \in Clients : Waits(c, h) /\ client[c].pc = "finish"]
  /\ UNCHANGED opts

Crash(h) == vm[h].up /\ Dies(h, vm[h])

\* qemuProcessStartCPUs has resumed the guest, qemuProcessHandleResume comes too late.
CrashStartingCPUs ==
  /\ At("mig", "dst", "incoming") /\ vm["dst"].mig \in {"completed", "postcopy"}
  /\ ~opts.paused /\ MayStart("dst")
  /\ Dies("dst", Resumed(vm["dst"]))

-----------------------------------------------------------------------------
Init ==
  /\ opts \in Options
  /\ vm = [h \in Hosts |->
             LET on == h = "src"
                 runs == on /\ ~opts.paused
                 state == IF ~on THEN "shutoff" ELSE IF runs THEN "running" ELSE "paused"
                 reason == IF ~on THEN "none" ELSE IF runs THEN "booted" ELSE "user"
             IN [up |-> TRUE, alive |-> on, cpus |-> runs, ran |-> FALSE, lease |-> runs /\ opts.lock,
                 mig |-> "none", listen |-> FALSE, state |-> state, reason |-> reason,
                 job |-> FALSE, phase |-> NONE, owner |-> "none", apaused |-> FALSE,
                 cb |-> {}, auto |-> {}, pre |-> "none", unattended |-> FALSE,
                 disk |-> [state |-> state, reason |-> reason, job |-> FALSE, phase |-> NONE,
                           apaused |-> FALSE]]]
  /\ client = [c \in Clients |-> [pc |-> "idle", rpc |-> "none", cancelled |-> TRUE,
                                  notify |-> TRUE, ddomain |-> FALSE]]
  /\ conn = [c \in Clients |-> [h \in Hosts |-> "open"]]
  /\ api = [c \in Clients |-> [h \in Hosts |-> "idle"]]
  /\ hist = [lost |-> FALSE, cut |-> FALSE, fault |-> FALSE, crashes |-> 0]

\* Steps of the code and of QEMU, which end: a migration is repeated by another client.
Progress ==
  \/ SrcBegin \/ SrcPerformPhase \/ SrcContinue \/ SrcPerformDone \/ SrcPerformFailed
  \/ DstPrepareFresh \/ DstFinishFresh \/ DstFinishFreshFailed \/ DstFinishActive
  \/ QemuPreSwitchover \/ QemuSrc \/ QemuDst \/ QemuRecover
  \/ \E c \in Clients :
       \/ SrcBeginResumePhase(c) \/ SrcPerformResume(c) \/ SrcResumeEnd(c)
       \/ SrcConfirm(c) \/ SrcConfirmPhase(c) \/ SrcConfirmEnd(c)
       \/ DstPrepareResume(c) \/ DstFinish(c) \/ DstFinishPostcopy(c)
       \/ MigrateVersion3(c)
       \/ \E h \in Hosts : ConnectClose(c, h) \/ ConnectionClosedEnd(c, h)
  \/ \E h \in Hosts : ProcessUnattended(h) \/ Reconnect(h)

Environment ==
  \/ \E c \in Clients : Migrate(c) \/ Disconnect(c) \/ \E h \in Hosts : ConnectionLost(c, h)
  \/ \E h \in Hosts : Crash(h)
  \/ CrashStartingCPUs

Next == Progress \/ Environment

Spec == Init /\ [][Next]_vars

\* The code and QEMU do not stop; faults need not happen.
FairSpec == Spec /\ WF_vars(Progress)
-----------------------------------------------------------------------------
\* With a lock manager at most one of the two QEMUs runs the guest, whatever is
\* lost, dies or is retried: qemuProcessStartCPUs takes the leases first and
\* qemuProcessHandleStop gives them up.
CpusExclusive == opts.lock => ~(vm["src"].cpus /\ vm["dst"].cpus)

\* Without one, the guest runs on both hosts in two cases only.  The answer of Finish
\* was lost, which the comment in virDomainMigrateVersion3Full knows of.  Or the
\* daemon of the source died in qemuMigrationAnyConnectionClosed, and recovery
\* took CONFIRM3_CANCELLED for the phase of a failed Finish.
ForkNeedsLoss == vm["src"].cpus /\ vm["dst"].cpus => hist.lost \/ hist.cut

\* The guest is never lost: until it has run on the destination the source is kept,
\* then the destination is kept, and the source too while pages are missing there.
\* Kill, auto-destroy, Confirm, unattended completion and recovery all obey.
GuestKept ==
  \E src \in {vm["src"]}, dst \in {vm["dst"]} :
     \/ src.alive /\ ~dst.ran
     \/ dst.alive /\ dst.mig = "completed"
     \/ src.alive /\ dst.alive

\* A guest whose incoming migration is over is not destroyed when the client closes
\* its connection: qemuMigrationDstComplete has removed qemuProcessAutoDestroy.
NoStaleAutoDestroy ==
  \E dst \in {vm["dst"]} : dst.up /\ dst.alive /\ ~dst.job => dst.auto = {}

\* While qemuMigrationDstWaitForCompletion waits for a post-copy migration its job
\* (it reads vm->job->current) is there: the handler of unattended completion ends
\* only a job that no thread waits for.  Of clients that overlap it says nothing.
FinishKeepsJob ==
  \A c \in Clients : At(c, "dst", "waiting") /\ vm["dst"].alive => vm["dst"].job

\* The guest is on the source as it was before Begin.
AsBefore ==
  /\ ~vm["dst"].alive /\ ~vm["src"].job
  /\ vm["src"].cpus = ~opts.paused
  /\ vm["src"].lease = (opts.lock /\ ~opts.paused)
  /\ vm["src"].state = IF opts.paused THEN "paused" ELSE "running"

\* A failed post-copy migration waits for a client that resumes it.
CanBeResumed(h) ==
  /\ IsFailedPostcopy(vm[h]) /\ vm[h].job
  /\ vm[h].phase = POSTCOPY_FAILED /\ vm[h].owner = "none"

\* The source has failed in post-copy mode and the destination was killed before the
\* guest ran there: Begin of a resumed migration would succeed, Prepare finds no domain.
Stranded == CanBeResumed("src") /\ ~vm["dst"].alive /\ ~vm["dst"].ran

\* What virDomainMigrateVersion3Full returns is true.  A domain: it is complete on
\* the destination, without a job.  An error, when no connection or daemon was lost:
\* the source is as it was, or post-copy has failed and can be resumed on both
\* hosts, or Finish has killed a destination that never ran and the guest is left
\* paused on the source.
Answered ==
  /\ \A c \in Clients : client[c].ddomain /\ client[c].pc = "done" =>
        vm["dst"].alive /\ vm["dst"].mig = "completed" /\ ~vm["dst"].job
  /\ /\ client["mig"].pc = "done" /\ ~client["mig"].ddomain /\ ~hist.fault
     /\ \A c \in Resumers : client[c].pc = "idle"
     => AsBefore \/ (\A h \in Hosts : CanBeResumed(h)) \/ Stranded

Quiet(h) == ~vm[h].job \/ (vm[h].phase = POSTCOPY_FAILED /\ vm[h].owner = "none")

\* No migration job stays for ever: both hosts end theirs or keep it, without an
\* owner, for a client that resumes the post-copy migration.  Close callbacks and
\* recovery take over from clients and daemons that died.
JobsEnd == (\E h \in Hosts : vm[h].job) ~> (\A h \in Hosts : Quiet(h))
=============================================================================
