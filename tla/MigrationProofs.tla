-------------------------- MODULE MigrationProofs --------------------------
(***************************************************************************)
(* Proof that a lock manager keeps the guest from running on both hosts,   *)
(* for any clients, options and number of crashes, also when clients       *)
(* overlap and when post-copy completes early.  Handlers change the CPUs   *)
(* and the lease of a host in four ways only: not at all, by killing QEMU, *)
(* by stopping the CPUs, or by starting them once the lease is free.       *)
(***************************************************************************)
EXTENDS Migration, TLAPS

\* v has the two fields the proof is about.
HasLease(v) == "cpus" \in DOMAIN v /\ "lease" \in DOMAIN v

\* w has the CPUs and the lease of v.
Keeps(v, w) == HasLease(w) /\ w.cpus = v.cpus /\ w.lease = v.lease

\* QEMU is gone, and with it the lease.
Ends(w) == HasLease(w) /\ w.cpus = FALSE /\ w.lease = FALSE

\* The CPUs of h were started with the lease.
Starts(h, w) == HasLease(w) /\ MayStart(h) /\ w.lease = opts.lock

\* The CPUs stopped, the lease is still held.
Pauses(v, w) == HasLease(w) /\ w.cpus = FALSE /\ w.lease = v.lease

\* What one step may do with the domain object v of h.
Allowed(h, v, w) == Keeps(v, w) \/ Ends(w) \/ Pauses(v, w) \/ Starts(h, w)

\* The inductive invariant: CPUs run under a lease, and only one host has it.
LeaseInv ==
  /\ DOMAIN vm = Hosts
  /\ \A h \in Hosts : HasLease(vm[h])
  /\ opts.lock => \A h \in Hosts : vm[h].cpus => vm[h].lease
  /\ opts.lock => ~(vm["src"].lease /\ vm["dst"].lease)

-----------------------------------------------------------------------------
\* Saving the status and changing the job leave CPUs and lease alone
\* (qemuDomainSaveStatus, qemuDomainObjSetJobPhase, virDomainObjEndAsyncJob).
LEMMA JobKeeps ==
  ASSUME NEW v, HasLease(v), NEW p, NEW c
  PROVE  /\ Keeps(v, Save(v)) /\ Keeps(v, JobContinue(v)) /\ Keeps(v, NoJob(v))
         /\ Keeps(v, JobFinish(v)) /\ Keeps(v, SetPhase(v, p)) /\ Keeps(v, StartPhase(v, p, c))
<1>1. ASSUME NEW u, HasLease(u) PROVE Keeps(u, Save(u)) /\ Keeps(u, JobContinue(u)) /\ Keeps(u, NoJob(u))
  BY <1>1 DEF HasLease, Keeps, Save, JobContinue, NoJob
<1>2. Keeps(v, JobFinish(v))
  BY <1>1 DEF JobFinish, Keeps
<1>3. ASSUME NEW u, HasLease(u) PROVE Keeps(u, SetPhase(u, p))
  <2>1. HasLease([u EXCEPT !.phase = p]) /\ Keeps(u, [u EXCEPT !.phase = p])
    BY <1>3 DEF HasLease, Keeps
  <2> QED BY <2>1, <1>1, <1>3 DEF SetPhase, Keeps
<1>4. Keeps(v, StartPhase(v, p, c))
  <2>1. HasLease([v EXCEPT !.owner = c]) /\ Keeps(v, [v EXCEPT !.owner = c])
    BY DEF HasLease, Keeps
  <2> QED BY <2>1, <1>3 DEF StartPhase, Keeps
<1> QED BY <1>1, <1>2, <1>3, <1>4

\* So do the marks of a failed post-copy migration and its completion
\* (qemuMigrationSrcPostcopyFailed, qemuMigrationDstComplete).
LEMMA PostcopyKeeps ==
  ASSUME NEW v, HasLease(v), NEW h, NEW b
  PROVE  /\ Keeps(v, SrcPostcopyFailed(v)) /\ Keeps(v, DstPostcopyFailed(v))
         /\ Keeps(v, AnyPostcopyFailed(h, v)) /\ Keeps(v, DstComplete(v, b))
<1>1. Keeps(v, SrcPostcopyFailed(v))
  BY DEF HasLease, Keeps, SrcPostcopyFailed
<1>2. Keeps(v, DstPostcopyFailed(v))
  BY DEF HasLease, Keeps, DstPostcopyFailed
<1>3. ASSUME NEW r PROVE Keeps(v, Save([v EXCEPT !.reason = r]))
  <2>1. HasLease([v EXCEPT !.reason = r]) /\ Keeps(v, [v EXCEPT !.reason = r])
    BY DEF HasLease, Keeps
  <2> QED BY <2>1, JobKeeps DEF Keeps
<1>4. ASSUME NEW w, Keeps(v, w) PROVE Keeps(v, [w EXCEPT !.auto = {}])
  BY <1>4 DEF HasLease, Keeps
<1>5. Keeps(v, DstComplete(v, b))
  BY <1>3, <1>4 DEF DstComplete
<1> QED BY <1>1, <1>2, <1>5 DEF AnyPostcopyFailed

\* qemuProcessStop leaves neither CPUs nor a lease.
LEMMA StoppedEnds ==
  ASSUME NEW v, HasLease(v)
  PROVE  Ends(Stopped(v)) /\ Ends(SrcComplete(v))
<1> DEFINE w == [NoJob(v) EXCEPT !.alive = FALSE, !.cpus = FALSE, !.state = "shutoff", !.reason = "none",
                        !.auto = {}, !.lease = FALSE, !.mig = "none", !.listen = FALSE]
<1>1. HasLease(NoJob(v))
  BY JobKeeps DEF Keeps
<1>2. Ends(w)
  BY <1>1 DEF HasLease, Ends
<1>3. Keeps(w, Save(w))
  BY <1>2, JobKeeps DEF Ends
<1>4. Stopped(v) = Save(w)
  BY DEF Stopped
<1> HIDE DEF w
<1>5. Ends(Stopped(v))
  BY <1>2, <1>3, <1>4 DEF Ends, Keeps
<1> QED BY <1>5 DEF SrcComplete

\* Events handled while QEMU goes on, and the state found at reconnect, keep both
\* (qemuProcessHandleResume, qemuProcessHandleMigrationStatus, qemuProcessUpdateState,
\* qemuMigrationSrcCancelUnattended, qemuMigrationAnyConnectionClosed).
LEMMA EventKeeps ==
  ASSUME NEW v, HasLease(v), NEW h, NEW x
  PROVE  /\ Keeps(v, HandleResume(v, x)) /\ Keeps(v, HandleMigrationStatus(h, v, x))
         /\ Keeps(v, UpdateState(v)) /\ Keeps(v, SrcCancelUnattended(v))
         /\ Keeps(v, AnyConnectionClosed(h, v, x))
<1>1. ASSUME NEW w, Keeps(v, w) PROVE Keeps(v, Save(w))
  BY <1>1, JobKeeps DEF Keeps
<1>2. Keeps(v, HandleResume(v, x))
  <2>1. ASSUME NEW r PROVE Keeps(v, [v EXCEPT !.state = "running", !.reason = r])
    BY DEF HasLease, Keeps
  <2> QED BY <2>1, <1>1 DEF HandleResume
<1>3. Keeps(v, HandleMigrationStatus(h, v, x))
  <2>1. ASSUME NEW w, Keeps(v, w)
        PROVE  /\ Keeps(v, [w EXCEPT !.reason = "postcopy"])
               /\ Keeps(v, [w EXCEPT !.apaused = FALSE, !.reason = "postcopy"])
               /\ Keeps(v, [w EXCEPT !.unattended = TRUE])
    BY <2>1 DEF HasLease, Keeps
  <2>2. Keeps(v, [v EXCEPT !.mig = x])
    BY DEF HasLease, Keeps
  <2>3. ASSUME NEW w, Keeps(v, w) PROVE Keeps(v, Save(SrcPostcopyFailed(w)))
    BY <2>3, <1>1, PostcopyKeeps DEF Keeps
  <2> QED BY <2>1, <2>2, <2>3, <1>1 DEF HandleMigrationStatus
<1>4. Keeps(v, UpdateState(v)) /\ Keeps(v, SrcCancelUnattended(v))
  BY DEF HasLease, Keeps, UpdateState, SrcCancelUnattended
<1>5. Keeps(v, AnyConnectionClosed(h, v, x))
  <2>1. Keeps(v, v)
    BY DEF Keeps
  <2>2. \A p : Keeps(v, StartPhase(v, p, x))
    BY JobKeeps
  <2>3. Keeps(v, AnyPostcopyFailed(h, StartPhase(v, POSTCOPY_FAILED, x)))
    BY <2>2, PostcopyKeeps DEF Keeps
  <2>4. Keeps(v, JobContinue(AnyPostcopyFailed(h, StartPhase(v, POSTCOPY_FAILED, x))))
    BY <2>3, JobKeeps DEF Keeps
  <2> QED BY <2>1, <2>2, <2>4 DEF AnyConnectionClosed
<1> QED BY <1>2, <1>3, <1>4, <1>5

\* What is allowed stays allowed when the job is changed or the status saved afterwards.
LEMMA AllowedKeeps ==
  ASSUME NEW h, NEW v, NEW w, NEW u
  PROVE  /\ Keeps(v, w) => Allowed(h, v, w)
         /\ Allowed(h, v, w) => HasLease(w)
         /\ Allowed(h, v, w) /\ Keeps(w, u) => Allowed(h, v, u)
         /\ Keeps(v, w) /\ Keeps(w, u) => Keeps(v, u)
         /\ Keeps(v, w) /\ Allowed(h, w, u) => Allowed(h, v, u)
BY DEF Allowed, Keeps, Ends, Pauses, Starts

\* qemuProcessStartCPUs with the RESUME event, after the lock manager has agreed.
LEMMA ResumedStarts ==
  ASSUME NEW h, NEW v, HasLease(v), MayStart(h), NEW x
  PROVE  Starts(h, Resumed(v)) /\ Starts(h, HandleResume(Resumed(v), x))
<1>1. Starts(h, Resumed(v))
  BY DEF Starts, HasLease, Resumed
<1> QED BY <1>1, EventKeeps DEF Starts, Keeps

\* The error paths resume the source, or kill, within what is allowed
\* (qemuMigrationSrcRestoreDomainState, qemuMigrationDstFinishActive).
LEMMA FailureAllowed ==
  ASSUME NEW h, NEW v, HasLease(v), NEW b
  PROVE  /\ Allowed(h, v, SrcRestoreDomainState(h, v))
         /\ Allowed(h, v, FinishFailed(v, b))
         /\ Allowed("src", v, RecoverResume(v))
<1>1. Keeps(v, [v EXCEPT !.pre = "none"])
  BY DEF HasLease, Keeps
<1>2. ASSUME NEW w, Keeps(v, w) PROVE Keeps(v, [w EXCEPT !.reason = "api_error"])
  BY <1>2 DEF HasLease, Keeps
<1>3. Allowed(h, v, SrcRestoreDomainState(h, v))
  <2> DEFINE w == [v EXCEPT !.pre = "none"]
  <2>1. HasLease(w)
    BY <1>1 DEF Keeps
  <2>2. SrcRestoreDomainState(h, v) = w \/ SrcRestoreDomainState(h, v) = [w EXCEPT !.reason = "api_error"]
        \/ (MayStart(h) /\ SrcRestoreDomainState(h, v) = HandleResume(Resumed(w), "canceled"))
    BY DEF SrcRestoreDomainState
  <2> HIDE DEF w
  <2>3. MayStart(h) => Starts(h, HandleResume(Resumed(w), "canceled"))
    BY <2>1, ResumedStarts
  <2>4. Keeps(v, w)
    BY <1>1 DEF w
  <2> QED BY <2>2, <2>3, <2>4, <1>2 DEF Allowed
<1>4. Allowed("src", v, RecoverResume(v))
  BY ResumedStarts DEF RecoverResume, Allowed, Keeps
<1>5. Allowed(h, v, FinishFailed(v, b))
  <2> DEFINE w == IF ~v.alive THEN v ELSE IF b THEN Stopped(v) ELSE DstPostcopyFailed(v)
  <2>1. Allowed(h, v, w)
    BY StoppedEnds, PostcopyKeeps DEF Allowed, Keeps
  <2>2. FinishFailed(v, b) = JobContinue([SetPhase(w, POSTCOPY_FAILED) EXCEPT !.auto = {}])
        \/ FinishFailed(v, b) = JobFinish(w)
    BY DEF FinishFailed
  <2> HIDE DEF w
  <2>3. HasLease(w)
    BY <2>1, AllowedKeeps
  <2>4. Keeps(w, JobFinish(w)) /\ Keeps(w, SetPhase(w, POSTCOPY_FAILED))
    BY <2>3, JobKeeps
  <2>5. Keeps(w, [SetPhase(w, POSTCOPY_FAILED) EXCEPT !.auto = {}])
    BY <2>4 DEF Keeps, HasLease
  <2>6. Keeps(w, JobContinue([SetPhase(w, POSTCOPY_FAILED) EXCEPT !.auto = {}]))
    BY <2>5, JobKeeps DEF Keeps
  <2> QED BY <2>1, <2>2, <2>4, <2>6, AllowedKeeps
<1> QED BY <1>3, <1>4, <1>5

\* Recovery after a restart kills, resumes the source under the lease, or keeps.
LEMMA RecoverAllowed ==
  ASSUME NEW h \in Hosts, NEW v, HasLease(v)
  PROVE  Allowed(h, v, RecoverMigration(h, v))
<1>1. CASE RecoverVerdict(h, v) = "kill"
  BY <1>1, StoppedEnds DEF RecoverMigration, Allowed
<1>2. CASE RecoverVerdict(h, v) = "over"
  <2>1. Keeps(v, NoJob(v)) /\ Keeps(v, SrcCancelUnattended(v))
    BY JobKeeps, EventKeeps
  <2>2. Keeps(v, NoJob(SrcCancelUnattended(v)))
    BY <2>1, JobKeeps, AllowedKeeps DEF Keeps
  <2>3. ASSUME NEW w, Keeps(v, w) PROVE Allowed("src", v, RecoverResume(w))
    BY <2>3, FailureAllowed, AllowedKeeps DEF Keeps
  <2> QED BY <1>2, <2>1, <2>2, <2>3, AllowedKeeps DEF RecoverMigration
<1>3. CASE RecoverVerdict(h, v) \notin {"kill", "over"}
  <2> DEFINE w == [v EXCEPT !.phase = POSTCOPY_FAILED]
  <2>1. Keeps(v, w)
    BY DEF HasLease, Keeps
  <2>2. \/ RecoverMigration(h, v) = [w EXCEPT !.apaused = FALSE]
        \/ RecoverMigration(h, v) = [AnyPostcopyFailed(h, w) EXCEPT !.apaused = TRUE]
        \/ RecoverMigration(h, v) = SrcComplete(w)
        \/ RecoverMigration(h, v) = JobFinish(DstComplete(w, TRUE))
    BY <1>3 DEF RecoverMigration
  <2> HIDE DEF w
  <2>3. Keeps(w, [w EXCEPT !.apaused = FALSE])
    BY <2>1 DEF HasLease, Keeps
  <2>4. Keeps(w, AnyPostcopyFailed(h, w)) /\ Keeps(w, DstComplete(w, TRUE)) /\ Ends(SrcComplete(w))
    BY <2>1, PostcopyKeeps, StoppedEnds DEF Keeps
  <2>5. Keeps(w, [AnyPostcopyFailed(h, w) EXCEPT !.apaused = TRUE])
    BY <2>4 DEF HasLease, Keeps
  <2>6. Keeps(w, JobFinish(DstComplete(w, TRUE)))
    BY <2>4, JobKeeps DEF Keeps
  <2>7. Allowed(h, w, RecoverMigration(h, v))
    BY <2>2, <2>3, <2>4, <2>5, <2>6 DEF Allowed
  <2> QED BY <2>1, <2>7, AllowedKeeps
<1> QED BY <1>1, <1>2, <1>3

-----------------------------------------------------------------------------
\* A step that gives one host an allowed object keeps the invariant: the lease it
\* may take is free.
LEMMA SetKeepsInv ==
  ASSUME LeaseInv, NEW h \in Hosts, NEW w, Allowed(h, vm[h], w), Set(h, w), UNCHANGED opts
  PROVE  LeaseInv'
<1>1. vm' = [vm EXCEPT ![h] = w] /\ opts' = opts
  BY DEF Set
<1>2. DOMAIN vm' = Hosts /\ vm'[h] = w /\ \A k \in Hosts \ {h} : vm'[k] = vm[k]
  BY <1>1 DEF LeaseInv
<1>3. \A k \in Hosts : HasLease(vm'[k])
  BY <1>2, AllowedKeeps DEF LeaseInv
<1>4. ASSUME opts.lock PROVE \A k \in Hosts : vm'[k].cpus => vm'[k].lease
  BY <1>2, <1>4 DEF LeaseInv, Allowed, Keeps, Ends, Pauses, Starts
<1>5. ASSUME opts.lock PROVE ~(vm'["src"].lease /\ vm'["dst"].lease)
  <2>1. CASE h = "src"
    BY <1>2, <1>5, <2>1 DEF Hosts, LeaseInv, Allowed, Keeps, Ends, Pauses, Starts, MayStart, LeaseFree, Other
  <2>2. CASE h = "dst"
    BY <1>2, <1>5, <2>2 DEF Hosts, LeaseInv, Allowed, Keeps, Ends, Pauses, Starts, MayStart, LeaseFree, Other
  <2> QED BY <2>1, <2>2 DEF Hosts
<1>6. HasLease(vm'["src"]) /\ HasLease(vm'["dst"])
  BY <1>3 DEF Hosts
<1> QED BY <1>1, <1>2, <1>3, <1>4, <1>5 DEF LeaseInv, HasLease

\* The same for a handler that goes on, or returns (Goto, Return).
LEMMA HandlerKeepsInv ==
  ASSUME LeaseInv, NEW h \in Hosts, NEW w, Allowed(h, vm[h], w), NEW c, NEW x,
         Goto(c, h, w, x) \/ Return(c, h, w, x)
  PROVE  LeaseInv'
BY SetKeepsInv DEF Goto, Return

\* A step that leaves the objects alone.
LEMMA UnchangedKeepsInv ==
  ASSUME LeaseInv, UNCHANGED <<opts, vm>>
  PROVE  LeaseInv'
BY DEF LeaseInv, HasLease

-----------------------------------------------------------------------------
\* The handlers of the source.
LEMMA SourceKeepsInv ==
  ASSUME LeaseInv, NEW c,
         \/ SrcBegin \/ SrcPerformPhase \/ SrcContinue \/ SrcPerformDone \/ SrcPerformFailed
         \/ SrcBeginResumePhase(c) \/ SrcPerformResume(c) \/ SrcResumeEnd(c)
         \/ SrcConfirm(c) \/ SrcConfirmPhase(c) \/ SrcConfirmEnd(c)
  PROVE  LeaseInv'
<1> DEFINE v == vm["src"]
<1>1. "src" \in Hosts /\ HasLease(v)
  BY DEF LeaseInv, Hosts
<1>2. Keeps(v, v)
  BY <1>1 DEF Keeps
<1>3. ASSUME NEW w, Keeps(v, w), NEW d, NEW x, Goto(d, "src", w, x) \/ Return(d, "src", w, x)
      PROVE  LeaseInv'
  BY <1>1, <1>3, HandlerKeepsInv, AllowedKeeps
<1>4. ASSUME NEW w, Keeps(v, w), NEW p, NEW d
      PROVE  /\ Keeps(v, JobContinue(w)) /\ Keeps(v, JobFinish(w)) /\ Keeps(v, SetPhase(w, p))
             /\ Keeps(v, StartPhase(w, p, d)) /\ Keeps(v, SrcPostcopyFailed(w))
  BY <1>4, JobKeeps, PostcopyKeeps, AllowedKeeps DEF Keeps
<1>5. ASSUME NEW w, Keeps(v, w), NEW x
      PROVE  /\ Keeps(v, [w EXCEPT !.cb = x]) /\ Keeps(v, [w EXCEPT !.mig = x])
             /\ Keeps(v, [w EXCEPT !.reason = x]) /\ Keeps(v, [w EXCEPT !.job = TRUE, !.pre = x])
             /\ Keeps(v, [w EXCEPT !.cb = {}, !.mig = x])
  BY <1>5 DEF Keeps, HasLease
<1> HIDE DEF v
<1>6. CASE SrcBegin
  <2> DEFINE w == StartPhase([v EXCEPT !.job = TRUE, !.pre = v.state], BEGIN3, "mig")
  <2>1. Keeps(v, w)
    BY <1>2, <1>4, <1>5
  <2> DEFINE u == [w EXCEPT !.cb = w.cb \cup {"mig"}]
  <2>2. Keeps(v, JobContinue(u))
    BY <2>1, <1>4, <1>5
  <2>3. Keeps(v, JobFinish(w))
    BY <2>1, <1>4
  <2>4. \E ok \in BOOLEAN : \/ Return("mig", "src", v, FALSE) \/ Return("mig", "src", JobContinue(u), TRUE)
                            \/ Return("mig", "src", JobFinish(w), FALSE)
    BY <1>6 DEF SrcBegin, v
  <2> QED BY <2>2, <2>3, <2>4, <1>2, <1>3
<1>7. CASE SrcBeginResumePhase(c)
  <2> DEFINE w == [StartPhase(v, BEGIN_RESUME, c) EXCEPT !.cb = {c}]
  <2>1. Keeps(v, w)
    BY <1>2, <1>4, <1>5
  <2>2. Keeps(v, JobContinue(w)) /\ Keeps(v, JobContinue(SetPhase(w, POSTCOPY_FAILED)))
    BY <2>1, <1>4
  <2>3. \/ Return(c, "src", v, FALSE) \/ Return(c, "src", JobContinue(w), TRUE)
        \/ Return(c, "src", JobContinue(SetPhase(w, POSTCOPY_FAILED)), FALSE)
    BY <1>7 DEF SrcBeginResumePhase, v
  <2> QED BY <2>2, <2>3, <1>2, <1>3
<1>8. CASE SrcPerformPhase
  <2> DEFINE w == [StartPhase(v, PERFORM3, "mig") EXCEPT !.cb = {}, !.mig = "active"]
  <2>1. Keeps(v, w)
    BY <1>2, <1>4, <1>5
  <2>2. Return("mig", "src", v, FALSE) \/ Goto("mig", "src", w, "performing")
    BY <1>8 DEF SrcPerformPhase, v
  <2> QED BY <2>1, <2>2, <1>2, <1>3
<1>9. CASE SrcContinue
  <2>1. Goto("mig", "src", [v EXCEPT !.mig = "device"], "performing")
    BY <1>9 DEF SrcContinue, v
  <2> QED BY <2>1, <1>2, <1>3, <1>5
<1>10. CASE SrcPerformDone
  <2>1. Return("mig", "src", JobContinue(SetPhase([v EXCEPT !.cb = v.cb \cup {"mig"}], PERFORM3_DONE)), TRUE)
    BY <1>10 DEF SrcPerformDone, v
  <2>2. Keeps(v, JobContinue(SetPhase([v EXCEPT !.cb = v.cb \cup {"mig"}], PERFORM3_DONE)))
    BY <1>2, <1>4, <1>5
  <2> QED BY <2>1, <2>2, <1>3
<1>11. CASE SrcPerformFailed
  <2> DEFINE w == IF v.reason = "postcopy" THEN [v EXCEPT !.reason = "migration"] ELSE v
  <2>1. \/ Return("mig", "src", JobContinue(SetPhase(w, POSTCOPY_FAILED)), FALSE)
        \/ Return("mig", "src", JobFinish(SrcRestoreDomainState("src", w)), FALSE)
    BY <1>11 DEF SrcPerformFailed, v
  <2>2. Keeps(v, w)
    BY <1>2, <1>5
  <2> HIDE DEF w
  <2>3. Allowed("src", v, SrcRestoreDomainState("src", w))
    BY <2>2, FailureAllowed, AllowedKeeps DEF Keeps
  <2>4. Allowed("src", v, JobFinish(SrcRestoreDomainState("src", w)))
    BY <2>3, JobKeeps, AllowedKeeps
  <2>5. Keeps(v, JobContinue(SetPhase(w, POSTCOPY_FAILED)))
    BY <2>2, <1>4
  <2> QED BY <2>1, <2>4, <2>5, <1>1, <1>3, HandlerKeepsInv DEF v
<1>12. CASE SrcPerformResume(c)
  <2> DEFINE w == [StartPhase(v, PERFORM_RESUME, c) EXCEPT !.cb = {}]
  <2>1. Keeps(v, w)
    BY <1>2, <1>4, <1>5
  <2>2. Keeps(v, [w EXCEPT !.mig = "recover"]) /\ Keeps(v, [w EXCEPT !.cb = {c}])
    BY <2>1, <1>5
  <2>3. Keeps(v, JobContinue(SetPhase([w EXCEPT !.cb = {c}], POSTCOPY_FAILED)))
    BY <2>2, <1>4
  <2>4. \/ Return(c, "src", v, FALSE) \/ Goto(c, "src", [w EXCEPT !.mig = "recover"], "resuming")
        \/ Return(c, "src", JobContinue(SetPhase([w EXCEPT !.cb = {c}], POSTCOPY_FAILED)), FALSE)
    BY <1>12 DEF SrcPerformResume, v
  <2> QED BY <2>2, <2>3, <2>4, <1>2, <1>3
<1>13. CASE SrcResumeEnd(c)
  <2> DEFINE w == [v EXCEPT !.cb = v.cb \cup {c}]
  <2>1. Keeps(v, w)
    BY <1>2, <1>5
  <2>2. Keeps(v, JobContinue(w)) /\ Keeps(v, JobContinue(SetPhase(w, POSTCOPY_FAILED)))
    BY <2>1, <1>4
  <2>3. Return(c, "src", JobContinue(w), TRUE) \/ Return(c, "src", JobContinue(SetPhase(w, POSTCOPY_FAILED)), FALSE)
    BY <1>13 DEF SrcResumeEnd, v
  <2> QED BY <2>2, <2>3, <1>3
<1>14. CASE SrcConfirm(c)
  <2>1. PICK p, x : Return(c, "src", v, FALSE) \/ Goto(c, "src", [StartPhase(v, p, c) EXCEPT !.cb = {}], x)
    BY <1>14 DEF SrcConfirm, v
  <2>2. Keeps(v, [StartPhase(v, p, c) EXCEPT !.cb = {}])
    BY <1>2, <1>4, <1>5
  <2> QED BY <2>1, <2>2, <1>2, <1>3
<1>15. CASE SrcConfirmEnd(c)
  <2>1. \/ Return(c, "src", SrcComplete(v), TRUE)
        \/ \E w \in {v, SrcPostcopyFailed(v), SrcRestoreDomainState("src", v)} :
              \/ Return(c, "src", JobContinue(SetPhase(w, POSTCOPY_FAILED)), TRUE)
              \/ Return(c, "src", JobFinish(w), TRUE)
    BY <1>15 DEF SrcConfirmEnd, ConfirmEnd, v
  <2>2. ASSUME NEW w, Allowed("src", v, w)
        PROVE  Allowed("src", v, JobFinish(w)) /\ Allowed("src", v, JobContinue(SetPhase(w, POSTCOPY_FAILED)))
    <3>1. Keeps(w, JobFinish(w)) /\ Keeps(w, SetPhase(w, POSTCOPY_FAILED))
      BY <2>2, JobKeeps, AllowedKeeps
    <3>2. Keeps(w, JobContinue(SetPhase(w, POSTCOPY_FAILED)))
      BY <3>1, JobKeeps, AllowedKeeps DEF Keeps
    <3> QED BY <2>2, <3>1, <3>2, AllowedKeeps
  <2>3. /\ Allowed("src", v, v) /\ Allowed("src", v, SrcPostcopyFailed(v))
        /\ Allowed("src", v, SrcRestoreDomainState("src", v)) /\ Allowed("src", v, SrcComplete(v))
    BY <1>1, <1>2, <1>4, FailureAllowed, StoppedEnds DEF Allowed
  <2> QED BY <2>1, <2>2, <2>3, <1>1, HandlerKeepsInv DEF v
<1>16. CASE SrcConfirmPhase(c)
  <2>1. PICK p, x : \/ Goto(c, "src", StartPhase(v, p, c), x)
                    \/ Return(c, "src", JobContinue(SetPhase(v, POSTCOPY_FAILED)), FALSE)
                    \/ Return(c, "src", JobFinish(v), FALSE)
    BY <1>16 DEF SrcConfirmPhase, ConfirmEnd, v
  <2>2. /\ Keeps(v, StartPhase(v, p, c)) /\ Keeps(v, JobFinish(v))
        /\ Keeps(v, JobContinue(SetPhase(v, POSTCOPY_FAILED)))
    BY <1>2, <1>4
  <2> QED BY <2>1, <2>2, <1>3
<1> QED BY <1>6, <1>7, <1>8, <1>9, <1>10, <1>11, <1>12, <1>13, <1>14, <1>15, <1>16

\* The handlers of the destination.
LEMMA DestinationKeepsInv ==
  ASSUME LeaseInv, NEW c,
         \/ DstPrepareFresh \/ DstFinishFresh \/ DstFinishFreshFailed \/ DstFinishActive
         \/ DstPrepareResume(c) \/ DstFinish(c) \/ DstFinishPostcopy(c)
  PROVE  LeaseInv'
<1> DEFINE v == vm["dst"]
<1>1. "dst" \in Hosts /\ HasLease(v)
  BY DEF LeaseInv, Hosts
<1>2. Keeps(v, v)
  BY <1>1 DEF Keeps
<1>3. ASSUME NEW w, Allowed("dst", v, w), NEW d, NEW x, Goto(d, "dst", w, x) \/ Return(d, "dst", w, x)
      PROVE  LeaseInv'
  BY <1>1, <1>3, HandlerKeepsInv
<1>4. ASSUME NEW w, Keeps(v, w), NEW p, NEW d
      PROVE  /\ Keeps(v, JobContinue(w)) /\ Keeps(v, JobFinish(w)) /\ Keeps(v, SetPhase(w, p))
             /\ Keeps(v, StartPhase(w, p, d)) /\ Keeps(v, DstComplete(w, p))
  BY <1>4, JobKeeps, PostcopyKeeps, AllowedKeeps DEF Keeps
<1>5. ASSUME NEW w, Keeps(v, w), NEW x
      PROVE  Keeps(v, [w EXCEPT !.cb = x]) /\ Keeps(v, [w EXCEPT !.listen = TRUE, !.cb = x])
  BY <1>5 DEF Keeps, HasLease
<1>6. ASSUME NEW w, Keeps(v, w) PROVE Allowed("dst", v, w)
  BY <1>6, AllowedKeeps
<1>7. ASSUME NEW w, Keeps(v, w), NEW b PROVE Allowed("dst", v, FinishFailed(w, b))
  BY <1>7, FailureAllowed, AllowedKeeps DEF Keeps
<1> HIDE DEF v
<1>8. CASE DstPrepareFresh
  <2> DEFINE u == [v EXCEPT !.alive = TRUE, !.state = "paused", !.reason = "migration", !.job = TRUE,
                            !.auto = {"mig"}, !.mig = "active"]
  <2>1. Keeps(v, u)
    BY <1>1 DEF Keeps, HasLease
  <2>2. Return("mig", "dst", v, FALSE) \/ Return("mig", "dst", JobContinue(StartPhase(u, PREPARE, "mig")), TRUE)
    BY <1>8 DEF DstPrepareFresh, v
  <2> HIDE DEF u
  <2>3. Keeps(v, JobContinue(StartPhase(u, PREPARE, "mig")))
    BY <2>1, <1>4
  <2> QED BY <2>2, <2>3, <1>2, <1>3, <1>6
<1>9. CASE DstPrepareResume(c)
  <2> DEFINE w == StartPhase(v, PREPARE_RESUME, c)
             u == [w EXCEPT !.listen = TRUE, !.cb = w.cb \cup {c}]
  <2>1. Keeps(v, w)
    BY <1>2, <1>4
  <2>2. Keeps(v, u)
    BY <2>1, <1>5
  <2>3. \/ Return(c, "dst", v, FALSE) \/ Return(c, "dst", JobContinue(SetPhase(v, POSTCOPY_FAILED)), FALSE)
        \/ Return(c, "dst", JobContinue(SetPhase(w, POSTCOPY_FAILED)), FALSE)
        \/ Return(c, "dst", JobContinue(u), TRUE)
    BY <1>9 DEF DstPrepareResume, v
  <2> HIDE DEF w, u
  <2>4. /\ Keeps(v, JobContinue(SetPhase(v, POSTCOPY_FAILED)))
        /\ Keeps(v, JobContinue(SetPhase(w, POSTCOPY_FAILED))) /\ Keeps(v, JobContinue(u))
    BY <2>1, <2>2, <1>2, <1>4
  <2> QED BY <2>3, <2>4, <1>2, <1>3, <1>6
<1>10. CASE DstFinish(c)
  <2> DEFINE u == [StartPhase(v, FINISH_RESUME, c) EXCEPT !.cb = {}]
             w == StartPhase(v, FINISH3, c)
  <2>1. Keeps(v, u) /\ Keeps(v, w)
    BY <1>2, <1>4, <1>5
  <2>2. \/ Return(c, "dst", v, FALSE)
        \/ Return(c, "dst", FinishFailed(u, FALSE), FALSE) \/ Return(c, "dst", FinishFailed(w, TRUE), FALSE)
        \/ Goto(c, "dst", u, "waiting") \/ Goto(c, "dst", w, "incoming")
    <3> HIDE DEF u, w
    <3>1. CASE c \in Resumers
      BY <1>10, <3>1 DEF DstFinish, v, u
    <3>2. CASE c \notin Resumers
      BY <1>10, <3>2 DEF DstFinish, v, w
    <3> QED BY <3>1, <3>2
  <2> HIDE DEF u, w
  <2>3. Allowed("dst", v, FinishFailed(u, FALSE)) /\ Allowed("dst", v, FinishFailed(w, TRUE))
    BY <2>1, <1>7
  <2> QED BY <2>1, <2>2, <2>3, <1>2, <1>3, <1>6
<1>11. CASE DstFinishFresh
  <2>1. PICK x, r : \/ Goto("mig", "dst", v, x)
                    \/ MayStart("dst") /\ Goto("mig", "dst", HandleResume(Resumed(v), r), x)
    BY <1>11 DEF DstFinishFresh, v
  <2>2. MayStart("dst") => Allowed("dst", v, HandleResume(Resumed(v), r))
    BY <1>1, ResumedStarts DEF Allowed
  <2> QED BY <2>1, <2>2, <1>2, <1>3, <1>6
<1>12. CASE DstFinishFreshFailed
  <2>1. Return("mig", "dst", FinishFailed(v, TRUE), FALSE)
    BY <1>12 DEF DstFinishFreshFailed, v
  <2> QED BY <2>1, <1>2, <1>3, <1>7
<1>13. CASE DstFinishActive
  <2>1. Return("mig", "dst", JobFinish(DstComplete(v, FALSE)), TRUE)
    BY <1>13 DEF DstFinishActive, v
  <2>2. Keeps(v, JobFinish(DstComplete(v, FALSE)))
    BY <1>2, <1>4
  <2> QED BY <2>1, <2>2, <1>3, <1>6
<1>14. CASE DstFinishPostcopy(c)
  <2>1. \/ Return(c, "dst", JobFinish(DstComplete(v, TRUE)), TRUE)
        \/ Return(c, "dst", FinishFailed(v, FALSE), FALSE)
    BY <1>14 DEF DstFinishPostcopy, v
  <2>2. Keeps(v, JobFinish(DstComplete(v, TRUE)))
    BY <1>2, <1>4
  <2> QED BY <2>1, <2>2, <1>2, <1>3, <1>6, <1>7
<1> QED BY <1>8, <1>9, <1>10, <1>11, <1>12, <1>13, <1>14

\* Close callbacks, unattended completion and reconnection.
LEMMA DaemonKeepsInv ==
  ASSUME LeaseInv, NEW h \in Hosts, NEW c,
         ConnectClose(c, h) \/ ConnectionClosedEnd(c, h) \/ ProcessUnattended(h) \/ Reconnect(h)
  PROVE  LeaseInv'
<1>1. HasLease(vm[h])
  BY DEF LeaseInv
<1>2. CASE ConnectClose(c, h)
  <2> DEFINE v == [vm[h] EXCEPT !.cb = vm[h].cb \ {c}]
  <2>1. Keeps(vm[h], v)
    BY <1>1 DEF Keeps, HasLease
  <2>2. UNCHANGED opts /\ (Set(h, Stopped(v)) \/ Set(h, AnyConnectionClosed(h, v, c)) \/ Set(h, v))
    BY <1>2 DEF ConnectClose
  <2> HIDE DEF v
  <2>3. /\ Allowed(h, vm[h], Stopped(v)) /\ Allowed(h, vm[h], AnyConnectionClosed(h, v, c))
        /\ Allowed(h, vm[h], v)
    <3>1. HasLease(v)
      BY <2>1 DEF Keeps
    <3>2. Ends(Stopped(v)) /\ Keeps(v, AnyConnectionClosed(h, v, c))
      BY <3>1, StoppedEnds, EventKeeps
    <3> QED BY <2>1, <3>2, AllowedKeeps DEF Allowed
  <2> QED BY <2>2, <2>3, SetKeepsInv
<1>3. CASE ProcessUnattended(h)
  <2> DEFINE v == [vm[h] EXCEPT !.unattended = FALSE]
             w == StartPhase(v, FINISH_RESUME, "none")
  <2>1. Keeps(vm[h], v)
    BY <1>1 DEF Keeps, HasLease
  <2>2. UNCHANGED opts /\ (Set(h, v) \/ Set(h, SrcComplete(v)) \/ Set(h, JobFinish(DstComplete(w, TRUE))))
    BY <1>3 DEF ProcessUnattended
  <2> HIDE DEF v
  <2>3. Keeps(v, w) /\ Ends(SrcComplete(v))
    BY <2>1, JobKeeps, StoppedEnds DEF Keeps
  <2> HIDE DEF w
  <2>4. Keeps(w, DstComplete(w, TRUE))
    BY <2>3, PostcopyKeeps DEF Keeps
  <2>5. Keeps(v, JobFinish(DstComplete(w, TRUE)))
    BY <2>3, <2>4, JobKeeps DEF Keeps
  <2>6. /\ Allowed(h, vm[h], v) /\ Allowed(h, vm[h], SrcComplete(v))
        /\ Allowed(h, vm[h], JobFinish(DstComplete(w, TRUE)))
    BY <2>1, <2>3, <2>5, AllowedKeeps DEF Allowed
  <2> QED BY <2>2, <2>6, SetKeepsInv
<1>4. CASE Reconnect(h)
  <2> DEFINE d == vm[h].disk
             v == [vm[h] EXCEPT !.up = TRUE, !.state = d.state, !.reason = d.reason, !.job = d.job,
                                !.phase = d.phase, !.apaused = d.apaused]
             w == UpdateState(v)
  <2>1. Keeps(vm[h], v)
    BY <1>1 DEF Keeps, HasLease
  <2>2. UNCHANGED opts /\ (Set(h, v) \/ Set(h, Save(w)) \/ Set(h, Save(RecoverMigration(h, w))))
    BY <1>4 DEF Reconnect
  <2> HIDE DEF v
  <2>3. Keeps(v, w)
    BY <2>1, EventKeeps DEF Keeps
  <2> HIDE DEF w
  <2>4. Keeps(vm[h], w)
    BY <2>1, <2>3, AllowedKeeps
  <2>5. Keeps(w, Save(w)) /\ Allowed(h, w, RecoverMigration(h, w))
    BY <2>4, JobKeeps, RecoverAllowed DEF Keeps
  <2>6. Keeps(RecoverMigration(h, w), Save(RecoverMigration(h, w)))
    BY <2>5, JobKeeps, AllowedKeeps
  <2>7. Allowed(h, vm[h], RecoverMigration(h, w))
    BY <2>4, <2>5, AllowedKeeps
  <2>8. Allowed(h, vm[h], Save(w)) /\ Allowed(h, vm[h], Save(RecoverMigration(h, w)))
    BY <2>4, <2>5, <2>6, <2>7, AllowedKeeps
  <2> QED BY <2>1, <2>2, <2>8, SetKeepsInv, AllowedKeeps
<1>5. CASE ConnectionClosedEnd(c, h)
  <2>1. UNCHANGED opts /\ Set(h, JobFinish(vm[h]))
    BY <1>5 DEF ConnectionClosedEnd
  <2>2. Allowed(h, vm[h], JobFinish(vm[h]))
    BY <1>1, JobKeeps DEF Allowed
  <2> QED BY <2>1, <2>2, SetKeepsInv
<1> QED BY <1>2, <1>3, <1>4, <1>5

\* QEMU: its CPUs stop before the STOP event gives the lease up, never after.
LEMMA QemuKeepsInv ==
  ASSUME LeaseInv, QemuPreSwitchover \/ QemuSrc \/ QemuDst \/ QemuRecover
  PROVE  LeaseInv'
<1>1. \A h \in Hosts : HasLease(vm[h])
  BY DEF LeaseInv
<1>2. ASSUME NEW h \in Hosts, NEW x, Changes(h, x) PROVE LeaseInv'
  BY <1>1, <1>2, SetKeepsInv, EventKeeps, AllowedKeeps DEF Changes
<1>3. CASE QemuSrc \/ QemuDst
  BY <1>2, <1>3 DEF QemuSrc, QemuDst, Hosts
<1>4. CASE QemuPreSwitchover
  <2> DEFINE v == [vm["src"] EXCEPT !.mig = "preswitch", !.cpus = FALSE]
  <2>1. "src" \in Hosts /\ Pauses(vm["src"], v)
    BY <1>1 DEF Hosts, HasLease, Pauses
  <2>2. UNCHANGED opts /\ (Set("src", v) \/ Set("src", HandleStop(v)))
    BY <1>4 DEF QemuPreSwitchover
  <2> HIDE DEF v
  <2>3. ASSUME NEW r
        PROVE  Ends([v EXCEPT !.state = "paused", !.lease = FALSE, !.reason = r])
    BY <2>1 DEF Ends, Pauses, HasLease
  <2>4. ASSUME NEW w, Ends(w) PROVE Ends(Save(w))
    BY <2>4, JobKeeps DEF Ends, Keeps
  <2>5. Allowed("src", vm["src"], HandleStop(v)) /\ Allowed("src", vm["src"], v)
    BY <2>1, <2>3, <2>4 DEF HandleStop, Allowed
  <2> QED BY <2>1, <2>2, <2>5, SetKeepsInv
<1>5. CASE QemuRecover
  <2>1. ASSUME NEW h \in Hosts PROVE Keeps(vm[h], vm'[h])
    <3> DEFINE u == [vm[h] EXCEPT !.listen = FALSE]
               w == HandleMigrationStatus(h, u, "recover")
    <3>1. Keeps(vm[h], u)
      BY <1>1 DEF Keeps, HasLease
    <3>2. vm'[h] = HandleMigrationStatus(h, w, "postcopy")
      BY <1>5 DEF QemuRecover
    <3> HIDE DEF u
    <3>3. Keeps(u, w)
      BY <3>1, EventKeeps DEF Keeps
    <3> HIDE DEF w
    <3>4. Keeps(w, HandleMigrationStatus(h, w, "postcopy"))
      BY <3>3, EventKeeps DEF Keeps
    <3> QED BY <3>1, <3>2, <3>3, <3>4 DEF Keeps
  <2>2. DOMAIN vm' = Hosts /\ UNCHANGED opts
    BY <1>5 DEF QemuRecover
  <2>3. \A h \in Hosts : HasLease(vm'[h]) /\ vm'[h].cpus = vm[h].cpus /\ vm'[h].lease = vm[h].lease
    BY <2>1 DEF Keeps
  <2>4. \A h \in Hosts : HasLease(vm[h])'
    BY <2>3 DEF HasLease
  <2>5. ASSUME opts'.lock
        PROVE  (\A h \in Hosts : vm'[h].cpus => vm'[h].lease) /\ ~(vm'["src"].lease /\ vm'["dst"].lease)
    BY <2>2, <2>3, <2>5 DEF LeaseInv, Hosts
  <2> QED BY <2>2, <2>4, <2>5 DEF LeaseInv
<1> QED BY <1>3, <1>4, <1>5

\* Clients, connections and crashes: a daemon that dies may have started the CPUs,
\* then with the lease.
LEMMA FaultKeepsInv ==
  ASSUME LeaseInv, NEW c, NEW h \in Hosts,
         \/ MigrateVersion3(c) \/ Migrate(c) \/ Disconnect(c) \/ ConnectionLost(c, h)
         \/ Crash(h) \/ CrashStartingCPUs
  PROVE  LeaseInv'
<1>1. CASE MigrateVersion3(c)
  <2>1. UNCHANGED <<opts, vm>>
    BY <1>1 DEF MigrateVersion3, Call, Done
  <2> QED BY <2>1, UnchangedKeepsInv
<1>2. CASE Migrate(c)
  BY <1>2, UnchangedKeepsInv DEF Migrate, Call
<1>3. CASE Disconnect(c) \/ ConnectionLost(c, h)
  BY <1>3, UnchangedKeepsInv DEF Disconnect, ConnectionLost
<1>4. ASSUME NEW k \in Hosts, NEW v, Allowed(k, vm[k], v), Dies(k, v) PROVE LeaseInv'
  <2> DEFINE w == [v EXCEPT !.up = FALSE, !.owner = "none", !.cb = {}, !.auto = {}, !.pre = "none",
                            !.unattended = FALSE]
  <2>1. Keeps(v, w)
    BY <1>4, AllowedKeeps DEF Keeps, HasLease
  <2>2. UNCHANGED opts /\ Set(k, w)
    BY <1>4 DEF Dies
  <2> HIDE DEF w
  <2> QED BY <1>4, <2>1, <2>2, AllowedKeeps, SetKeepsInv
<1>5. CASE Crash(h)
  <2>1. Allowed(h, vm[h], vm[h])
    BY DEF LeaseInv, Allowed, Keeps
  <2> QED BY <1>4, <1>5, <2>1 DEF Crash
<1>6. CASE CrashStartingCPUs
  <2>1. "dst" \in Hosts /\ HasLease(vm["dst"])
    BY DEF LeaseInv, Hosts
  <2>2. Allowed("dst", vm["dst"], Resumed(vm["dst"]))
    BY <1>6, <2>1, ResumedStarts DEF CrashStartingCPUs, Allowed
  <2> QED BY <1>4, <1>6, <2>1, <2>2 DEF CrashStartingCPUs
<1> QED BY <1>1, <1>2, <1>3, <1>5, <1>6

-----------------------------------------------------------------------------
\* The source runs the guest under the lease when the migration starts.
LEMMA InitLease == Init => LeaseInv
<1> SUFFICES ASSUME Init PROVE LeaseInv
  OBVIOUS
<1>1. DOMAIN vm = Hosts
  BY DEF Init
<1>2. \A h \in Hosts : HasLease(vm[h]) /\ vm[h].cpus = (h = "src" /\ ~opts.paused)
                       /\ vm[h].lease = ((h = "src" /\ ~opts.paused) /\ opts.lock)
  BY DEF Init, HasLease, Hosts
<1> QED BY <1>1, <1>2 DEF LeaseInv, Hosts

\* Every step keeps the inductive invariant.
LEMMA NextLease == LeaseInv /\ [Next]_vars => LeaseInv'
<1> SUFFICES ASSUME LeaseInv, [Next]_vars PROVE LeaseInv'
  OBVIOUS
<1>1. CASE Progress
  <2>1. CASE \/ SrcBegin \/ SrcPerformPhase \/ SrcContinue \/ SrcPerformDone \/ SrcPerformFailed
             \/ \E c \in Clients : \/ SrcBeginResumePhase(c) \/ SrcPerformResume(c) \/ SrcResumeEnd(c)
                                   \/ SrcConfirm(c) \/ SrcConfirmPhase(c) \/ SrcConfirmEnd(c)
    BY <2>1, SourceKeepsInv
  <2>2. CASE \/ DstPrepareFresh \/ DstFinishFresh \/ DstFinishFreshFailed \/ DstFinishActive
             \/ \E c \in Clients : DstPrepareResume(c) \/ DstFinish(c) \/ DstFinishPostcopy(c)
    BY <2>2, DestinationKeepsInv
  <2>3. CASE QemuPreSwitchover \/ QemuSrc \/ QemuDst \/ QemuRecover
    BY <2>3, QemuKeepsInv
  <2>4. CASE \E h \in Hosts : \/ \E c \in Clients : ConnectClose(c, h) \/ ConnectionClosedEnd(c, h)
                              \/ ProcessUnattended(h) \/ Reconnect(h)
    BY <2>4, DaemonKeepsInv
  <2>5. CASE \E c \in Clients : MigrateVersion3(c)
    BY <2>5, FaultKeepsInv DEF Hosts
  <2> QED BY <1>1, <2>1, <2>2, <2>3, <2>4, <2>5 DEF Progress
<1>2. CASE Environment
  <2>1. "src" \in Hosts
    BY DEF Hosts
  <2> QED BY <1>2, <2>1, FaultKeepsInv DEF Environment
<1>3. CASE UNCHANGED vars
  BY <1>3, UnchangedKeepsInv DEF vars
<1> QED BY <1>1, <1>2, <1>3 DEF Next

\* With a lock manager the guest never runs on both hosts, whatever the clients do
\* and however often daemons crash: qemuProcessStartCPUs asks for the lease on every
\* path that starts the CPUs, in Finish, in the error paths and in recovery.
THEOREM CpusNeverShared == Spec => []CpusExclusive
<1>1. LeaseInv => CpusExclusive
  BY DEF LeaseInv, CpusExclusive, Hosts
<1> QED BY <1>1, InitLease, NextLease, PTL DEF Spec
=============================================================================
