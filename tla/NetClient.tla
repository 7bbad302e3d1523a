----------------------------- MODULE NetClient -----------------------------
(***************************************************************************)
(* virNetClient (virnetclient.c) with its keep-alive (virkeepalive.c):     *)
(* threads that share one socket.  One of them has the buck: it polls and  *)
(* does the I/O for all calls in waitDispatch, while the others sleep.     *)
(* The client lock is held except in virCondWait and around the main loop, *)
(* so an action is what a thread does between these points.  One more      *)
(* thread runs the event loop of the application: the timer of the         *)
(* keep-alive and the callback of the socket.                              *)
(***************************************************************************)
EXTENDS Naturals, Sequences, FiniteSets, FiniteSetsExt

CONSTANTS
  ReplyCalls,      \* calls of virNetClientSendWithReply, a thread each
  Messages,        \* the client's keep-alive messages, requests and answers
  KeepAliveCount,  \* ka->count
  Reasons          \* who may call virNetClientCloseInternal: "client"

Calls == ReplyCalls \cup Messages

NoCall == "none"

ASSUME NetClientAssumption ==
  /\ ReplyCalls \cap Messages = {} /\ IsFiniteSet(Messages)
  /\ {NoCall, "ping", "pong"} \cap Calls = {}
  /\ KeepAliveCount \in Nat /\ Reasons \subseteq {"client"}

VARIABLES
  client,   \* the fields of virNetClient
  call,     \* the fields of each virNetClientCall and where its thread is
  wire,     \* both directions of the connection
  closers,  \* calls of virNetClientCloseInternal between its check and the lock
  served    \* calls the server has handled

vars == <<client, call, wire, closers, served>>

(***************************************************************************)
(* A state s is the triple of client, call and wire.                       *)
(***************************************************************************)

State == [cl |-> client, ca |-> call, wi |-> wire]

Becomes(s) == \E t \in {s} : client' = t.cl /\ call' = t.ca /\ wire' = t.wi

InLoop == {"unlocked", "running", "stopped"}

WithMode(s, m) == {c \in Range(s.cl.waitDispatch) : s.ca[c].mode = m}

\* virNetClientCallQueue.  Mutation: the call is put at the head of the list.
CallQueue_AtHead(queue, c) == <<c>> \o queue

\* virNetClientCallQueue
CallQueue(queue, c) == Append(queue, c)

\* virNetClientCallRemove
CallRemove(queue, c) ==
  LET n == Min({i \in DOMAIN queue : queue[i] = c})
  IN SubSeq(queue, 1, n - 1) \o SubSeq(queue, n + 1, Len(queue))

\* virNetClientCallRemovePredicate: the calls that stay keep their order.
Kept(queue, stay) ==
  LET kept[i \in 0..Len(queue)] ==
        IF i = 0 THEN <<>>
        ELSE IF queue[i] \in stay THEN Append(kept[i-1], queue[i]) ELSE kept[i-1]
  IN kept[Len(queue)]

\* Mutation: waiting output is not polled for.
UpdateCallback_InputOnly(s, enable) ==
  IF s.cl.wantClose \/ "removed" \in s.cl.io THEN s
  ELSE [s EXCEPT !.cl.io = IF enable THEN {"in"} ELSE {}]

\* virNetClientIOUpdateCallback and virNetSocketUpdateIOCallback
UpdateCallback(s, enable) ==
  IF s.cl.wantClose \/ "removed" \in s.cl.io THEN s
  ELSE [s EXCEPT !.cl.io = IF ~enable THEN {}
                           ELSE {"in"} \cup {e \in {"out"} : WithMode(s, "tx") # {}}]

\* virNetClientMarkClose
MarkClose(s, reason) ==
  LET t == [s EXCEPT !.cl.io = {"removed"}]
  IN IF t.cl.wantClose THEN t
     ELSE [t EXCEPT !.cl.wantClose = TRUE, !.cl.closeReason = reason]

\* virNetClientCloseLocked and virNetClientIOEventLoopRemoveAll: the socket and the
\* keep-alive go, and the calls that are still listed are freed, all but thiscall.
\* The lock is released for the close callback: without a socket nothing is done.
CloseLocked(s, thiscall) ==
  LET t == IF ~s.cl.sock THEN s
           ELSE [s EXCEPT !.cl.sock = FALSE, !.cl.wantClose = FALSE, !.cl.due = FALSE,
                          !.wi.in = <<>>, !.wi.full = FALSE]
      gone == Range(s.cl.waitDispatch) \ {thiscall}
  IN [t EXCEPT !.cl.waitDispatch = IF thiscall \in Range(@) THEN <<thiscall>> ELSE <<>>,
               !.ca = [c \in Calls |-> IF c \in gone THEN [@[c] EXCEPT !.at = "freed"] ELSE @[c]]]

\* Mutation: haveTheBuck stays set when no thread takes the buck.
PassTheBuck_Kept(s, thiscall) ==
  LET queue == s.cl.waitDispatch
      others == {i \in DOMAIN queue : queue[i] # thiscall /\ s.ca[queue[i]].haveThread}
  IN IF others # {} THEN [s EXCEPT !.ca[queue[Min(others)]].at = "woken"]
     ELSE IF s.cl.wantClose THEN CloseLocked(s, thiscall)
     ELSE s

\* virNetClientIOEventLoopPassTheBuck: virCondSignal wakes the first thread that
\* sleeps in the list.
PassTheBuck(s, thiscall) ==
  LET queue == s.cl.waitDispatch
      others == {i \in DOMAIN queue : queue[i] # thiscall /\ s.ca[queue[i]].haveThread}
      t == [s EXCEPT !.cl.haveTheBuck = FALSE]
  IN IF others # {} THEN [s EXCEPT !.ca[queue[Min(others)]].at = "woken"]
     ELSE IF s.cl.wantClose THEN CloseLocked(t, thiscall)
     ELSE t

\* Mutation: completed calls are freed without a look at haveThread.
RemoveDone_FreeAll(s, thiscall) ==
  LET done == WithMode(s, "complete") \ {thiscall}
  IN [s EXCEPT !.cl.waitDispatch = Kept(@, Calls \ done),
               !.ca = [c \in Calls |-> IF c \in done THEN [@[c] EXCEPT !.at = "freed"] ELSE @[c]]]

\* virNetClientCallRemovePredicate with virNetClientIOEventLoopRemoveDone
RemoveDone(s, thiscall) ==
  LET done == WithMode(s, "complete") \ {thiscall}
      Done(c) == [s.ca[c] EXCEPT !.at = IF s.ca[c].haveThread THEN "woken" ELSE "freed"]
  IN [s EXCEPT !.cl.waitDispatch = Kept(@, Calls \ done),
               !.ca = [c \in Calls |-> IF c \in done THEN Done(c) ELSE @[c]]]

(***************************************************************************)
(* Keep-alive.  Time is the flag due: an interval has gone by since        *)
(* ka->intervalStart.                                                      *)
(***************************************************************************)

\* virNetClientQueueNonBlocking
QueueNonBlocking(s, c) ==
  [s EXCEPT !.cl.waitDispatch = CallQueue(@, c), !.ca[c].mode = "tx", !.ca[c].at = "queued"]

Unused(s) == {c \in Messages : s.ca[c].at = "idle"}

\* virKeepAliveMessage with KEEPALIVE_PROC_PING or KEEPALIVE_PROC_PONG
NewMessage(s) == CHOOSE c \in Unused(s) : TRUE

\* virKeepAliveTrigger in the event loop of a thread.
KeepAliveTrigger(s) ==
  IF ~s.cl.due THEN s
  ELSE IF s.cl.countToDeath = 0 THEN MarkClose(s, "keepalive")
  ELSE QueueNonBlocking([s EXCEPT !.cl.due = FALSE, !.cl.countToDeath = @ - 1,
                                  !.ca[NewMessage(s)].ping = TRUE], NewMessage(s))

\* Mutation: what arrives does not start the count anew.
KeepAliveCheckMessage_NoReset(s) == [s EXCEPT !.cl.due = FALSE]

\* virKeepAliveCheckMessage: whatever arrives shows that the server is alive.
KeepAliveCheckMessage(s) ==
  [s EXCEPT !.cl.due = FALSE, !.cl.countToDeath = KeepAliveCount]

(***************************************************************************)
(* I/O.                                                                    *)
(***************************************************************************)

\* The messages of some calls have been written in full, that of first before the
\* others.  wire.half is the call whose message is partly on the wire: bytes of another
\* one behind it make it unreadable.
Written(s, calls, first) ==
  LET broken == s.wi.garbled \/ s.wi.half \notin {NoCall, first}
      mode(c) == IF c \in ReplyCalls THEN "rx" ELSE "complete"
  IN IF calls = {} THEN s
     ELSE [s EXCEPT !.ca = [c \in Calls |-> IF c \in calls THEN [@[c] EXCEPT !.mode = mode(c)] ELSE @[c]],
                    !.wi.half = NoCall,
                    !.wi.garbled = broken,
                    !.wi.sent = IF broken THEN @ ELSE @ \cup calls]

\* A write of c's message stops in the middle (part) or before it.
Blocked(s, c, part) ==
  [s EXCEPT !.wi.full = TRUE,
            !.wi.garbled = @ \/ (part /\ s.wi.half \notin {NoCall, c}),
            !.wi.half = IF part THEN c ELSE @]

\* virNetClientIOHandleOutput: the calls are written in the order of the list until
\* the socket blocks.
HandleOutput(s) ==
  LET queue == s.cl.waitDispatch
      tx == {i \in DOMAIN queue : s.ca[queue[i]].mode = "tx"}
      Before(n) == Written(s, {queue[i] : i \in {j \in tx : j < n}}, queue[Min(tx)])
  IN CASE tx = {} \/ (s.wi.full /\ ~s.wi.hup) -> {[s |-> s, ok |-> TRUE]}
       [] s.wi.hup /\ tx # {} -> {[s |-> s, ok |-> FALSE]}
       [] OTHER ->
          {[s |-> Before(Len(queue) + 1), ok |-> TRUE]}
          \cup {[s |-> Blocked(Before(x.at), queue[x.at], x.part), ok |-> TRUE] :
                  x \in {y \in [at : tx, part : BOOLEAN] :
                           y.at = Min(tx) => y.part /\ s.wi.half # queue[y.at]}}

\* Mutation: the reply goes to the first call that waits for one.
DispatchReply_First(s, c) ==
  LET rx == {i \in DOMAIN s.cl.waitDispatch : s.ca[s.cl.waitDispatch[i]].mode = "rx"}
  IN IF rx # {}
     THEN [s |-> [s EXCEPT !.ca[s.cl.waitDispatch[Min(rx)]].mode = "complete"], ok |-> TRUE]
     ELSE [s |-> s, ok |-> FALSE]

\* virNetClientCallDispatchReply
DispatchReply(s, c) ==
  IF c \in Range(s.cl.waitDispatch)
  THEN [s |-> [s EXCEPT !.ca[c].mode = "complete"], ok |-> TRUE]
  ELSE [s |-> s, ok |-> FALSE]

\* virNetClientIOHandleInput and virNetClientCallDispatch: one message is read.
HandleInput(s) ==
  IF s.wi.in = <<>> THEN [s |-> s, ok |-> ~s.wi.hup]
  ELSE LET msg == Head(s.wi.in)
           t == KeepAliveCheckMessage([s EXCEPT !.wi.in = Tail(@)])
       IN CASE msg \in ReplyCalls -> DispatchReply(t, msg)
            [] msg = "ping" -> [s |-> QueueNonBlocking(t, NewMessage(t)), ok |-> TRUE]
            [] OTHER -> [s |-> t, ok |-> TRUE]

\* The reason to close after the socket reported rev.
Reason(rev) == IF "hup" \in rev THEN "eof" ELSE "error"

\* A failure of virNetClientIOHandleOutput or virNetClientIOHandleInput marks the
\* client to be closed.
Checked(io, rev) ==
  [s |-> IF io.ok THEN io.s ELSE MarkClose(io.s, Reason(rev)), ok |-> io.ok]

\* Output, then input: the same lines in virNetClientIOEventLoop and in
\* virNetClientIncomingEvent.
HandleIO(s, rev) ==
  LET outputs == IF "out" \in rev THEN {Checked(o, rev) : o \in HandleOutput(s)}
                 ELSE {[s |-> s, ok |-> TRUE]}
      Input(o) == IF "in" \notin rev THEN o
                  ELSE LET i == Checked(HandleInput(o.s), rev)
                       IN [s |-> i.s, ok |-> o.ok /\ i.ok]
  IN {Input(o) : o \in outputs}

\* What poll() may report of the events a thread asked for.
Ready(ev) ==
  {e \in ev : \/ e = "in" /\ (wire.in # <<>> \/ wire.hup)
              \/ e = "out" /\ (~wire.full \/ wire.hup)}
  \cup {e \in {"hup"} : wire.hup}

(***************************************************************************)
(* Threads.                                                                *)
(***************************************************************************)

\* Mutation: replies are not polled for.
EnterLoop_NoInput(s, c) ==
  [s EXCEPT !.ca[c].at = "unlocked",
            !.ca[c].ev = IF WithMode(s, "tx") # {} THEN {"out"} ELSE {},
            !.ca[c].rev = {}]

\* The top of the loop in virNetClientIOEventLoop, up to the release of the lock.
\* The time-out it computes is not used.
EnterLoop(s, c) ==
  [s EXCEPT !.ca[c].at = "unlocked",
            !.ca[c].ev = {e \in {"in"} : WithMode(s, "rx") # {}}
                         \cup {e \in {"out"} : WithMode(s, "tx") # {}},
            !.ca[c].rev = {}]

\* virNetClientSendInternal returns, and frees the call unless it stays queued.
Ended(s, c, to) ==
  [s.ca[c] EXCEPT !.at = to, !.mode = IF to = "queued" THEN @ ELSE "complete",
                  !.haveThread = FALSE, !.ev = {}, !.rev = {}]

\* virNetClientIO up to the first wait.
IO(s, c) ==
  LET listed == [s EXCEPT !.cl.waitDispatch = CallQueue(@, c)]
      polling == [listed EXCEPT !.cl.wakeups = @ \cup {c}]
  IN IF ~s.cl.haveTheBuck
     THEN EnterLoop(UpdateCallback([listed EXCEPT !.cl.haveTheBuck = TRUE], FALSE), c)
     ELSE IF c \in Messages
     THEN [polling EXCEPT !.ca[c].haveThread = FALSE, !.ca[c].at = "queued"]
     ELSE [polling EXCEPT !.ca[c].at = "asleep"]

\* virNetClientSendInternal, for a thread of the application or for a ping.
SendInternal(c) ==
  /\ \/ c \in ReplyCalls /\ call[c].at = "idle"
     \/ c \in Messages /\ call[c].at = "armed"
  /\ IF ~client.sock \/ client.wantClose
     THEN Becomes([State EXCEPT !.ca[c] = Ended(State, c, "failed")])
     ELSE Becomes(IO([State EXCEPT !.ca[c].mode = "tx", !.ca[c].haveThread = TRUE], c))
  /\ UNCHANGED <<closers, served>>

\* A thread returns from virCondWait: its reply is there, or it has the buck.
Wakeup(c) ==
  LET s == [State EXCEPT !.cl.wakeups = @ \ {c}]
  IN /\ call[c].at = "woken"
     /\ Becomes(IF call[c].mode = "complete" THEN [s EXCEPT !.ca[c] = Ended(s, c, "ok")]
                ELSE EnterLoop(UpdateCallback(s, FALSE), c))
     /\ UNCHANGED <<closers, served>>

\* g_main_loop_run starts; a g_main_loop_quit before this point has no effect.
RunLoop(c) ==
  /\ call[c].at = "unlocked"
  /\ call' = [call EXCEPT ![c].at = "running"]
  /\ UNCHANGED <<client, wire, closers, served>>

\* virNetClientIOEventFD
IOEventFD(c) ==
  /\ call[c].at = "running" /\ Ready(call[c].ev) # {}
  /\ call' = [call EXCEPT ![c].at = "stopped", ![c].rev = Ready(call[c].ev)]
  /\ UNCHANGED <<client, wire, closers, served>>

\* virNetClientIOWakeup: the idle sources that other threads have attached.
IOWakeup(c) ==
  /\ call[c].at = "running" /\ client.wakeups # {}
  /\ call' = [call EXCEPT ![c].at = "stopped"]
  /\ client' = [client EXCEPT !.wakeups = {}]
  /\ UNCHANGED <<wire, closers, served>>

\* The thread leaves virNetClientIOEventLoop with its call at "to": virNetClientIO
\* polls for the next one.
LeaveLoop(s, c, to) ==
  \E left \in {IF to = "queued" THEN s ELSE [s EXCEPT !.cl.waitDispatch = CallRemove(@, c)]} :
  \E passed \in {PassTheBuck([left EXCEPT !.ca[c] = Ended(s, c, to)], c)} :
     Becomes(IF passed.cl.sock THEN UpdateCallback(passed, TRUE) ELSE passed)

\* The rest of the loop once the thread has the lock again, from the keep-alive to
\* the next poll or the return.
EventLoop(c) ==
  LET rev == call[c].rev IN
  /\ call[c].at = "stopped"
  /\ \E triggered \in {KeepAliveTrigger(State)} : \E io \in HandleIO(triggered, rev) :
     \E s \in {RemoveDone(io.s, c)} :
       LET error == triggered.cl.wantClose \/ ~io.ok
       IN IF s.ca[c].mode = "complete" THEN LeaveLoop(s, c, "ok")
          ELSE IF c \in Messages THEN LeaveLoop(s, c, "queued")
          ELSE IF error THEN LeaveLoop(s, c, "failed")
          ELSE IF "hup" \in rev THEN LeaveLoop(MarkClose(s, Reason(rev)), c, "failed")
          ELSE Becomes(EnterLoop(s, c))
  /\ UNCHANGED <<closers, served>>

(***************************************************************************)
(* Closing.                                                                *)
(***************************************************************************)

\* virNetClientCloseInternal looks at sock and wantClose without the lock.
CloseCheck(reason) ==
  /\ client.sock /\ ~client.wantClose /\ reason \notin closers
  /\ closers' = closers \cup {reason}
  /\ UNCHANGED <<client, call, wire, served>>

\* Then it takes the lock.  g_main_loop_quit stops a loop that runs.
CloseLock(reason) ==
  LET s == MarkClose(State, reason)
      quit == [s EXCEPT !.ca = [c \in Calls |-> IF @[c].at = "running"
                                                THEN [@[c] EXCEPT !.at = "stopped"] ELSE @[c]]]
  IN /\ reason \in closers
     /\ closers' = closers \ {reason}
     /\ Becomes(IF client.haveTheBuck THEN quit ELSE PassTheBuck(s, NoCall))
     /\ UNCHANGED served

(***************************************************************************)
(* The thread of the application's event loop.                             *)
(***************************************************************************)

EventThreadFree ==
  "keepalive" \notin closers /\ \A c \in Messages : call[c].at \notin InLoop \cup {"armed"}

\* virNetClientIncomingEvent, called by virNetSocketEventHandle
IncomingEvent ==
  LET rev == Ready(client.io) IN
  /\ EventThreadFree /\ client.sock /\ ~client.haveTheBuck /\ ~client.wantClose
  /\ client.io \notin {{}, {"removed"}} /\ rev # {}
  /\ \E io \in HandleIO(State, rev) : \E done \in {RemoveDone(io.s, NoCall)} :
     \E s \in {IF "hup" \in rev THEN MarkClose(io.s, Reason(rev))
               ELSE UpdateCallback(done, TRUE)} :
       Becomes(IF s.cl.wantClose THEN CloseLocked(s, NoCall) ELSE s)
  /\ UNCHANGED <<closers, served>>

\* virKeepAliveTimer: the request is handed to virNetClientSendNonBlock, and the
\* death of the connection to virNetClientCloseInternal, without the lock of ka.
KeepAliveTimer ==
  /\ EventThreadFree /\ client.sock /\ client.due
  /\ IF client.countToDeath > 0
     THEN /\ client' = [client EXCEPT !.due = FALSE, !.countToDeath = @ - 1]
          /\ call' = [call EXCEPT ![NewMessage(State)].at = "armed", ![NewMessage(State)].ping = TRUE]
          /\ UNCHANGED <<wire, closers, served>>
     ELSE CloseCheck("keepalive")

\* Bound: each message to come has an unused member of Messages.
InWire(msg) == Cardinality({i \in DOMAIN wire.in : wire.in[i] = msg})
Spare == Cardinality(Unused(State)) > InWire("ping") + (IF client.due THEN 1 ELSE 0)

\* An interval goes by.
Tick ==
  /\ client.sock /\ ~client.due
  /\ client.countToDeath = 0 \/ Spare
  /\ client' = [client EXCEPT !.due = TRUE]
  /\ UNCHANGED <<call, wire, closers, served>>

(***************************************************************************)
(* The server and the network.  What the server does after the client has  *)
(* closed its socket is left out, but for the handling of requests.        *)
(***************************************************************************)

Arrives(msg) == wire' = [wire EXCEPT !.in = IF client.sock THEN Append(@, msg) ELSE @]

Serve(c) ==
  /\ c \in (wire.sent \ served) \cap ReplyCalls /\ ~wire.hup
  /\ served' = served \cup {c} /\ Arrives(c)
  /\ UNCHANGED <<client, call, closers>>

ServerPong(c) ==
  /\ c \in wire.sent \ served /\ call[c].ping /\ client.sock /\ ~wire.hup
  /\ served' = served \cup {c} /\ Arrives("pong")
  /\ UNCHANGED <<client, call, closers>>

ServerPing ==
  /\ client.sock /\ ~wire.hup /\ Spare
  /\ Arrives("ping")
  /\ UNCHANGED <<client, call, closers, served>>

Hangup ==
  /\ client.sock /\ ~wire.hup
  /\ wire' = [wire EXCEPT !.hup = TRUE]
  /\ UNCHANGED <<client, call, closers, served>>

Drain ==
  /\ client.sock /\ wire.full
  /\ wire' = [wire EXCEPT !.full = FALSE]
  /\ UNCHANGED <<client, call, closers, served>>

Init ==
  /\ client = [sock |-> TRUE, wantClose |-> FALSE, closeReason |-> "none",
               haveTheBuck |-> FALSE, waitDispatch |-> <<>>, io |-> {"in"},
               countToDeath |-> KeepAliveCount, due |-> FALSE, wakeups |-> {}]
  /\ call = [c \in Calls |-> [at |-> "idle", ping |-> FALSE, mode |-> "tx", haveThread |-> FALSE,
                              ev |-> {}, rev |-> {}]]
  /\ wire = [in |-> <<>>, sent |-> {}, half |-> NoCall, garbled |-> FALSE,
             full |-> FALSE, hup |-> FALSE]
  /\ closers = {} /\ served = {}

ThreadStep(c) == Wakeup(c) \/ RunLoop(c) \/ IOEventFD(c) \/ IOWakeup(c) \/ EventLoop(c)

ServerNext ==
  \/ \E c \in Calls : Serve(c) \/ ServerPong(c)
  \/ ServerPing \/ Hangup \/ Drain

Next ==
  \/ \E c \in Calls : SendInternal(c) \/ ThreadStep(c)
  \/ \E reason \in Reasons : CloseCheck(reason)
  \/ \E reason \in Reasons \cup {"keepalive"} : CloseLock(reason)
  \/ IncomingEvent \/ KeepAliveTimer \/ Tick
  \/ ServerNext

Spec == Init /\ [][Next]_vars

\* The scheduler runs the threads of the calls, of the event loop (with the pings,
\* which it sends) and those that close.
EventThreadStep ==
  \/ IncomingEvent \/ KeepAliveTimer \/ CloseLock("keepalive")
  \/ \E c \in Messages : SendInternal(c) \/ ThreadStep(c)

Threads ==
  /\ \A c \in ReplyCalls : WF_vars(ThreadStep(c))
  /\ WF_vars(EventThreadStep)
  /\ \A reason \in Reasons : WF_vars(CloseLock(reason))

\* The server reads what arrives and answers what it reads, until it hangs up.
Responsive == WF_vars(\E c \in Calls : Serve(c) \/ ServerPong(c))
Reading == WF_vars(Drain)

FairSpec == Spec /\ Threads /\ Responsive /\ Reading
SilentSpec == Spec /\ Threads /\ Reading

(***************************************************************************)
(* Properties.                                                             *)
(***************************************************************************)

\* The threads that have been given the job of doing the I/O for all.
Owners == {c \in Calls : \/ call[c].at \in InLoop
                         \/ call[c].at = "woken" /\ call[c].mode # "complete"}

\* "Passing the buck" (virNetClientIO) neither loses nor copies the buck: while
\* haveTheBuck is set there is one thread that polls or that has been woken to do so,
\* and a thread sleeps in virCondWait only while there is such a thread.
BuckHeld ==
  /\ Cardinality(Owners) = (IF client.haveTheBuck THEN 1 ELSE 0)
  /\ (\E c \in Calls : call[c].at = "asleep") => client.haveTheBuck

\* virNetClientCloseLocked and the RemoveAll and RemoveDone predicates never take
\* the socket, or the call, from a thread that still waits in virNetClientIO: the
\* thread would use a NULL socket or freed memory when it wakes.
WaitersKept ==
  \A c \in Calls :
    /\ c \in Owners \/ call[c].at = "asleep" =>
         client.sock /\ c \in Range(client.waitDispatch)
    /\ call[c].at = "freed" => ~call[c].haveThread

\* virNetClientIOHandleOutput finishes a message that went out in part before it
\* writes another one, although calls come and go between the two writes: bytes are
\* mixed up only on a connection that is being closed.
Framing == wire.garbled => ~client.sock \/ client.wantClose

\* virKeepAliveTimerInternal runs in the event loop and in the thread that has the
\* buck, on the same counter: each of them gives the server up only when ka->count
\* requests were made whose answers have not been read.
DeadAfterCount ==
  [][ \/ "keepalive" \in closers' \ closers
      \/ /\ client'.closeReason = "keepalive" /\ client.closeReason # "keepalive"
         /\ "keepalive" \notin closers
      => LET made == {c \in Messages : call[c].ping}
         IN Cardinality(made \ served) + InWire("pong") >= KeepAliveCount
    ]_vars

\* What virNetClientSendWithReply promises (RpcCalls): the threads of NetClient,
\* passing the buck, implement independent calls on one connection.
Status(c) ==
  CASE call[c].at = "idle" -> "new"
    [] call[c].at \in {"ok", "failed"} -> call[c].at
    [] OTHER -> "waiting"

Rpc == INSTANCE RpcCalls WITH Calls <- ReplyCalls,
                              status <- [c \in ReplyCalls |-> Status(c)],
                              served <- served \cap ReplyCalls,
                              open <- client.sock /\ ~client.wantClose

\* See Rpc: the detailed client implements the abstract one.
ImplementsRpc == Rpc!Spec

\* Every virNetClientSendWithReply returns when the server answers what it reads or
\* hangs up, whichever thread has the buck and whoever closes the client meanwhile.
CallsReturn ==
  \A c \in ReplyCalls : call[c].at # "idle" ~> call[c].at \in {"ok", "failed"}

\* A non-blocking message left in the queue (virNetClientIODetachNonBlocking) has no
\* thread: it is still sent, by whoever does the I/O next, or the client closes.
QueuedSent ==
  \A c \in Messages : call[c].at = "queued" ~> (c \in wire.sent \/ ~client.sock)

\* virNetClientIOEventLoop: "If the connection is going to be closed, we don't want to
\* sleep in poll() either."  A client that is being closed lets its threads go,
\* whatever the server does.
CloseReturns == client.wantClose ~> Owners = {}
=============================================================================
