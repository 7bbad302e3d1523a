----------------------- MODULE NetClientThreadProofs ------------------------
(***************************************************************************)
(* Proofs about NetClient: what input, the threads that call and the       *)
(* thread that has the buck do to the invariant of NetClientOpsProofs.     *)
(***************************************************************************)
EXTENDS NetClientOpsProofs

USE NetClientAssumption

(***************************************************************************)
(* Input.                                                                  *)
(***************************************************************************)

\* virNetClientCallDispatchReply completes the call that was served.
LEMMA DispatchReplyInv ==
  ASSUME NEW s \in States, NEW sv, NEW o, Inv(s, sv, o),
         o \in Calls => s.ca[o].at \in InLoop,
         NEW c \in ReplyCalls, c \in sv, c \in s.wi.sent
  PROVE  LET i == DispatchReply(s, c)
         IN Handled(s, i.s, sv, o) /\ i.ok \in BOOLEAN
<1> DEFINE q == s.cl.waitDispatch
           k == [s.ca[c] EXCEPT !.mode = "complete"]
           t == [s EXCEPT !.ca[c] = k]
<1>1. CASE c \in Range(q)
  <2>1. c \in Calls /\ s.ca[c] \in CallFields
    BY Fields DEF Calls
  <2>2. DispatchReply(s, c) = [s |-> t, ok |-> TRUE]
    BY <1>1, <2>1 DEF DispatchReply, States
  <2>3. /\ k \in CallFields /\ k.at = s.ca[c].at /\ k.mode = "complete"
        /\ k.haveThread = s.ca[c].haveThread /\ k.ping = s.ca[c].ping
    BY <2>1 DEF CallFields
  <2> HIDE DEF k
  <2>4. OneCall(s, t, c, k)
    BY <2>1, <2>3, CallReplaced
  <2> HIDE DEF t
  <2>5. /\ t \in States /\ t.cl = s.cl /\ t.wi = s.wi /\ t.ca[c].mode = "complete"
        /\ \A x \in Calls : /\ t.ca[x].at = s.ca[x].at /\ t.ca[x].ping = s.ca[x].ping
                            /\ t.ca[x].haveThread = s.ca[x].haveThread
                            /\ x # c => t.ca[x].mode = s.ca[x].mode
    BY <2>3, <2>4, SMTT(30) DEF OneCall
  <2>6. Placed(t, o)
    <3>1. s.ca[c].at \in {"queued", "asleep"} \cup InLoop
      BY <1>1, <2>1 DEF Inv, Placed
    <3>2. ASSUME NEW x \in Calls PROVE Buck(t.ca[x]) <=> Buck(s.ca[x])
      BY <2>5, <3>1 DEF Buck, InLoop
    <3> QED BY <2>5, <3>2, SMTT(30) DEF Inv, Placed
  <2>7. Held(t, o)
    BY <2>5 DEF Inv, Held
  <2>8. s.ca[c].mode # "tx"
    BY DEF Inv, Rest, Answered
  <2>9. {x \in Calls : t.ca[x].mode = "tx"} = {x \in Calls : s.ca[x].mode = "tx"}
    BY <2>5, <2>8, SMTT(30)
  <2>10. Framed(t)
    BY <2>5, <2>9, ZenonT(30) DEF Inv, Framed
  <2>11. Unused(t) = Unused(s) /\ Made(t) = Made(s)
    BY <2>5 DEF Unused, Made, Calls
  <2>12. Spared(t)
    BY <2>5, <2>11, SMTT(30) DEF Inv, Rest, Spared
  <2>13. Counted(t, sv)
    BY <2>5, <2>11, SMTT(30) DEF Inv, Rest, Counted, Calls
  <2>14. Answered(t, sv)
    <3> SUFFICES ASSUME NEW x \in ReplyCalls
                 PROVE  /\ x \in Range(t.wi.in) => x \in sv /\ x \in t.wi.sent
                        /\ x \in t.wi.sent => t.ca[x].at # "idle" /\ t.ca[x].mode # "tx"
                        /\ t.ca[x].mode = "complete" /\ t.ca[x].at # "failed" => x \in sv
                        /\ t.ca[x].at = "ok" => t.ca[x].mode = "complete"
      BY DEF Answered
    <3>1. /\ x \in Range(s.wi.in) => x \in sv /\ x \in s.wi.sent
          /\ x \in s.wi.sent => s.ca[x].at # "idle" /\ s.ca[x].mode # "tx"
          /\ s.ca[x].mode = "complete" /\ s.ca[x].at # "failed" => x \in sv
          /\ s.ca[x].at = "ok" => s.ca[x].mode = "complete"
      BY DEF Inv, Rest, Answered
    <3>2. x \in Calls
      BY SMTT(30) DEF Calls
    <3> QED BY <2>5, <3>1, <3>2
  <2>15. Handled(s, t, sv, o)
    BY <2>5, <2>6, <2>7, <2>10, <2>12, <2>13, <2>14, SMTT(30) DEF Handled, Inv, Rest, Along
  <2> QED BY <2>2, <2>15
<1>2. CASE c \notin Range(q)
  <2>1. DispatchReply(s, c) = [s |-> s, ok |-> FALSE]
    BY <1>2, Zenon DEF DispatchReply
  <2> QED BY <2>1 DEF Handled, Along
<1> QED BY <1>1, <1>2

\* virNetClientIOHandleInput reads a message, which starts the count to death anew: a
\* reply completes its call, and a request is answered with a new message.
LEMMA HandleInputInv ==
  ASSUME NEW s \in States, NEW sv, NEW o, Inv(s, sv, o),
         o \in Calls => s.ca[o].at \in InLoop
  PROVE  LET i == HandleInput(s)
         IN Handled(s, i.s, sv, o) /\ i.ok \in BOOLEAN
<1>1. CASE s.wi.in = <<>>
  <2>1. HandleInput(s) = [s |-> s, ok |-> ~s.wi.hup]
    BY <1>1, Zenon DEF HandleInput
  <2>2. (~s.wi.hup) \in BOOLEAN
    BY Zenon
  <2> QED BY <2>1, <2>2 DEF Handled, Along
<1>2. CASE s.wi.in # <<>>
  <2> DEFINE msg == Head(s.wi.in)
             p == Tail(s.wi.in)
             t == KeepAliveCheckMessage([s EXCEPT !.wi.in = p])
             m == NewMessage(t)
             n == QueueNonBlocking(t, m)
             i == CASE msg \in ReplyCalls -> DispatchReply(t, msg)
                    [] msg = "ping" -> [s |-> n, ok |-> TRUE]
                    [] OTHER -> [s |-> t, ok |-> TRUE]
  <2>1. HandleInput(s) = i
    BY <1>2, Zenon DEF HandleInput
  <2>2. s.wi.in \in Seq(Arriving)
    BY Fields
  <2>3. /\ msg \in Arriving /\ p \in Seq(Arriving) /\ msg \in Range(s.wi.in)
        /\ \A x : x \in Range(p) => x \in Range(s.wi.in)
        /\ Occurs("ping", p) + (IF msg = "ping" THEN 1 ELSE 0) <= Occurs("ping", s.wi.in)
    BY <1>2, <2>2, OccursTail
  <2> HIDE DEF p, msg
  <2>4. /\ t \in States /\ t.ca = s.ca /\ t.wi.in = p /\ t.wi.sent = s.wi.sent
        /\ t.wi.half = s.wi.half /\ t.wi.garbled = s.wi.garbled
        /\ ~t.cl.due /\ t.cl.countToDeath = KeepAliveCount
        /\ t.cl.sock = s.cl.sock /\ t.cl.wantClose = s.cl.wantClose
        /\ t.cl.closeReason = s.cl.closeReason /\ t.cl.haveTheBuck = s.cl.haveTheBuck
        /\ t.cl.waitDispatch = s.cl.waitDispatch
    BY <2>3, Zenon DEF KeepAliveCheckMessage, States, ClientFields, WireFields, Arriving
  <2> HIDE DEF t
  <2>5. Placed(t, o) /\ Held(t, o) /\ Framed(t)
    BY <2>4, ZenonT(30) DEF Inv, Placed, Held, Framed
  <2>6. Unused(t) = Unused(s) /\ Made(t) = Made(s)
    BY <2>4 DEF Unused, Made
  <2>7. /\ Cardinality(Unused(t)) \in Nat /\ Occurs("ping", p) \in Nat
        /\ Occurs("ping", s.wi.in) \in Nat
    BY <2>4, Counts, Zenon
  <2>8. Cardinality(Unused(t)) >= Occurs("ping", p) + (IF msg = "ping" THEN 1 ELSE 0)
    <3>1. Cardinality(Unused(t)) >=
            Occurs("ping", s.wi.in) + (IF s.cl.due /\ s.cl.countToDeath > 0 THEN 1 ELSE 0)
      BY <2>6 DEF Inv, Rest, Spared
    <3>2. Cardinality(Unused(t)) >= Occurs("ping", s.wi.in)
      BY <2>7, <3>1
    <3> QED BY <2>3, <2>7, <3>2
  <2>9. Spared(t)
    <3>1. Cardinality(Unused(t)) >= Occurs("ping", p) + 0
      BY <2>7, <2>8, SMTT(30)
    <3> QED BY <2>4, <3>1 DEF Spared
  <2>10. Counted(t, sv)
    <3>1. Cardinality(Made(t) \ sv) \in Nat /\ Occurs("pong", t.wi.in) \in Nat
      BY <2>4, Counts, ZenonT(30)
    <3>2. KeepAliveCount \in Nat
      OBVIOUS
    <3>3. t.cl.countToDeath + Cardinality(Made(t) \ sv) + Occurs("pong", t.wi.in) >= KeepAliveCount
      BY <2>4, <3>1, <3>2, SMTT(30)
    <3> QED BY <2>4, <2>6, <3>3, Zenon DEF Inv, Rest, Counted
  <2>11. Answered(t, sv)
    BY <2>3, <2>4, SMTT(30) DEF Inv, Rest, Answered
  <2>12. Inv(t, sv, o) /\ Handled(s, t, sv, o)
    BY <2>4, <2>5, <2>9, <2>10, <2>11, Zenon DEF Inv, Rest, Handled, Along
  <2>13. CASE msg \in ReplyCalls
    <3> DEFINE r == DispatchReply(t, msg)
    <3>1. msg \in sv /\ msg \in t.wi.sent
      BY <2>3, <2>4, <2>13, SMTT(30) DEF Inv, Rest, Answered
    <3>2. Handled(t, r.s, sv, o) /\ r.ok \in BOOLEAN
      BY <2>4, <2>12, <2>13, <3>1, DispatchReplyInv, SMTT(30)
    <3>3. Handled(s, r.s, sv, o)
      BY <2>12, <3>2, AlongFacts DEF Handled
    <3>4. msg # "ping"
      BY <2>13 DEF Calls
    <3>5. i = r
      BY <2>13, <3>4, Zenon
    <3> QED BY <2>1, <3>2, <3>3, <3>5, ZenonT(30)
  <2>14. CASE msg = "ping"
    <3>1. msg \notin ReplyCalls
      BY <2>14 DEF Calls
    <3>2. i = [s |-> n, ok |-> TRUE]
      BY <2>14, <3>1, Zenon
    <3>3. Cardinality(Unused(t)) >= Occurs("ping", p) + 1
      BY <2>8, <2>14
    <3>4. Unused(t) # {}
      <4>1. Cardinality(Unused(t)) # 0
        BY <2>7, <3>3
      <4> QED BY <4>1, FS_EmptySet
    <3>5. m \in Unused(t) /\ m \in Messages /\ m \in Calls /\ t.ca[m].at = "idle"
      BY <2>4, <3>4, NewMessageOf
    <3> HIDE DEF m
    <3>6. /\ n \in States /\ Placed(n, o) /\ Held(n, o) /\ Framed(n)
          /\ n.wi = t.wi /\ n.cl.sock = t.cl.sock /\ n.cl.wantClose = t.cl.wantClose
          /\ n.cl.closeReason = t.cl.closeReason /\ n.cl.due = t.cl.due
          /\ n.cl.countToDeath = t.cl.countToDeath
          /\ n.ca[m].at = "queued" /\ n.ca[m].ping = t.ca[m].ping
          /\ \A c \in Calls : c # m => n.ca[c] = t.ca[c]
      BY <2>4, <2>5, <3>5, QueueNonBlockingInv, ZenonT(30)
    <3> HIDE DEF n
    <3>7. Cardinality(Unused(n)) = Cardinality(Unused(t)) - 1
      BY <2>4, <3>5, <3>6, UsedUp, ZenonT(30)
    <3>8. Spared(n)
      <4>1. Cardinality(Unused(n)) >= Occurs("ping", p) + 0
        BY <2>7, <3>3, <3>7, SMTT(30)
      <4> QED BY <2>4, <3>6, <4>1, SMTT(30) DEF Spared
    <3>9. Made(n) = Made(t)
      BY <3>5, <3>6, SMTT(30) DEF Made, Calls
    <3>10. Counted(n, sv)
      BY <2>10, <3>5, <3>6, <3>9, SMTT(30) DEF Counted, Calls
    <3>11. \A c \in ReplyCalls : n.ca[c] = t.ca[c]
      BY <3>5, <3>6, SMTT(30) DEF Calls
    <3>12. Answered(n, sv)
      BY <2>11, <3>6, <3>11, ZenonT(30) DEF Answered
    <3>13. Along(t, n)
      BY <3>5, <3>6, SMTT(30) DEF Along
    <3>14. Handled(s, n, sv, o)
      BY <2>12, <3>6, <3>8, <3>10, <3>12, <3>13, AlongFacts, ZenonT(30) DEF Handled, Inv, Rest
    <3> HIDE DEF i
    <3> QED BY <2>1, <3>2, <3>14
  <2>15. CASE msg \notin ReplyCalls /\ msg # "ping"
    <3>1. i = [s |-> t, ok |-> TRUE]
      BY <2>15, Zenon
    <3>2. HandleInput(s) = [s |-> t, ok |-> TRUE]
      BY <2>1, <3>1, Zenon
    <3> HIDE DEF i, t
    <3> QED BY <2>12, <3>2
  <2> QED BY <2>13, <2>14, <2>15
<1> QED BY <1>1, <1>2

\* What the I/O made of s, with its success: a failure marks the client.
Result(s, io, sv, o) ==
  /\ io.s \in States /\ Inv(io.s, sv, o) /\ Along(s, io.s)
  /\ io.s.cl.closeReason \in {s.cl.closeReason, "eof", "error"}
  /\ io.ok \in BOOLEAN /\ (~io.ok => io.s.cl.wantClose)

\* virNetClientMarkClose after a failure.
LEMMA CheckedInv ==
  ASSUME NEW s, NEW sv, NEW o, NEW io, NEW rev, Handled(s, io.s, sv, o), io.ok \in BOOLEAN
  PROVE  Result(s, Checked(io, rev), sv, o)
<1>1. /\ io.s \in States /\ Inv(io.s, sv, o) /\ Along(s, io.s)
      /\ io.s.cl.closeReason = s.cl.closeReason
  BY SMTT(30) DEF Handled
<1>2. CASE io.ok
  <2>1. Checked(io, rev).s = io.s /\ Checked(io, rev).ok
    BY <1>2, SMTT(30) DEF Checked
  <2> QED BY <1>1, <1>2, <2>1, Zenon DEF Result, Checked
<1>3. CASE ~io.ok
  <2> DEFINE t == MarkClose(io.s, Reason(rev))
  <2>1. Reason(rev) \in {"eof", "error"} /\ Reason(rev) \in CloseReasons
    BY DEF Reason, CloseReasons
  <2>2. /\ t \in States /\ SameView(io.s, t) /\ t.cl.wantClose
        /\ t.cl.closeReason \in {io.s.cl.closeReason, Reason(rev)}
    BY <1>1, <2>1, MarkCloseView, Zenon
  <2>3. Checked(io, rev) = [s |-> t, ok |-> io.ok]
    BY <1>3, SMTT(30) DEF Checked
  <2> HIDE DEF t
  <2>4. Inv(t, sv, o)
    BY <1>1, <2>2, ViewInv
  <2>5. Along(s, t)
    BY <1>1, <2>2, AlongFacts
  <2>6. Checked(io, rev).s = t /\ Checked(io, rev).ok = io.ok
    BY <2>3
  <2>7. t.cl.closeReason \in {s.cl.closeReason, "eof", "error"}
    BY <1>1, <2>1, <2>2
  <2> QED BY <2>2, <2>4, <2>5, <2>6, <2>7, Zenon DEF Result
<1> QED BY <1>2, <1>3

\* Output, then input, of the thread that has the buck or of the event loop.
LEMMA HandleIOInv ==
  ASSUME NEW s \in States, NEW sv, NEW o, Inv(s, sv, o),
         o \in Calls => s.ca[o].at \in InLoop,
         NEW rev, NEW io \in HandleIO(s, rev)
  PROVE  Result(s, io, sv, o)
<1> DEFINE outputs == IF "out" \in rev THEN {Checked(x, rev) : x \in HandleOutput(s)}
                      ELSE {[s |-> s, ok |-> TRUE]}
           Input(x) == IF "in" \notin rev THEN x
                       ELSE LET i == Checked(HandleInput(x.s), rev)
                            IN [s |-> i.s, ok |-> x.ok /\ i.ok]
<1>1. HandleIO(s, rev) = {Input(x) : x \in outputs}
  BY Zenon DEF HandleIO
<1>2. ASSUME NEW x \in outputs PROVE Result(s, x, sv, o)
  <2>1. CASE "out" \in rev
    <3>1. PICK y \in HandleOutput(s) : x = Checked(y, rev)
      BY <2>1
    <3> QED BY <3>1, HandleOutputInv, CheckedInv
  <2>2. CASE "out" \notin rev
    <3>1. x.s = s /\ x.ok = TRUE
      BY <2>2, SMTT(30)
    <3> QED BY <3>1, ZenonT(30) DEF Result, Along
  <2> QED BY <2>1, <2>2
<1>3. ASSUME NEW x, Result(s, x, sv, o) PROVE Result(s, Input(x), sv, o)
  <2>1. CASE "in" \notin rev
    BY <1>3, <2>1, SMTT(30)
  <2>2. CASE "in" \in rev
    <3> DEFINE h == HandleInput(x.s)
               i == Checked(h, rev)
               y == [s |-> i.s, ok |-> x.ok /\ i.ok]
    <3>1. Input(x) = y
      BY <2>2, Zenon
    <3>2. /\ x.s \in States /\ Inv(x.s, sv, o) /\ Along(s, x.s)
          /\ x.s.cl.closeReason \in {s.cl.closeReason, "eof", "error"}
          /\ x.ok \in BOOLEAN /\ (~x.ok => x.s.cl.wantClose)
      BY <1>3, SMTT(30) DEF Result
    <3>3. o \in Calls => x.s.ca[o].at \in InLoop
      BY <3>2, SMTT(30) DEF Along, InLoop
    <3>4. Handled(x.s, h.s, sv, o) /\ h.ok \in BOOLEAN
      BY <3>2, <3>3, HandleInputInv, SMTT(30)
    <3> HIDE DEF h
    <3>5. Result(x.s, i, sv, o)
      BY <3>4, CheckedInv
    <3> HIDE DEF i
    <3>6. y.s = i.s /\ y.ok = (x.ok /\ i.ok)
      BY SMTT(30)
    <3> HIDE DEF y
    <3>7. Along(s, i.s) /\ (x.s.cl.wantClose => i.s.cl.wantClose)
      BY <3>2, <3>5, AlongFacts, Zenon DEF Result, Along
    <3>8. y.ok \in BOOLEAN /\ (~y.ok => i.s.cl.wantClose)
      BY <3>2, <3>5, <3>6, <3>7, ZenonT(30) DEF Result
    <3>9. Result(s, y, sv, o)
      BY <3>2, <3>5, <3>6, <3>7, <3>8, Zenon DEF Result
    <3> QED BY <3>1, <3>9
  <2> QED BY <2>1, <2>2, SMTT(30)
<1> HIDE DEF outputs, Input
<1> QED BY <1>1, <1>2, <1>3

(***************************************************************************)
(* Threads.                                                                *)
(***************************************************************************)

\* The thread that has the buck goes from one place of the loop to another.
LEMMA LoopInv ==
  ASSUME NEW s \in States, NEW t \in States, NEW sv, NEW o \in Calls, Inv(s, sv, o),
         t.wi = s.wi, t.cl.sock = s.cl.sock, t.cl.haveTheBuck = s.cl.haveTheBuck,
         t.cl.waitDispatch = s.cl.waitDispatch,
         t.cl.countToDeath = s.cl.countToDeath, t.cl.due = s.cl.due,
         s.cl.wantClose => t.cl.wantClose,
         \A c \in Calls : /\ t.ca[c].mode = s.ca[c].mode /\ t.ca[c].ping = s.ca[c].ping
                          /\ t.ca[c].haveThread = s.ca[c].haveThread
                          /\ t.ca[c].at = s.ca[c].at \/ (c = o /\ t.ca[c].at \in InLoop)
  PROVE  Inv(t, sv, o) /\ (Clean(s) => Clean(t)) /\ Goes(s, t)
<1>1. s.cl.waitDispatch \in Seq(Calls) /\ \A c \in Range(s.cl.waitDispatch) : c \in Calls
  BY Fields, RangeOf
<1>2. \A c \in Calls :
        /\ c \in Range(s.cl.waitDispatch) <=> s.ca[c].at \in {"queued", "asleep"} \/ c = o
        /\ c = o <=> Buck(s.ca[c])
        /\ s.ca[c].haveThread <=> s.ca[c].at \in Waiting
        /\ s.ca[c].at \in {"queued", "armed", "freed"} => c \in Messages
  BY DEF Inv, Placed
<1>3. Placed(t, o)
  <2> SUFFICES ASSUME NEW c \in Calls
               PROVE  /\ c \in Range(s.cl.waitDispatch) <=>
                           t.ca[c].at \in {"queued", "asleep"} \/ c = o
                      /\ c = o <=> Buck(t.ca[c])
                      /\ t.ca[c].haveThread <=> t.ca[c].at \in Waiting
                      /\ t.ca[c].at \in {"queued", "armed", "freed"} => c \in Messages
    BY DEF Placed, Inv
  <2>1. CASE t.ca[c].at = s.ca[c].at
    BY <1>2, <2>1 DEF Buck
  <2>2. CASE c = o /\ t.ca[c].at \in InLoop
    BY <1>2, <2>2 DEF Buck, Waiting, InLoop
  <2> QED BY <2>1, <2>2
<1>4. Held(t, o)
  <2>1. \A c \in Calls : t.ca[c].at = "asleep" => s.ca[c].at = "asleep"
    BY DEF InLoop
  <2> QED BY <2>1 DEF Inv, Held
<1>5. {c \in Calls : t.ca[c].mode = "tx"} = {c \in Calls : s.ca[c].mode = "tx"}
  OBVIOUS
<1>6. Framed(t)
  BY <1>5, Zenon DEF Inv, Framed
<1>7. \A c \in Calls : s.ca[c].at = t.ca[c].at \/ (s.ca[c].at \in Waiting /\ t.ca[c].at \in InLoop)
  BY <1>2 DEF Buck, Waiting
<1>8. Rest(t, sv)
  <2>1. \A c \in Calls : /\ t.ca[c].at = "idle" <=> s.ca[c].at = "idle"
                         /\ t.ca[c].at = "ok" <=> s.ca[c].at = "ok"
                         /\ t.ca[c].at = "failed" <=> s.ca[c].at = "failed"
    BY <1>7 DEF Waiting, InLoop
  <2>2. SameRest(s, t)
    BY <2>1 DEF SameRest, Inv, Rest, Answered, Calls
  <2> QED BY <2>2, RestKept DEF Inv
<1>9. Clean(s) => Clean(t)
  BY <1>1 DEF Clean
<1>10. Goes(s, t)
  BY <1>7 DEF Goes, Waiting, Calls
<1> QED BY <1>3, <1>4, <1>6, <1>8, <1>9, <1>10 DEF Inv

\* Where the thread of c is after the top of the loop.
Entered(s, t, c) ==
  /\ t \in States /\ t.cl = s.cl /\ t.wi = s.wi
  /\ t.ca[c].at = "unlocked" /\ t.ca[c].mode = s.ca[c].mode
  /\ t.ca[c].haveThread = s.ca[c].haveThread /\ t.ca[c].ping = s.ca[c].ping
  /\ \A x \in Calls : x # c => t.ca[x] = s.ca[x]

\* virNetClientIOEventLoop, up to the release of the lock.
LEMMA EnterLoopFacts ==
  ASSUME NEW s \in States, NEW c \in Calls
  PROVE  Entered(s, EnterLoop(s, c), c)
<1> DEFINE ev == {e \in {"in"} : WithMode(s, "rx") # {}} \cup {e \in {"out"} : WithMode(s, "tx") # {}}
           k == [s.ca[c] EXCEPT !.at = "unlocked", !.ev = ev, !.rev = {}]
           t == [s EXCEPT !.ca[c] = k]
<1>1. s.ca[c] \in CallFields /\ ev \in SUBSET {"in", "out"}
  BY Fields
<1>2. EnterLoop(s, c) = t
  BY <1>1, Fields, ZenonT(30) DEF EnterLoop, States
<1> HIDE DEF ev
<1>3. /\ k \in CallFields /\ k.at = "unlocked" /\ k.mode = s.ca[c].mode
      /\ k.haveThread = s.ca[c].haveThread /\ k.ping = s.ca[c].ping
  BY <1>1, Zenon DEF CallFields, Places, InLoop
<1> HIDE DEF k
<1>4. OneCall(s, t, c, k)
  BY <1>3, CallReplaced
<1> HIDE DEF t
<1> QED BY <1>2, <1>3, <1>4 DEF OneCall, Entered

\* The thread that has the buck enters the loop.
LEMMA EnterLoopInv ==
  ASSUME NEW s \in States, NEW sv, NEW c \in Calls, Inv(s, sv, c), Clean(s)
  PROVE  Good(EnterLoop(s, c), sv) /\ Goes(s, EnterLoop(s, c))
<1> DEFINE t == EnterLoop(s, c)
<1>1. Entered(s, t, c)
  BY EnterLoopFacts
<1> HIDE DEF t
<1>2. t \in States
  BY <1>1 DEF Entered
<1>3. \A x \in Calls : /\ t.ca[x].mode = s.ca[x].mode /\ t.ca[x].ping = s.ca[x].ping
                       /\ t.ca[x].haveThread = s.ca[x].haveThread
                       /\ t.ca[x].at = s.ca[x].at \/ (x = c /\ t.ca[x].at \in InLoop)
  BY <1>1 DEF Entered, InLoop
<1>4. Inv(t, sv, c) /\ Clean(t) /\ Goes(s, t)
  <2>1. t.wi = s.wi /\ t.cl = s.cl
    BY <1>1 DEF Entered
  <2> QED BY <1>2, <1>3, <2>1, LoopInv
<1> QED BY <1>2, <1>4 DEF Good, t

\* The call c of a thread has been queued: its thread sleeps, or has the buck, or has
\* left it to the thread that has it.
Joined(s, t, c, o, b) ==
  /\ t \in States /\ t.wi = s.wi /\ t.cl.sock = s.cl.sock /\ t.cl.wantClose = s.cl.wantClose
  /\ t.cl.closeReason = s.cl.closeReason
  /\ t.cl.waitDispatch = CallQueue(s.cl.waitDispatch, c)
  /\ t.cl.countToDeath = s.cl.countToDeath /\ t.cl.due = s.cl.due
  /\ t.ca[c].mode = "tx" /\ t.ca[c].ping = s.ca[c].ping
  /\ \A x \in Calls : x # c => t.ca[x] = s.ca[x]
  /\ \/ /\ t.ca[c].at = "queued" /\ ~t.ca[c].haveThread /\ c \in Messages
        /\ t.cl.haveTheBuck = s.cl.haveTheBuck /\ b = o
     \/ /\ t.ca[c].at = "asleep" /\ t.ca[c].haveThread /\ c \in ReplyCalls
        /\ t.cl.haveTheBuck = s.cl.haveTheBuck /\ b = o /\ o \in Calls
     \/ /\ t.ca[c].at = "unlocked" /\ t.ca[c].haveThread
        /\ t.cl.haveTheBuck /\ o = NoCall /\ b = c

\* See Joined.
LEMMA JoinedInv ==
  ASSUME NEW s \in States, NEW t, NEW sv, NEW c \in Calls, NEW o \in Calls \cup {NoCall}, NEW b,
         Inv(s, sv, o), Clean(s), s.cl.sock,
         \/ c \in ReplyCalls /\ s.ca[c].at = "idle"
         \/ c \in Messages /\ s.ca[c].at = "armed",
         Joined(s, t, c, o, b)
  PROVE  Inv(t, sv, b) /\ Clean(t)
<1> DEFINE q == s.cl.waitDispatch
           Q == CallQueue(q, c)
<1>1. q \in Seq(Calls) /\ \A x \in Range(q) : x \in Calls
  BY Fields, RangeOf
<1>2. \A x \in Calls :
        /\ x \in Range(q) <=> s.ca[x].at \in {"queued", "asleep"} \/ x = o
        /\ x = o <=> Buck(s.ca[x])
        /\ s.ca[x].haveThread <=> s.ca[x].at \in Waiting
        /\ s.ca[x].at \in {"queued", "armed", "freed"} => x \in Messages
  BY DEF Inv, Placed
<1>3. c \notin Range(q) /\ c # o
  BY <1>2 DEF Buck, InLoop
<1>4. /\ Q \in Seq(Calls)
      /\ \A x : x \in Range(Q) <=> x \in Range(q) \/ x = c
      /\ Unique(q) => Unique(Q)
      /\ \A T, h : First(q, T, h) => First(Q, T, h)
  BY <1>1, <1>3, QueuedCall
<1> HIDE DEF Q
<1>5. /\ t \in States /\ t.wi = s.wi /\ t.cl.sock = s.cl.sock /\ t.cl.wantClose = s.cl.wantClose
      /\ t.cl.waitDispatch = Q
      /\ t.cl.countToDeath = s.cl.countToDeath /\ t.cl.due = s.cl.due
      /\ t.ca[c].mode = "tx" /\ t.ca[c].ping = s.ca[c].ping
      /\ \A x \in Calls : x # c => t.ca[x] = s.ca[x]
  BY DEF Joined, Q
<1>6. /\ NoCall \notin Calls /\ c # NoCall
  OBVIOUS
<1>7. \/ /\ t.ca[c].at = "queued" /\ ~t.ca[c].haveThread /\ c \in Messages
         /\ t.cl.haveTheBuck = s.cl.haveTheBuck /\ b = o
      \/ /\ t.ca[c].at = "asleep" /\ t.ca[c].haveThread /\ c \in ReplyCalls
         /\ t.cl.haveTheBuck = s.cl.haveTheBuck /\ b = o /\ o \in Calls
      \/ /\ t.ca[c].at = "unlocked" /\ t.ca[c].haveThread
         /\ t.cl.haveTheBuck /\ o = NoCall /\ b = c
  BY DEF Joined
<1>8. Placed(t, b)
  <2> SUFFICES ASSUME NEW x \in Calls
               PROVE  /\ x \in Range(Q) <=> t.ca[x].at \in {"queued", "asleep"} \/ x = b
                      /\ x = b <=> Buck(t.ca[x])
                      /\ t.ca[x].haveThread <=> t.ca[x].at \in Waiting
                      /\ t.ca[x].at \in {"queued", "armed", "freed"} => x \in Messages
    BY <1>4, <1>5 DEF Placed, Inv
  <2>1. CASE x = c
    BY <1>3, <1>4, <1>7, <2>1 DEF Buck, Waiting, InLoop
  <2>2. CASE x # c
    <3>1. x = b <=> x = o
      BY <1>6, <1>7, <2>2
    <3> QED BY <1>2, <1>4, <1>5, <2>2, <3>1
  <2> QED BY <2>1, <2>2
<1>9. Held(t, b)
  <2>1. /\ s.cl.haveTheBuck <=> o \in Calls
        /\ \A x \in Calls : s.ca[x].at = "asleep" => o \in Calls
    BY DEF Inv, Held
  <2>2. o \in Calls => b \in Calls
    BY <1>6, <1>7
  <2>3. t.cl.haveTheBuck <=> b \in Calls
    BY <1>7, <2>1
  <2>4. \A x \in Calls : t.ca[x].at = "asleep" => b \in Calls
    BY <1>5, <1>7, <2>1, <2>2
  <2> QED BY <1>5, <2>3, <2>4 DEF Held
<1>10. Framed(t)
  <2> DEFINE T == {x \in Calls : s.ca[x].mode = "tx"}
             U == {x \in Calls : t.ca[x].mode = "tx"}
             h == s.wi.half
  <2> SUFFICES ASSUME s.cl.sock, ~s.cl.wantClose
               PROVE  ~s.wi.garbled /\ (h # NoCall => First(Q, U, h))
    BY <1>5 DEF Framed
  <2>1. ~s.wi.garbled /\ (h # NoCall => First(q, T, h))
    BY DEF Inv, Framed
  <2>2. \A x \in Range(q) : x \in T <=> x \in U
    BY <1>1, <1>3, <1>5
  <2> HIDE DEF T, U
  <2> QED BY <1>1, <1>4, <2>1, <2>2, FirstSame
<1>11. Rest(t, sv)
  <2>1. c \notin Messages => c \notin s.wi.sent
    BY DEF Inv, Rest, Answered
  <2>2. SameRest(s, t)
    <3>1. ASSUME NEW x \in ReplyCalls
          PROVE  /\ x \in s.wi.sent => x \in t.wi.sent
                 /\ x \in t.wi.sent =>
                     \/ t.ca[x].at # "idle" /\ t.ca[x].mode # "tx"
                     \/ /\ x \in s.wi.sent
                        /\ t.ca[x].at = "idle" => s.ca[x].at = "idle"
                        /\ t.ca[x].mode = "tx" => s.ca[x].mode = "tx"
                 /\ t.ca[x].mode = "complete" /\ t.ca[x].at # "failed" =>
                      s.ca[x].mode = "complete" /\ s.ca[x].at # "failed"
                 /\ t.ca[x].at = "ok" => t.ca[x].mode = "complete"
      <4>1. CASE x = c
        BY <1>5, <1>7, <2>1, <3>1, <4>1
      <4>2. CASE x # c
        BY <1>5, <3>1, <4>2 DEF Calls, Inv, Rest, Answered
      <4> QED BY <4>1, <4>2
    <3>2. ASSUME NEW x \in Messages
          PROVE  /\ t.ca[x].ping = s.ca[x].ping
                 /\ t.ca[x].at = "idle" <=> s.ca[x].at = "idle"
      <4>1. x \in Calls
        BY DEF Calls
      <4>2. CASE x = c
        BY <1>5, <1>7, <4>2
      <4>3. CASE x # c
        BY <1>5, <4>1, <4>3
      <4> QED BY <4>2, <4>3
    <3> QED BY <1>5, <3>1, <3>2 DEF SameRest
  <2> QED BY <1>5, <2>2, RestKept DEF Inv
<1>12. Clean(t)
  BY <1>1, <1>3, <1>4, <1>5 DEF Clean
<1> QED BY <1>8, <1>9, <1>10, <1>11, <1>12 DEF Inv

\* virNetClientIO queues the call of a thread.
LEMMA IOJoins ==
  ASSUME NEW s \in States, NEW c \in Calls, NEW o \in Calls \cup {NoCall}, Held(s, o),
         s.ca[c].at \in {"idle", "armed"}
  PROVE  LET r == [s EXCEPT !.ca[c].mode = "tx", !.ca[c].haveThread = TRUE]
         IN \E b \in Calls \cup {NoCall} : Joined(s, IO(r, c), c, o, b)
<1> DEFINE k == [s.ca[c] EXCEPT !.mode = "tx", !.haveThread = TRUE]
           r == [s EXCEPT !.ca[c] = k]
           Q == CallQueue(s.cl.waitDispatch, c)
           listed == [r EXCEPT !.cl.waitDispatch = Q]
           polling == [listed EXCEPT !.cl.wakeups = listed.cl.wakeups \cup {c}]
<1>1. s.ca[c] \in CallFields /\ s.cl.waitDispatch \in Seq(Calls)
  BY Fields
<1>2. [s EXCEPT !.ca[c].mode = "tx", !.ca[c].haveThread = TRUE] = r
  BY <1>1, Fields, ZenonT(30) DEF States
<1>3. /\ k \in CallFields /\ k.at = s.ca[c].at /\ k.mode = "tx" /\ k.haveThread = TRUE
      /\ k.ping = s.ca[c].ping
  BY <1>1, Zenon DEF CallFields
<1> HIDE DEF k
<1>4. OneCall(s, r, c, k)
  BY <1>3, CallReplaced
<1> HIDE DEF r
<1>5. /\ r \in States /\ r.cl = s.cl /\ r.wi = s.wi /\ r.ca[c] = k
      /\ \A x \in Calls : x # c => r.ca[x] = s.ca[x]
  BY <1>4 DEF OneCall
<1>6. Q \in Seq(Calls)
  BY <1>1, Appended DEF CallQueue
<1>7. /\ listed \in States /\ listed.ca = r.ca /\ listed.wi = r.wi
      /\ listed.cl.waitDispatch = Q /\ listed.cl.sock = s.cl.sock
      /\ listed.cl.wantClose = s.cl.wantClose /\ listed.cl.closeReason = s.cl.closeReason
      /\ listed.cl.countToDeath = s.cl.countToDeath /\ listed.cl.due = s.cl.due
      /\ listed.cl.haveTheBuck = s.cl.haveTheBuck
  <2> HIDE DEF Q
  <2> QED BY <1>5, <1>6 DEF States, ClientFields
<1>8. IO(r, c) =
        IF ~r.cl.haveTheBuck
        THEN EnterLoop(UpdateCallback([listed EXCEPT !.cl.haveTheBuck = TRUE], FALSE), c)
        ELSE IF c \in Messages
        THEN [polling EXCEPT !.ca[c].haveThread = FALSE, !.ca[c].at = "queued"]
        ELSE [polling EXCEPT !.ca[c].at = "asleep"]
  <2> DEFINE l0 == [r EXCEPT !.cl.waitDispatch = CallQueue(@, c)]
             p0 == [l0 EXCEPT !.cl.wakeups = @ \cup {c}]
  <2>1. l0 = listed
    BY <1>5 DEF Q, States
  <2>2. p0 = polling
    <3> HIDE DEF l0, listed
    <3> QED BY <1>7, <2>1 DEF States
  <2>3. IO(r, c) = IF ~r.cl.haveTheBuck
                   THEN EnterLoop(UpdateCallback([l0 EXCEPT !.cl.haveTheBuck = TRUE], FALSE), c)
                   ELSE IF c \in Messages
                   THEN [p0 EXCEPT !.ca[c].haveThread = FALSE, !.ca[c].at = "queued"]
                   ELSE [p0 EXCEPT !.ca[c].at = "asleep"]
    BY Zenon DEF IO
  <2> HIDE DEF l0, p0, listed, polling
  <2> QED BY <2>1, <2>2, <2>3, Zenon
<1> HIDE DEF listed, Q
<1>9. /\ polling \in States /\ polling.ca = r.ca /\ polling.wi = r.wi
      /\ polling.cl.waitDispatch = Q /\ polling.cl.sock = s.cl.sock
      /\ polling.cl.wantClose = s.cl.wantClose /\ polling.cl.closeReason = s.cl.closeReason
      /\ polling.cl.countToDeath = s.cl.countToDeath /\ polling.cl.due = s.cl.due
      /\ polling.cl.haveTheBuck = s.cl.haveTheBuck
  BY <1>7 DEF States, ClientFields
<1> HIDE DEF polling
<1>10. s.cl.haveTheBuck <=> o \in Calls
  BY DEF Held
<1>11. NoCall \notin Calls
  OBVIOUS
<1>12. ASSUME NEW t, NEW a \in Places, NEW h \in BOOLEAN, NEW l \in CallFields,
              OneCall(polling, t, c, l), l.at = a, l.haveThread = h, l.mode = "tx",
              l.ping = s.ca[c].ping, s.cl.haveTheBuck,
              \/ a = "queued" /\ ~h /\ c \in Messages
              \/ a = "asleep" /\ h /\ c \in ReplyCalls
       PROVE  Joined(s, t, c, o, o)
  <2>1. /\ t \in States /\ t.cl = polling.cl /\ t.wi = s.wi /\ t.ca[c] = l
        /\ \A x \in Calls : x # c => t.ca[x] = s.ca[x]
    BY <1>5, <1>9, <1>12 DEF OneCall
  <2> QED BY <1>9, <1>10, <1>12, <2>1, Zenon DEF Joined, Q
<1>13. CASE ~s.cl.haveTheBuck
  <2> DEFINE v == [listed EXCEPT !.cl.haveTheBuck = TRUE]
             u == UpdateCallback(v, FALSE)
             t == EnterLoop(u, c)
  <2>1. /\ v \in States /\ v.ca = r.ca /\ v.wi = r.wi
        /\ v.cl.waitDispatch = Q /\ v.cl.sock = s.cl.sock
        /\ v.cl.wantClose = s.cl.wantClose /\ v.cl.closeReason = s.cl.closeReason
        /\ v.cl.countToDeath = s.cl.countToDeath /\ v.cl.due = s.cl.due /\ v.cl.haveTheBuck
    BY <1>7, Zenon DEF States, ClientFields
  <2> HIDE DEF v
  <2>2. /\ u \in States /\ SameView(v, u) /\ u.ca = v.ca
        /\ u.cl.closeReason = v.cl.closeReason /\ u.cl.wantClose = v.cl.wantClose
    BY <2>1, UpdateCallbackView, Zenon
  <2> HIDE DEF u
  <2>3. Entered(u, t, c)
    BY <2>2, EnterLoopFacts
  <2> HIDE DEF t
  <2>4. IO(r, c) = t
    BY <1>5, <1>8, <1>13, Zenon DEF t, u, v
  <2>5. o = NoCall
    BY <1>10, <1>13
  <2>6. Joined(s, t, c, o, c)
    <3>1. u.ca = r.ca /\ u.wi = s.wi
      BY <1>5, <2>1, <2>2 DEF SameView
    <3>2. /\ t \in States /\ t.wi = s.wi /\ t.cl = u.cl
          /\ t.ca[c].at = "unlocked" /\ t.ca[c].mode = "tx"
          /\ t.ca[c].haveThread /\ t.ca[c].ping = s.ca[c].ping
      BY <1>3, <1>5, <2>3, <3>1 DEF Entered
    <3>3. \A x \in Calls : x # c => t.ca[x] = s.ca[x]
      BY <1>5, <2>3, <3>1 DEF Entered
    <3>4. /\ u.cl.sock = s.cl.sock /\ u.cl.wantClose = s.cl.wantClose
          /\ u.cl.closeReason = s.cl.closeReason /\ u.cl.waitDispatch = Q
          /\ u.cl.countToDeath = s.cl.countToDeath /\ u.cl.due = s.cl.due
          /\ u.cl.haveTheBuck
      BY <2>1, <2>2 DEF SameView
    <3> QED BY <2>5, <3>2, <3>3, <3>4 DEF Joined, Q
  <2> QED BY <1>2, <2>4, <2>6
<1>14. CASE s.cl.haveTheBuck /\ c \in Messages
  <2> DEFINE l == [k EXCEPT !.haveThread = FALSE, !.at = "queued"]
             t == [polling EXCEPT !.ca[c] = l]
  <2>1. [polling EXCEPT !.ca[c].haveThread = FALSE, !.ca[c].at = "queued"] = t
    <3>1. polling.ca[c] = k /\ polling.ca \in [Calls -> CallFields]
      BY <1>5, <1>9, Fields
    <3>2. [polling EXCEPT !.ca[c].haveThread = FALSE, !.ca[c].at = "queued"]
          = [polling EXCEPT !.ca[c] = [polling.ca[c] EXCEPT !.haveThread = FALSE, !.at = "queued"]]
      BY <1>9, <3>1, Zenon DEF States
    <3> QED BY <3>1, <3>2, Zenon
  <2>2. IO(r, c) = t
    <3> HIDE DEF t
    <3> QED BY <1>5, <1>8, <1>14, <2>1, Zenon
  <2>3. /\ l \in CallFields /\ l.at = "queued" /\ l.mode = "tx" /\ l.haveThread = FALSE
        /\ l.ping = s.ca[c].ping
    <3>1. k \in CallFields /\ k.mode = "tx" /\ k.ping = s.ca[c].ping
      BY <1>3
    <3> QED BY <3>1, Zenon DEF CallFields, Places
  <2> HIDE DEF l
  <2>4. OneCall(polling, t, c, l)
    BY <1>9, <2>3, CallReplaced
  <2> HIDE DEF t
  <2>5. Joined(s, t, c, o, o)
    <3>1. "queued" \in Places
      BY DEF Places
    <3> QED BY <1>12, <1>14, <2>3, <2>4, <3>1, Zenon
  <2> QED BY <1>2, <2>2, <2>5
<1>15. CASE s.cl.haveTheBuck /\ c \notin Messages
  <2> DEFINE l == [k EXCEPT !.at = "asleep"]
             t == [polling EXCEPT !.ca[c] = l]
  <2>1. [polling EXCEPT !.ca[c].at = "asleep"] = t
    BY <1>5, <1>9, Fields, Zenon DEF States
  <2>2. IO(r, c) = t
    <3> HIDE DEF t
    <3> QED BY <1>5, <1>8, <1>15, <2>1, Zenon
  <2>3. /\ l \in CallFields /\ l.at = "asleep" /\ l.mode = "tx" /\ l.haveThread = TRUE
        /\ l.ping = s.ca[c].ping
    BY <1>3 DEF CallFields, Places
  <2> HIDE DEF l
  <2>4. OneCall(polling, t, c, l)
    BY <1>9, <2>3, CallReplaced
  <2> HIDE DEF t
  <2>5. Joined(s, t, c, o, o)
    <3>1. "asleep" \in Places /\ c \in ReplyCalls
      BY <1>15 DEF Places, Calls
    <3> QED BY <1>12, <1>15, <2>3, <2>4, <3>1, Zenon
  <2> QED BY <1>2, <2>2, <2>5
<1> QED BY <1>13, <1>14, <1>15

\* The state s after the thread of c has left the loop, before it passes the buck.
Leaving(s, c, to) ==
  [IF to = "queued" THEN s ELSE [s EXCEPT !.cl.waitDispatch = CallRemove(@, c)]
     EXCEPT !.ca[c] = Ended(s, c, to)]

\* How the thread of c may leave the loop.
MayLeave(s, c, to) ==
  \/ to = "ok" /\ s.ca[c].mode = "complete"
  \/ to = "queued" /\ s.ca[c].mode # "complete" /\ c \in Messages
  \/ to = "failed" /\ s.cl.wantClose

\* The state e in which c is about to pass the buck: nobody owns it, and the sleepers
\* are other threads.
Leaves(s, e, sv, c, to) ==
  /\ e \in States /\ Placed(e, NoCall) /\ Framed(e) /\ Rest(e, sv) /\ Clean(e)
  /\ \A x \in Calls : e.ca[x].at = "asleep" => e.cl.haveTheBuck /\ e.cl.sock /\ x # c
  /\ e.cl.sock = s.cl.sock /\ e.cl.wantClose = s.cl.wantClose
  /\ e.cl.closeReason = s.cl.closeReason /\ e.ca[c].at = to
  /\ \A x \in Calls : x # c => e.ca[x] = s.ca[x]

\* Its call is not listed, unless it stays queued, and nobody has the buck.
LEMMA LeavingInv ==
  ASSUME NEW s \in States, NEW sv, NEW c \in Calls, Inv(s, sv, c), s.ca[c].at \in InLoop,
         \A x \in Range(s.cl.waitDispatch) \ {c} : s.ca[x].mode # "complete",
         NEW to, MayLeave(s, c, to)
  PROVE  Leaves(s, Leaving(s, c, to), sv, c, to)
<1> DEFINE q == s.cl.waitDispatch
           Q == IF to = "queued" THEN q ELSE CallRemove(q, c)
           u == [s EXCEPT !.cl.waitDispatch = Q]
           k == Ended(s, c, to)
           e == [u EXCEPT !.ca[c] = k]
<1>1. to \in {"ok", "queued", "failed"} /\ s.ca[c] \in CallFields
  BY Fields DEF MayLeave
<1>2. q \in Seq(Calls) /\ \A x \in Range(q) : x \in Calls
  BY Fields, RangeOf
<1>3. NoCall \notin Calls /\ c # NoCall
  OBVIOUS
<1>4. \A x \in Calls :
        /\ x \in Range(q) <=> s.ca[x].at \in {"queued", "asleep"} \/ x = c
        /\ x = c <=> Buck(s.ca[x])
        /\ s.ca[x].haveThread <=> s.ca[x].at \in Waiting
        /\ s.ca[x].at \in {"queued", "armed", "freed"} => x \in Messages
  BY DEF Inv, Placed
<1>5. /\ Q \in Seq(Calls) /\ Unique(Q)
      /\ \A x : x \in Range(Q) <=> x \in Range(q) /\ (x # c \/ to = "queued")
      /\ \A T, h : First(q, T, h) /\ (h # c \/ to = "queued") => First(Q, T, h)
  <2>0. Unique(q) /\ c \in Range(q)
    BY <1>4 DEF Inv, Placed
  <2>1. CASE to = "queued"
    BY <1>2, <2>0, <2>1
  <2>2. CASE to # "queued"
    <3>1. Q = CallRemove(q, c)
      BY <2>2
    <3>2. Subsequence(q, Calls \ {c}, Q)
      BY <1>2, <2>0, <3>1, RemovedSubsequence
    <3> HIDE DEF Q
    <3>3. /\ Q \in Seq(Calls)
          /\ \A x : x \in Range(Q) <=> x \in Range(q) /\ x \in Calls \ {c}
          /\ Unique(q) => Unique(Q)
          /\ \A T, h : First(q, T, h) /\ h \in Calls \ {c} => First(Q, T, h)
      BY <1>2, <3>2, SubsequenceOf
    <3>4. \A T, h : First(q, T, h) => h \in Calls
      BY <1>2, RangeOf DEF First
    <3> QED BY <1>2, <2>0, <2>2, <3>3, <3>4
  <2> QED BY <2>1, <2>2
<1>6. Leaving(s, c, to) = e
  <2>1. CASE to = "queued"
    <3>1. u = s
      BY <2>1 DEF States, ClientFields
    <3> QED BY <2>1, <3>1, Zenon DEF Leaving
  <2>2. CASE to # "queued"
    <3>1. u = [s EXCEPT !.cl.waitDispatch = CallRemove(@, c)]
      BY <2>2 DEF States
    <3> HIDE DEF u
    <3> QED BY <2>2, <3>1, Zenon DEF Leaving
  <2> QED BY <2>1, <2>2
<1> HIDE DEF Q
<1>7. /\ u \in States /\ u.ca = s.ca /\ u.wi = s.wi /\ u.cl.waitDispatch = Q
      /\ u.cl.sock = s.cl.sock /\ u.cl.wantClose = s.cl.wantClose
      /\ u.cl.closeReason = s.cl.closeReason /\ u.cl.haveTheBuck = s.cl.haveTheBuck
      /\ u.cl.countToDeath = s.cl.countToDeath /\ u.cl.due = s.cl.due
  <2>1. Q \in Seq(Calls)
    BY <1>5
  <2> QED BY <2>1, Zenon DEF States, ClientFields
<1>8. /\ k \in CallFields /\ k.at = to /\ k.ping = s.ca[c].ping /\ k.haveThread = FALSE
      /\ k.mode = IF to = "queued" THEN s.ca[c].mode ELSE "complete"
  BY <1>1, Zenon DEF Ended, CallFields, Places
<1> HIDE DEF u, k
<1>9. OneCall(u, e, c, k)
  BY <1>7, <1>8, CallReplaced
<1> HIDE DEF e
<1>10. /\ e \in States /\ e.wi = s.wi /\ e.cl = u.cl /\ e.ca[c] = k
       /\ \A x \in Calls : x # c => e.ca[x] = s.ca[x]
  BY <1>7, <1>9 DEF OneCall
<1>11. Placed(e, NoCall)
  <2> SUFFICES ASSUME NEW x \in Calls
               PROVE  /\ x \in Range(Q) <=> e.ca[x].at \in {"queued", "asleep"}
                      /\ ~Buck(e.ca[x])
                      /\ e.ca[x].haveThread <=> e.ca[x].at \in Waiting
                      /\ e.ca[x].at \in {"queued", "armed", "freed"} => x \in Messages
    BY <1>3, <1>5, <1>7, <1>10 DEF Placed
  <2>1. CASE x = c
    BY <1>1, <1>4, <1>5, <1>8, <1>10, <2>1 DEF Buck, Waiting, InLoop, MayLeave
  <2>2. CASE x # c
    BY <1>4, <1>5, <1>10, <2>2
  <2> QED BY <2>1, <2>2
<1>12. Framed(e)
  <2> DEFINE T == {x \in Calls : s.ca[x].mode = "tx"}
             U == {x \in Calls : e.ca[x].mode = "tx"}
             h == s.wi.half
  <2> SUFFICES ASSUME s.cl.sock, ~s.cl.wantClose
               PROVE  ~s.wi.garbled /\ (h # NoCall => First(Q, U, h))
    BY <1>7, <1>10 DEF Framed
  <2>1. ~s.wi.garbled /\ (h # NoCall => First(q, T, h))
    BY DEF Inv, Framed
  <2>2. First(q, T, h) => h \in T
    BY DEF First
  <2>3. h \in T => h # c \/ to = "queued"
    BY DEF MayLeave
  <2>4. \A x \in Range(Q) : x \in T <=> x \in U
    BY <1>2, <1>5, <1>8, <1>10
  <2> HIDE DEF T, U
  <2> QED BY <1>5, <2>1, <2>2, <2>3, <2>4, FirstSame
<1>13. Rest(e, sv)
  <2>1. SameRest(s, e)
    <3>1. ASSUME NEW x \in ReplyCalls
          PROVE  /\ e.ca[x].at # "idle" \/ e.ca[x].at = s.ca[x].at
                 /\ e.ca[x].mode = "tx" => s.ca[x].mode = "tx"
                 /\ e.ca[x].mode = "complete" /\ e.ca[x].at # "failed" =>
                      s.ca[x].mode = "complete" /\ s.ca[x].at # "failed"
                 /\ e.ca[x].at = "ok" => e.ca[x].mode = "complete"
      <4>0. x \in Calls
        BY DEF Calls
      <4>1. CASE x = c
        BY <1>1, <1>8, <1>10, <4>1, SMTT(30) DEF MayLeave, InLoop
      <4>2. CASE x # c
        BY <1>10, <4>0, <4>2 DEF Inv, Rest, Answered
      <4> QED BY <4>1, <4>2
    <3>2. ASSUME NEW x \in Messages
          PROVE  e.ca[x].ping = s.ca[x].ping /\ (e.ca[x].at = "idle" <=> s.ca[x].at = "idle")
      <4>0. x \in Calls
        BY DEF Calls
      <4>1. CASE x = c
        BY <1>1, <1>8, <1>10, <4>1 DEF InLoop
      <4>2. CASE x # c
        BY <1>10, <4>0, <4>2
      <4> QED BY <4>1, <4>2
    <3> QED BY <1>7, <1>10, <3>1, <3>2 DEF SameRest
  <2> QED BY <1>10, <2>1, RestKept DEF Inv
<1>14. Clean(e)
  <2> SUFFICES ASSUME NEW x \in Range(Q) PROVE e.ca[x].mode # "complete"
    BY <1>7, <1>10 DEF Clean
  <2>1. x \in Range(q) /\ x \in Calls /\ (x # c \/ to = "queued")
    BY <1>2, <1>5
  <2>2. CASE x = c
    BY <1>8, <1>10, <2>1, <2>2 DEF MayLeave
  <2>3. CASE x # c
    BY <1>10, <2>1, <2>3
  <2> QED BY <2>2, <2>3
<1>15. \A x \in Calls : e.ca[x].at = "asleep" => e.cl.haveTheBuck /\ e.cl.sock /\ x # c
  <2>1. s.cl.haveTheBuck /\ s.cl.sock
    BY DEF Inv, Held
  <2> QED BY <1>1, <1>7, <1>8, <1>10, <2>1, Zenon
<1>16. Leaves(s, e, sv, c, to)
  BY <1>7, <1>8, <1>10, <1>11, <1>12, <1>13, <1>14, <1>15, Zenon DEF Leaves
<1> QED BY <1>6, <1>16, Zenon

\* A call that is not listed changes its place.
LEMMA OffListInv ==
  ASSUME NEW s \in States, NEW t \in States, NEW o, NEW c \in Calls,
         Placed(s, o), Held(s, o), Framed(s), Clean(s),
         c \notin Range(s.cl.waitDispatch), c # o,
         t.wi = s.wi, t.cl.sock = s.cl.sock, t.cl.wantClose = s.cl.wantClose,
         t.cl.haveTheBuck = s.cl.haveTheBuck, t.cl.waitDispatch = s.cl.waitDispatch,
         \A x \in Calls : x # c => t.ca[x] = s.ca[x],
         t.ca[c].at \in {"ok", "failed"} \/ (t.ca[c].at = "armed" /\ c \in Messages),
         ~t.ca[c].haveThread
  PROVE  Placed(t, o) /\ Held(t, o) /\ Framed(t) /\ Clean(t)
<1> DEFINE q == s.cl.waitDispatch
<1>1. q \in Seq(Calls) /\ \A x \in Range(q) : x \in Calls /\ x # c
  BY Fields, RangeOf
<1>2. Placed(t, o)
  <2> SUFFICES ASSUME NEW x \in Calls
               PROVE  /\ x \in Range(q) <=> t.ca[x].at \in {"queued", "asleep"} \/ x = o
                      /\ x = o <=> Buck(t.ca[x])
                      /\ t.ca[x].haveThread <=> t.ca[x].at \in Waiting
                      /\ t.ca[x].at \in {"queued", "armed", "freed"} => x \in Messages
    BY DEF Placed
  <2>1. CASE x = c
    BY <2>1 DEF Buck, Waiting, InLoop
  <2>2. CASE x # c
    BY <2>2 DEF Placed
  <2> QED BY <2>1, <2>2
<1>3. Held(t, o)
  BY DEF Held
<1>4. Framed(t)
  <2> DEFINE T == {x \in Calls : s.ca[x].mode = "tx"}
             U == {x \in Calls : t.ca[x].mode = "tx"}
             h == s.wi.half
  <2> SUFFICES ASSUME s.cl.sock, ~s.cl.wantClose
               PROVE  ~s.wi.garbled /\ (h # NoCall => First(q, U, h))
    BY DEF Framed
  <2>1. ~s.wi.garbled /\ (h # NoCall => First(q, T, h))
    BY DEF Framed
  <2>2. \A x \in Range(q) : x \in T <=> x \in U
    BY <1>1
  <2> HIDE DEF T, U
  <2> QED BY <1>1, <2>1, <2>2, FirstSame
<1>5. Clean(t)
  BY <1>1 DEF Clean
<1> QED BY <1>2, <1>3, <1>4, <1>5

(***************************************************************************)
(* Steps.                                                                  *)
(***************************************************************************)

Open(s) == s.cl.sock /\ ~s.cl.wantClose

\* What a step of the thread of c, or of another one, may do to calls with a reply.
Moves(s, t, sv, c) ==
  /\ Open(t) => Open(s)
  /\ \A x \in ReplyCalls :
       \/ t.ca[x].at = s.ca[x].at
       \/ t.ca[x].at \in Waiting /\ s.ca[x].at \in Waiting
       \/ /\ x = c
          /\ \/ s.ca[x].at = "idle" /\ t.ca[x].at \in Waiting /\ Open(s) /\ Open(t)
             \/ s.ca[x].at = "idle" /\ t.ca[x].at = "failed" /\ ~Open(s) /\ ~Open(t)
             \/ s.ca[x].at \in Waiting /\ t.ca[x].at = "ok" /\ x \in sv
             \/ s.ca[x].at \in Waiting /\ t.ca[x].at = "failed" /\ ~Open(t)

\* The keep-alive is the reason to close only when its count has run out.
Blamed(s, t) ==
  t.cl.closeReason = "keepalive" /\ s.cl.closeReason # "keepalive" =>
    s.cl.sock /\ s.cl.countToDeath = 0

\* What every step does.
Blames ==
  \/ "keepalive" \in closers' \ closers
  \/ /\ client'.closeReason = "keepalive" /\ client.closeReason # "keepalive"
     /\ "keepalive" \notin closers

ServedOne(c) ==
  /\ c \in ReplyCalls /\ c \notin served /\ call[c].at \notin {"idle", "ok"}
  /\ served' = served \cup {c} /\ call' = call /\ client' = client

Step ==
  /\ IInv'
  /\ Blames => client.sock /\ client.countToDeath = 0
  /\ \/ /\ served' \cap ReplyCalls = served \cap ReplyCalls
        /\ \E c \in Calls \cup {NoCall} : Moves(State, State', served, c)
     \/ \E c \in ReplyCalls : ServedOne(c)

\* What Goes allows.
LEMMA GoesMoves ==
  ASSUME NEW s \in States, NEW t \in States, NEW sv, NEW c, Goes(s, t)
  PROVE  Moves(s, t, sv, c)
<1>1. s.cl.sock \in BOOLEAN /\ s.cl.wantClose \in BOOLEAN
      /\ t.cl.sock \in BOOLEAN /\ t.cl.wantClose \in BOOLEAN
  BY Fields
<1> QED BY <1>1 DEF Goes, Moves, Open

\* The next state.
LEMMA BecomesState ==
  ASSUME NEW t \in States, Becomes(t)
  PROVE  State' = t
<1>1. client' = t.cl /\ call' = t.ca /\ wire' = t.wi
  BY DEF Becomes
<1>2. t = [cl |-> t.cl, ca |-> t.ca, wi |-> t.wi]
  BY DEF States
<1>3. State' = [cl |-> client', ca |-> call', wi |-> wire']
  BY DEF State
<1> QED BY <1>1, <1>2, <1>3

\* A step that only changes the state.
LEMMA StepOf ==
  ASSUME NEW t, Becomes(t), UNCHANGED served, IInv, Good(t, served),
         NEW c \in Calls \cup {NoCall}, Moves(State, t, served, c),
         Blamed(State, t) \/ "keepalive" \in closers, "keepalive" \notin closers' \ closers
  PROVE  Step
<1>1. State' = t
  BY BecomesState DEF Good
<1>2. IInv'
  BY <1>1 DEF IInv
<1>3. client = State.cl /\ client' = t.cl
  BY DEF State, Becomes
<1> QED BY <1>1, <1>2, <1>3 DEF Step, Blamed, Blames

\* The state and its parts.
LEMMA StateFields ==
  ASSUME IInv
  PROVE  /\ State \in States /\ State.cl = client /\ State.ca = call /\ State.wi = wire
         /\ served \subseteq Calls /\ Clean(State)
         /\ \E o \in Calls \cup {NoCall} : Inv(State, served, o)
BY DEF IInv, Good, State

\* virNetClientSendInternal refuses the call of a client that is closed or marked.
LEMMA RefusedInv ==
  ASSUME NEW s \in States, NEW sv, NEW o \in Calls \cup {NoCall}, Inv(s, sv, o), Clean(s),
         NEW c \in Calls, ~Open(s),
         \/ c \in ReplyCalls /\ s.ca[c].at = "idle"
         \/ c \in Messages /\ s.ca[c].at = "armed"
  PROVE  LET t == [s EXCEPT !.ca[c] = Ended(s, c, "failed")]
         IN Good(t, sv) /\ Moves(s, t, sv, c) /\ Blamed(s, t)
<1> DEFINE k == Ended(s, c, "failed")
           t == [s EXCEPT !.ca[c] = k]
<1>1. s.ca[c] \in CallFields
  BY Fields
<1>2. /\ k \in CallFields /\ k.at = "failed" /\ k.ping = s.ca[c].ping /\ k.haveThread = FALSE
      /\ k.mode = "complete"
  BY <1>1, ZenonT(30) DEF Ended, CallFields, Places
<1> HIDE DEF k
<1>3. OneCall(s, t, c, k)
  BY <1>2, CallReplaced
<1> HIDE DEF t
<1>4. /\ t \in States /\ t.wi = s.wi /\ t.cl = s.cl /\ t.ca[c] = k
      /\ \A x \in Calls : x # c => t.ca[x] = s.ca[x]
  BY <1>3 DEF OneCall
<1>5. /\ c # o /\ c \notin Range(s.cl.waitDispatch)
  BY DEF Inv, Placed, Buck, InLoop
<1>6. Placed(t, o) /\ Held(t, o) /\ Framed(t) /\ Clean(t)
  BY <1>2, <1>4, <1>5, OffListInv DEF Inv
<1>7. SameRest(s, t)
  <2>1. \A x \in ReplyCalls : x # c => t.ca[x].at = s.ca[x].at /\ t.ca[x].mode = s.ca[x].mode
    BY <1>4 DEF Calls
  <2>2. \A x \in Messages : t.ca[x].ping = s.ca[x].ping /\ (t.ca[x].at = "idle" <=> s.ca[x].at = "idle")
    BY <1>2, <1>4 DEF Calls
  <2> QED BY <1>2, <1>4, <2>1, <2>2 DEF SameRest, Inv, Rest, Answered
<1>8. Rest(t, sv)
  BY <1>4, <1>7, RestKept DEF Inv
<1>9. Good(t, sv)
  BY <1>4, <1>6, <1>8 DEF Good, Inv
<1>10. Moves(s, t, sv, c)
  BY <1>2, <1>4 DEF Moves, Open, Calls
<1>11. Blamed(s, t)
  BY <1>4 DEF Blamed
<1> QED BY <1>9, <1>10, <1>11 DEF t, k

\* virNetClientSendInternal.
LEMMA SendInternalStep ==
  ASSUME IInv, NEW c \in Calls, SendInternal(c)
  PROVE  Step
<1> DEFINE s == State
<1>1. /\ s \in States /\ s.cl = client /\ s.ca = call /\ Clean(s)
      /\ \E o \in Calls \cup {NoCall} : Inv(s, served, o)
  BY StateFields
<1>2. PICK o \in Calls \cup {NoCall} : Inv(s, served, o)
  BY <1>1
<1>3. /\ \/ c \in ReplyCalls /\ s.ca[c].at = "idle"
         \/ c \in Messages /\ s.ca[c].at = "armed"
      /\ UNCHANGED served /\ closers' = closers
  BY <1>1 DEF SendInternal
<1>4. CASE ~client.sock \/ client.wantClose
  <2> DEFINE t == [s EXCEPT !.ca[c] = Ended(s, c, "failed")]
  <2>1. Becomes(t)
    BY <1>4, Zenon DEF SendInternal
  <2>2. ~Open(s)
    BY <1>1, <1>4 DEF Open
  <2>3. Good(t, served) /\ Moves(s, t, served, c) /\ Blamed(s, t)
    <3> HIDE DEF s
    <3> QED BY <1>1, <1>2, <1>3, <2>2, RefusedInv, Zenon
  <2> HIDE DEF t
  <2> QED BY <1>3, <2>1, <2>3, StepOf
<1>5. CASE ~(~client.sock \/ client.wantClose)
  <2> DEFINE t == IO([s EXCEPT !.ca[c].mode = "tx", !.ca[c].haveThread = TRUE], c)
  <2>1. Becomes(t)
    BY <1>5, Zenon DEF SendInternal
  <2>2. \E b \in Calls \cup {NoCall} : Joined(s, t, c, o, b)
    <3>1. s.ca[c].at \in {"idle", "armed"} /\ Held(s, o)
      BY <1>2, <1>3 DEF Inv
    <3> HIDE DEF s
    <3> QED BY <1>1, <3>1, IOJoins, Zenon
  <2>3. PICK b \in Calls \cup {NoCall} : Joined(s, t, c, o, b)
    BY <2>2
  <2> HIDE DEF s, t
  <2>4. s.cl.sock /\ Open(s)
    BY <1>1, <1>5 DEF Open
  <2>5. Inv(t, served, b) /\ Clean(t)
    BY <1>1, <1>2, <1>3, <2>3, <2>4, JoinedInv, SMTT(30)
  <2>6. Good(t, served)
    BY <2>3, <2>5 DEF Good, Joined
  <2>7. Moves(s, t, served, c)
    BY <1>3, <2>3, <2>4 DEF Joined, Moves, Open, Calls, Waiting, InLoop
  <2>8. Blamed(s, t)
    BY <2>3 DEF Joined, Blamed
  <2> QED BY <1>3, <2>1, <2>6, <2>7, <2>8, StepOf DEF s
<1> QED BY <1>4, <1>5

\* The thread of a completed call returns from virNetClientSendInternal.
LEMMA ReturnedInv ==
  ASSUME NEW s \in States, NEW sv, NEW o \in Calls \cup {NoCall}, Inv(s, sv, o), Clean(s),
         NEW c \in Calls, s.ca[c].at = "woken", s.ca[c].mode = "complete"
  PROVE  LET t == [s EXCEPT !.ca[c] = Ended(s, c, "ok")]
         IN Good(t, sv) /\ Moves(s, t, sv, c) /\ Blamed(s, t)
<1> DEFINE k == Ended(s, c, "ok")
           t == [s EXCEPT !.ca[c] = k]
<1>1. s.ca[c] \in CallFields
  BY Fields
<1>2. /\ k \in CallFields /\ k.at = "ok" /\ k.ping = s.ca[c].ping /\ k.haveThread = FALSE
      /\ k.mode = "complete"
  BY <1>1, Zenon DEF Ended, CallFields, Places
<1> HIDE DEF k
<1>3. OneCall(s, t, c, k)
  BY <1>2, CallReplaced
<1> HIDE DEF t
<1>4. /\ t \in States /\ t.wi = s.wi /\ t.cl = s.cl /\ t.ca[c] = k
      /\ \A x \in Calls : x # c => t.ca[x] = s.ca[x]
  BY <1>3 DEF OneCall
<1>5. /\ c # o /\ c \notin Range(s.cl.waitDispatch)
  BY DEF Inv, Placed, Buck, InLoop
<1>6. Placed(t, o) /\ Held(t, o) /\ Framed(t) /\ Clean(t)
  BY <1>2, <1>4, <1>5, OffListInv, SMTT(30) DEF Inv
<1>7. SameRest(s, t)
  <2>1. \A x \in ReplyCalls : x # c => t.ca[x].at = s.ca[x].at /\ t.ca[x].mode = s.ca[x].mode
    BY <1>4 DEF Calls
  <2>2. \A x \in Messages : t.ca[x].ping = s.ca[x].ping /\ (t.ca[x].at = "idle" <=> s.ca[x].at = "idle")
    BY <1>2, <1>4 DEF Calls
  <2> QED BY <1>2, <1>4, <2>1, <2>2 DEF SameRest, Inv, Rest, Answered
<1>8. Rest(t, sv)
  BY <1>4, <1>7, RestKept DEF Inv
<1>9. Good(t, sv)
  BY <1>4, <1>6, <1>8, SMTT(30) DEF Good, Inv
<1>10. Moves(s, t, sv, c)
  <2>1. c \in ReplyCalls => c \in sv
    BY DEF Inv, Rest, Answered
  <2> QED BY <1>2, <1>4, <2>1 DEF Moves, Open, Calls, Waiting
<1>11. Blamed(s, t)
  BY <1>4 DEF Blamed
<1> QED BY <1>9, <1>10, <1>11 DEF t, k

\* A thread returns from virCondWait.
LEMMA WakeupStep ==
  ASSUME IInv, NEW c \in Calls, Wakeup(c)
  PROVE  Step
<1> DEFINE r == State
           s == [r EXCEPT !.cl.wakeups = @ \ {c}]
<1>1. /\ r \in States /\ r.cl = client /\ r.ca = call /\ Clean(r)
      /\ \E o \in Calls \cup {NoCall} : Inv(r, served, o)
  BY StateFields
<1>2. PICK o \in Calls \cup {NoCall} : Inv(r, served, o)
  BY <1>1
<1>3. r.ca[c].at = "woken" /\ UNCHANGED served /\ closers' = closers
  BY <1>1 DEF Wakeup
<1>4. Becomes(IF call[c].mode = "complete" THEN [s EXCEPT !.ca[c] = Ended(s, c, "ok")]
              ELSE EnterLoop(UpdateCallback(s, FALSE), c))
  BY Zenon DEF Wakeup
<1> HIDE DEF r
<1>5. /\ s \in States /\ SameView(r, s) /\ s.ca = r.ca /\ s.cl.closeReason = r.cl.closeReason
      /\ s.cl.wantClose = r.cl.wantClose
  BY <1>1 DEF States, ClientFields, SameView
<1> HIDE DEF s
<1>6. Inv(s, served, o) /\ Clean(s) /\ Goes(r, s)
  BY <1>1, <1>2, <1>5, ViewInv, AlongFacts
<1>7. CASE call[c].mode = "complete"
  <2> DEFINE t == [s EXCEPT !.ca[c] = Ended(s, c, "ok")]
  <2>1. Becomes(t)
    BY <1>4, <1>7, Zenon
  <2>2. Good(t, served) /\ Moves(s, t, served, c) /\ Blamed(s, t)
    <3>1. s.ca[c].at = "woken" /\ s.ca[c].mode = "complete"
      BY <1>1, <1>3, <1>5, <1>7, SMTT(30)
    <3> QED BY <1>5, <1>6, <3>1, ReturnedInv, Zenon
  <2> HIDE DEF t
  <2>3. Moves(r, t, served, c) /\ Blamed(r, t)
    BY <1>5, <2>2 DEF SameView, Moves, Open, Blamed
  <2> QED BY <1>3, <2>1, <2>2, <2>3, StepOf DEF r
<1>8. CASE call[c].mode # "complete"
  <2> DEFINE u == UpdateCallback(s, FALSE)
             t == EnterLoop(u, c)
  <2>1. Becomes(t)
    BY <1>4, <1>8, Zenon
  <2>2. u \in States /\ SameView(s, u) /\ u.cl.closeReason = s.cl.closeReason
    BY <1>5, UpdateCallbackView, ZenonT(30)
  <2> HIDE DEF u
  <2>3. o = c
    BY <1>1, <1>2, <1>3, <1>8 DEF Inv, Placed, Buck
  <2>4. Inv(u, served, c) /\ Clean(u) /\ Goes(s, u)
    BY <1>5, <1>6, <2>2, <2>3, ViewInv, AlongFacts
  <2>5. Good(t, served) /\ Goes(u, t)
    BY <2>2, <2>4, EnterLoopInv
  <2>6. t.cl = u.cl /\ t \in States
    BY <2>2, EnterLoopFacts DEF Entered
  <2> HIDE DEF t
  <2>7. Goes(r, t)
    BY <1>6, <2>4, <2>5 DEF Goes
  <2>8. Moves(r, t, served, c)
    BY <1>1, <2>6, <2>7, GoesMoves
  <2>9. Blamed(r, t)
    BY <1>5, <2>2, <2>6 DEF Blamed
  <2> QED BY <1>3, <2>1, <2>5, <2>8, <2>9, StepOf DEF r
<1> QED BY <1>7, <1>8

\* The thread that has the buck goes on in its main loop.
LEMMA LoopStep ==
  ASSUME IInv, NEW c \in Calls, call[c].at \in InLoop,
         NEW k \in CallFields, k.at \in InLoop, k.mode = call[c].mode, k.ping = call[c].ping,
         k.haveThread = call[c].haveThread,
         call' = [call EXCEPT ![c] = k],
         NEW w \in SUBSET Calls, client' = [client EXCEPT !.wakeups = w],
         UNCHANGED <<wire, closers, served>>
  PROVE  Step
<1> DEFINE s == State
           u == [s EXCEPT !.cl.wakeups = w]
           t == [u EXCEPT !.ca[c] = k]
<1>1. /\ s \in States /\ s.cl = client /\ s.ca = call /\ s.wi = wire /\ Clean(s)
      /\ \E o \in Calls \cup {NoCall} : Inv(s, served, o)
  BY StateFields
<1>2. PICK o \in Calls \cup {NoCall} : Inv(s, served, o)
  BY <1>1
<1>3. o = c
  BY <1>1, <1>2 DEF Inv, Placed, Buck
<1>4. State = s /\ State.cl = s.cl /\ "keepalive" \notin closers' \ closers
  OBVIOUS
<1> HIDE DEF s
<1>5. /\ u \in States /\ u.ca = s.ca /\ u.wi = s.wi /\ u.cl = [s.cl EXCEPT !.wakeups = w]
  BY <1>1 DEF States, ClientFields
<1>6. /\ u.cl.sock = s.cl.sock /\ u.cl.wantClose = s.cl.wantClose
      /\ u.cl.closeReason = s.cl.closeReason
      /\ u.cl.haveTheBuck = s.cl.haveTheBuck /\ u.cl.waitDispatch = s.cl.waitDispatch
      /\ u.cl.countToDeath = s.cl.countToDeath /\ u.cl.due = s.cl.due
  BY <1>1 DEF States, ClientFields
<1> HIDE DEF u
<1>7. OneCall(u, t, c, k)
  BY <1>5, CallReplaced
<1>8. t.ca = [u.ca EXCEPT ![c] = k]
  BY <1>5 DEF States
<1> HIDE DEF t
<1>9. /\ t \in States /\ t.cl = u.cl /\ t.wi = s.wi /\ t.ca[c] = k
      /\ \A x \in Calls : x # c => t.ca[x] = s.ca[x]
  BY <1>5, <1>7 DEF OneCall
<1>10. Becomes(t)
  BY <1>1, <1>5, <1>8, <1>9, Zenon DEF Becomes
<1>11. \A x \in Calls :
         /\ t.ca[x].mode = s.ca[x].mode /\ t.ca[x].ping = s.ca[x].ping
         /\ t.ca[x].haveThread = s.ca[x].haveThread
         /\ t.ca[x].at = s.ca[x].at \/ (x = c /\ t.ca[x].at \in InLoop)
  BY <1>1, <1>9
<1>12. Inv(t, served, c) /\ Clean(t) /\ Goes(s, t)
  BY <1>1, <1>2, <1>3, <1>6, <1>9, <1>11, LoopInv
<1>13. Good(t, served)
  BY <1>9, <1>12 DEF Good
<1>14. Moves(s, t, served, c)
  BY <1>1, <1>9, <1>12, GoesMoves
<1>15. Blamed(s, t)
  BY <1>6, <1>9 DEF Blamed
<1> QED BY <1>4, <1>10, <1>13, <1>14, <1>15, StepOf

\* What poll reports.
LEMMA ReadyType ==
  ASSUME NEW ev
  PROVE  Ready(ev) \in SUBSET {"in", "out", "hup"}
BY DEF Ready

\* g_main_loop_run, virNetClientIOEventFD and virNetClientIOWakeup.
LEMMA MainLoopStep ==
  ASSUME IInv, NEW c \in Calls, RunLoop(c) \/ IOEventFD(c) \/ IOWakeup(c)
  PROVE  Step
<1>1. /\ call \in [Calls -> CallFields] /\ call[c] \in CallFields /\ client \in ClientFields
  BY StateFields, Fields
<1>2. client.wakeups \in SUBSET Calls /\ client = [client EXCEPT !.wakeups = client.wakeups]
  BY <1>1, SMTT(30) DEF ClientFields
<1>3. CASE RunLoop(c)
  <2> DEFINE k == [call[c] EXCEPT !.at = "running"]
  <2>1. /\ k \in CallFields /\ k.at \in InLoop /\ k.mode = call[c].mode /\ k.ping = call[c].ping
        /\ k.haveThread = call[c].haveThread
    BY <1>1 DEF CallFields, Places, InLoop
  <2>2. call' = [call EXCEPT ![c] = k]
    BY <1>1, <1>3 DEF RunLoop
  <2>3. call[c].at \in InLoop /\ UNCHANGED <<client, wire, closers, served>>
    BY <1>3 DEF RunLoop, InLoop
  <2>4. client' = [client EXCEPT !.wakeups = client.wakeups]
    BY <1>2, <2>3, ZenonT(30)
  <2> HIDE DEF k
  <2> QED BY <1>2, <2>1, <2>2, <2>3, <2>4, LoopStep, Zenon
<1>4. CASE IOEventFD(c)
  <2> DEFINE rev == Ready(call[c].ev)
             k == [call[c] EXCEPT !.at = "stopped", !.rev = rev]
  <2>1. call' = [call EXCEPT ![c] = k]
    BY <1>1, <1>4, Zenon DEF IOEventFD
  <2>2. rev \in SUBSET {"in", "out", "hup"}
    BY ReadyType
  <2> HIDE DEF rev
  <2>3. /\ k \in CallFields /\ k.at \in InLoop /\ k.mode = call[c].mode /\ k.ping = call[c].ping
        /\ k.haveThread = call[c].haveThread
    BY <1>1, <2>2, Zenon DEF CallFields, Places, InLoop
  <2>4. call[c].at \in InLoop /\ UNCHANGED <<client, wire, closers, served>>
    BY <1>4 DEF IOEventFD, InLoop
  <2>5. client' = [client EXCEPT !.wakeups = client.wakeups]
    BY <1>2, <2>4, Zenon
  <2> HIDE DEF k
  <2> QED BY <1>2, <2>1, <2>3, <2>4, <2>5, LoopStep, Zenon
<1>5. CASE IOWakeup(c)
  <2> DEFINE k == [call[c] EXCEPT !.at = "stopped"]
  <2>1. /\ k \in CallFields /\ k.at \in InLoop /\ k.mode = call[c].mode /\ k.ping = call[c].ping
        /\ k.haveThread = call[c].haveThread
    BY <1>1 DEF CallFields, Places, InLoop
  <2>2. call' = [call EXCEPT ![c] = k]
    BY <1>1, <1>5 DEF IOWakeup
  <2>3. call[c].at \in InLoop /\ UNCHANGED <<wire, closers, served>>
    BY <1>5 DEF IOWakeup, InLoop
  <2>4. client' = [client EXCEPT !.wakeups = {}] /\ {} \in SUBSET Calls
    BY <1>5 DEF IOWakeup
  <2> HIDE DEF k
  <2> QED BY <2>1, <2>2, <2>3, <2>4, LoopStep, Zenon
<1> QED BY <1>3, <1>4, <1>5
=============================================================================
