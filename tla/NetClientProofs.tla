-------------------------- MODULE NetClientProofs --------------------------
(***************************************************************************)
(* Proofs about NetClient, for any number of calling threads and of        *)
(* keep-alive messages: the buck is neither lost nor copied, no waiting    *)
(* thread loses its socket or its call, messages are not mixed up on the   *)
(* wire, no server that answers is given up, and the client implements     *)
(* RpcCalls.                                                               *)
(***************************************************************************)
EXTENDS NetClientThreadProofs

USE NetClientAssumption

(***************************************************************************)
(* Leaving the loop.                                                       *)
(***************************************************************************)

\* The thread of c has left the loop with its call at "to".
Left(s, t, c, to) ==
  /\ t \in States
  /\ t.cl.sock => s.cl.sock
  /\ s.cl.wantClose => t.cl.wantClose \/ ~t.cl.sock
  /\ t.cl.closeReason = s.cl.closeReason
  /\ \A x \in ReplyCalls :
       IF x = c THEN t.ca[x].at = to
       ELSE t.ca[x].at = s.ca[x].at \/ (t.ca[x].at \in Waiting /\ s.ca[x].at \in Waiting)

\* The thread of c passes the buck and leaves virNetClientIOEventLoop.
LEMMA LeaveLoopInv ==
  ASSUME NEW s \in States, NEW sv, NEW c \in Calls, Inv(s, sv, c), s.ca[c].at \in InLoop,
         \A x \in Range(s.cl.waitDispatch) \ {c} : s.ca[x].mode # "complete",
         NEW to, MayLeave(s, c, to), LeaveLoop(s, c, to)
  PROVE  \E t : Becomes(t) /\ Good(t, sv) /\ Left(s, t, c, to)
<1> DEFINE e == Leaving(s, c, to)
           p == PassTheBuck(e, c)
           v == UpdateCallback(p, TRUE)
           t == IF p.cl.sock THEN v ELSE p
<1>1. Becomes(t)
  <2>1. PICK left \in {IF to = "queued" THEN s ELSE [s EXCEPT !.cl.waitDispatch = CallRemove(@, c)]} :
        \E passed \in {PassTheBuck([left EXCEPT !.ca[c] = Ended(s, c, to)], c)} :
          Becomes(IF passed.cl.sock THEN UpdateCallback(passed, TRUE) ELSE passed)
    BY Zenon DEF LeaveLoop
  <2>2. [left EXCEPT !.ca[c] = Ended(s, c, to)] = e
    BY <2>1, Zenon DEF Leaving
  <2>3. PICK passed \in {PassTheBuck(e, c)} :
          Becomes(IF passed.cl.sock THEN UpdateCallback(passed, TRUE) ELSE passed)
    BY <2>1, <2>2, Zenon
  <2>4. passed = p
    BY <2>3, Zenon
  <2> HIDE DEF p, e
  <2> QED BY <2>3, <2>4, Zenon
<1>2. /\ e \in States /\ Placed(e, NoCall) /\ Framed(e) /\ Rest(e, sv) /\ Clean(e)
      /\ \A x \in Calls : e.ca[x].at = "asleep" => e.cl.haveTheBuck /\ e.cl.sock /\ x # c
      /\ e.cl.sock = s.cl.sock /\ e.cl.wantClose = s.cl.wantClose
      /\ e.cl.closeReason = s.cl.closeReason /\ e.ca[c].at = to
      /\ \A x \in Calls : x # c => e.ca[x] = s.ca[x]
  <2>1. Leaves(s, e, sv, c, to)
    BY LeavingInv, Zenon
  <2> HIDE DEF e
  <2> QED BY <2>1, Zenon DEF Leaves
<1> HIDE DEF e
<1>3. /\ p \in States /\ (\E o \in Calls \cup {NoCall} : Inv(p, sv, o))
      /\ Clean(p) /\ Goes(e, p) /\ p.cl.closeReason = e.cl.closeReason
  <2>1. c \in Calls \cup {NoCall}
    OBVIOUS
  <2> QED BY <1>2, <2>1, PassTheBuckInv, Zenon
<1> HIDE DEF p
<1>4. PICK o \in Calls \cup {NoCall} : Inv(p, sv, o)
  BY <1>3
<1>5. /\ v \in States /\ SameView(p, v) /\ v.ca = p.ca
      /\ v.cl.closeReason = p.cl.closeReason /\ v.cl.wantClose = p.cl.wantClose
  BY <1>3, UpdateCallbackView, Zenon
<1> HIDE DEF v
<1>6. Inv(v, sv, o) /\ Clean(v)
  BY <1>3, <1>4, <1>5, ViewInv, SMTT(30)
<1>7. /\ t \in States /\ Inv(t, sv, o) /\ Clean(t)
      /\ t.ca = p.ca /\ t.cl.sock = p.cl.sock /\ t.cl.wantClose = p.cl.wantClose
      /\ t.cl.closeReason = p.cl.closeReason
  BY <1>3, <1>4, <1>5, <1>6, SMTT(30) DEF SameView
<1> HIDE DEF t
<1>8. Good(t, sv)
  BY <1>7, SMTT(30) DEF Good
<1>9. Left(s, t, c, to)
  <2>1. \A x \in ReplyCalls : p.ca[x].at = e.ca[x].at \/ (p.ca[x].at \in Waiting /\ e.ca[x].at \in Waiting)
    BY <1>3 DEF Goes
  <2>2. to \notin Waiting
    BY DEF MayLeave, Waiting, InLoop
  <2>3. /\ p.cl.sock => e.cl.sock
        /\ e.cl.wantClose => p.cl.wantClose \/ ~p.cl.sock
    BY <1>3, SMTT(30) DEF Goes
  <2>4. ASSUME NEW x \in ReplyCalls
        PROVE  IF x = c THEN t.ca[x].at = to
               ELSE t.ca[x].at = s.ca[x].at \/ (t.ca[x].at \in Waiting /\ s.ca[x].at \in Waiting)
    BY <1>2, <1>7, <2>1, <2>2 DEF Calls
  <2> QED BY <1>2, <1>3, <1>7, <2>3, <2>4, SMTT(30) DEF Left
<1> QED BY <1>1, <1>8, <1>9

\* What the thread has made of the state r when it leaves or re-enters the loop.
Worked(r, s, sv, c) ==
  /\ s \in States /\ Inv(s, sv, c) /\ s.ca[c].at \in InLoop /\ Goes(r, s)
  /\ \A x \in Range(s.cl.waitDispatch) \ {c} : s.ca[x].mode # "complete"
  /\ Blamed(r, s)

\* The part of virNetClientIOEventLoop up to virNetClientIOEventLoopRemoveDone.
LEMMA LoopWorked ==
  ASSUME NEW r \in States, NEW sv, NEW c \in Calls, Inv(r, sv, c), r.ca[c].at = "stopped",
         NEW rev, NEW io \in HandleIO(KeepAliveTrigger(r), rev)
  PROVE  /\ Worked(r, RemoveDone(io.s, c), sv, c)
         /\ KeepAliveTrigger(r).cl.wantClose \/ ~io.ok => RemoveDone(io.s, c).cl.wantClose
<1> DEFINE a == KeepAliveTrigger(r)
           d == RemoveDone(io.s, c)
<1>1. /\ a \in States /\ Inv(a, sv, c) /\ Along(r, a)
      /\ \/ a.cl.closeReason = r.cl.closeReason
         \/ r.cl.due /\ r.cl.countToDeath = 0 /\ a.cl.closeReason = "keepalive"
  BY KeepAliveTriggerInv, Zenon
<1>2. io \in HandleIO(a, rev)
  OBVIOUS
<1> HIDE DEF a
<1>3. a.ca[c].at = "stopped"
  BY <1>1 DEF Along
<1>4. Result(a, io, sv, c)
  BY <1>1, <1>2, <1>3, HandleIOInv, SMTT(30) DEF InLoop
<1>5. /\ io.s \in States /\ Inv(io.s, sv, c) /\ Along(a, io.s)
      /\ io.s.cl.closeReason \in {a.cl.closeReason, "eof", "error"}
      /\ ~io.ok => io.s.cl.wantClose
  BY <1>4 DEF Result
<1>6. io.s.ca[c].at \in InLoop
  BY <1>3, <1>5, SMTT(30) DEF Along, InLoop
<1>7. /\ d \in States /\ Inv(d, sv, c) /\ Goes(io.s, d)
      /\ \A x \in Range(d.cl.waitDispatch) \ {c} : d.ca[x].mode # "complete"
      /\ d.ca[c] = io.s.ca[c]
      /\ d.cl.sock = io.s.cl.sock /\ d.cl.wantClose = io.s.cl.wantClose
      /\ d.cl.closeReason = io.s.cl.closeReason
  <2>1. c \in Calls \cup {NoCall}
    OBVIOUS
  <2> QED BY <1>5, <1>6, <2>1, RemoveDoneInv
<1> HIDE DEF d
<1>8. Goes(r, d)
  <2>1. Along(r, io.s)
    BY <1>1, <1>5, AlongFacts
  <2>2. Goes(r, io.s)
    BY <2>1, AlongFacts, SMTT(30)
  <2> QED BY <1>7, <2>2 DEF Goes
<1>9. Blamed(r, d)
  <2>1. r.cl.sock
    BY SMTT(30) DEF Inv, Held
  <2> QED BY <1>1, <1>5, <1>7, <2>1, SMTT(30) DEF Blamed
<1>10. a.cl.wantClose \/ ~io.ok => d.cl.wantClose
  BY <1>5, <1>7, SMTT(30) DEF Along
<1>11. Worked(r, d, sv, c)
  BY <1>6, <1>7, <1>8, <1>9 DEF Worked
<1> QED BY <1>10, <1>11, Zenon DEF a, d

\* A thread leaves the loop after its work.
LEMMA LeftStep ==
  ASSUME IInv, NEW c \in Calls, NEW s, Worked(State, s, served, c),
         NEW to, MayLeave(s, c, to), LeaveLoop(s, c, to), UNCHANGED <<closers, served>>
  PROVE  Step
<1> DEFINE r == State
<1>1. r \in States
  BY StateFields
<1>2. /\ s \in States /\ Inv(s, served, c) /\ s.ca[c].at \in InLoop /\ Goes(r, s)
      /\ \A x \in Range(s.cl.waitDispatch) \ {c} : s.ca[x].mode # "complete"
      /\ Blamed(r, s)
  BY DEF Worked
<1>3. State = r /\ UNCHANGED served /\ "keepalive" \notin closers' \ closers
  BY SMTT(30)
<1> HIDE DEF r
<1>4. PICK t : Becomes(t) /\ Good(t, served) /\ Left(s, t, c, to)
  BY <1>2, LeaveLoopInv, SMTT(30)
<1>5. /\ s.cl.sock \in BOOLEAN /\ s.cl.wantClose \in BOOLEAN
      /\ t.cl.sock \in BOOLEAN /\ t.cl.wantClose \in BOOLEAN
      /\ r.cl.sock \in BOOLEAN /\ r.cl.wantClose \in BOOLEAN
  BY <1>1, <1>2, <1>4, Fields, Zenon DEF Left
<1>6. Moves(r, t, served, c)
  <2>1. (Open(t) => Open(r)) /\ (s.cl.wantClose => ~Open(t))
    BY <1>2, <1>4, <1>5, SMTT(30) DEF Left, Goes, Open
  <2>2. ASSUME NEW x \in ReplyCalls, x # c
        PROVE  \/ t.ca[x].at = r.ca[x].at
               \/ t.ca[x].at \in Waiting /\ r.ca[x].at \in Waiting
    BY <1>2, <1>4, <2>2 DEF Left, Goes
  <2>3. ASSUME c \in ReplyCalls
        PROVE  /\ r.ca[c].at \in Waiting
               /\ \/ t.ca[c].at = "ok" /\ c \in served
                  \/ t.ca[c].at = "failed" /\ ~Open(t)
    <3>1. r.ca[c].at \in Waiting
      BY <1>2, <2>3 DEF Goes, Waiting
    <3>2. t.ca[c].at = to
      BY <1>4, <2>3 DEF Left
    <3>3. s.ca[c].mode = "complete" => c \in served
      BY <1>2, <2>3 DEF Inv, Rest, Answered, InLoop
    <3>4. c \notin Messages
      BY <2>3
    <3> QED BY <2>1, <3>1, <3>2, <3>3, <3>4, SMTT(30) DEF MayLeave
  <2> QED BY <2>1, <2>2, <2>3, SMTT(30) DEF Moves
<1>7. Blamed(r, t)
  BY <1>2, <1>4 DEF Left, Blamed
<1> QED BY <1>3, <1>4, <1>6, <1>7, StepOf

\* One round of virNetClientIOEventLoop.
LEMMA EventLoopStep ==
  ASSUME IInv, NEW c \in Calls, EventLoop(c)
  PROVE  Step
<1> DEFINE r == State
           rev == call[c].rev
           a == KeepAliveTrigger(r)
<1>1. /\ r \in States /\ r.cl = client /\ r.ca = call /\ Clean(r)
      /\ \E o \in Calls \cup {NoCall} : Inv(r, served, o)
  BY StateFields
<1>2. PICK o \in Calls \cup {NoCall} : Inv(r, served, o)
  BY <1>1
<1>3. r.ca[c].at = "stopped" /\ UNCHANGED <<closers, served>>
  BY <1>1 DEF EventLoop
<1>4. PICK io \in HandleIO(a, rev) :
        LET s == RemoveDone(io.s, c)
            error == a.cl.wantClose \/ ~io.ok
        IN IF s.ca[c].mode = "complete" THEN LeaveLoop(s, c, "ok")
           ELSE IF c \in Messages THEN LeaveLoop(s, c, "queued")
           ELSE IF error THEN LeaveLoop(s, c, "failed")
           ELSE IF "hup" \in rev THEN LeaveLoop(MarkClose(s, Reason(rev)), c, "failed")
           ELSE Becomes(EnterLoop(s, c))
  BY ZenonT(30) DEF EventLoop
<1> DEFINE s == RemoveDone(io.s, c)
<1>5. Inv(r, served, c)
  BY <1>2, <1>3, SMTT(30) DEF Inv, Placed, Buck, InLoop
<1>6. Worked(r, s, served, c) /\ (a.cl.wantClose \/ ~io.ok => s.cl.wantClose)
  <2> HIDE DEF r
  <2> QED BY <1>1, <1>3, <1>4, <1>5, LoopWorked, Zenon
<1>7. State = r
  BY SMTT(30)
<1> HIDE DEF r, s, a, rev
<1>8. CASE s.ca[c].mode = "complete"
  <2>1. LeaveLoop(s, c, "ok")
    BY <1>4, <1>8, Zenon DEF s
  <2>2. MayLeave(s, c, "ok")
    BY <1>8 DEF MayLeave
  <2> QED BY <1>3, <1>6, <1>7, <2>1, <2>2, LeftStep, Zenon
<1>9. CASE s.ca[c].mode # "complete" /\ c \in Messages
  <2>1. LeaveLoop(s, c, "queued")
    BY <1>4, <1>9, Zenon DEF s
  <2>2. MayLeave(s, c, "queued")
    BY <1>9 DEF MayLeave
  <2> QED BY <1>3, <1>6, <1>7, <2>1, <2>2, LeftStep
<1>10. CASE s.ca[c].mode # "complete" /\ c \notin Messages /\ (a.cl.wantClose \/ ~io.ok)
  <2>1. LeaveLoop(s, c, "failed")
    BY <1>4, <1>10, Zenon DEF s
  <2>2. MayLeave(s, c, "failed")
    BY <1>6, <1>10 DEF MayLeave
  <2> QED BY <1>3, <1>6, <1>7, <2>1, <2>2, LeftStep
<1>11. CASE /\ s.ca[c].mode # "complete" /\ c \notin Messages
            /\ ~(a.cl.wantClose \/ ~io.ok) /\ "hup" \in rev
  <2> DEFINE m == MarkClose(s, Reason(rev))
  <2>1. LeaveLoop(m, c, "failed")
    BY <1>4, <1>11, Zenon DEF s
  <2>2. Reason(rev) \in CloseReasons /\ Reason(rev) # "keepalive"
    BY DEF Reason, CloseReasons
  <2>3. /\ s \in States /\ Inv(s, served, c) /\ s.ca[c].at \in InLoop /\ Goes(r, s)
        /\ \A x \in Range(s.cl.waitDispatch) \ {c} : s.ca[x].mode # "complete"
        /\ Blamed(r, s)
    BY <1>6 DEF Worked
  <2>4. /\ m \in States /\ SameView(s, m) /\ m.ca = s.ca /\ m.cl.wantClose
        /\ m.cl.closeReason \in {s.cl.closeReason, Reason(rev)}
    BY <2>2, <2>3, MarkCloseView, ZenonT(30)
  <2> HIDE DEF m
  <2>5. Inv(m, served, c) /\ Goes(s, m)
    BY <2>3, <2>4, ViewInv, AlongFacts, Zenon
  <2>6. Worked(r, m, served, c)
    <3>1. Goes(r, m)
      BY <2>3, <2>5 DEF Goes
    <3>2. Blamed(r, m)
      BY <2>2, <2>3, <2>4 DEF Blamed
    <3> QED BY <2>3, <2>4, <2>5, <3>1, <3>2 DEF Worked, SameView
  <2>7. MayLeave(m, c, "failed")
    BY <2>4 DEF MayLeave
  <2> QED BY <1>3, <1>7, <2>1, <2>6, <2>7, LeftStep
<1>12. CASE /\ s.ca[c].mode # "complete" /\ c \notin Messages
            /\ ~(a.cl.wantClose \/ ~io.ok) /\ "hup" \notin rev
  <2> DEFINE t == EnterLoop(s, c)
  <2>1. Becomes(t)
    BY <1>4, <1>12, ZenonT(30) DEF s
  <2>2. /\ s \in States /\ Inv(s, served, c) /\ Goes(r, s)
        /\ \A x \in Range(s.cl.waitDispatch) \ {c} : s.ca[x].mode # "complete"
        /\ Blamed(r, s)
    BY <1>6 DEF Worked
  <2>3. Clean(s)
    BY <1>12, <2>2, SMTT(30) DEF Clean
  <2>4. Good(t, served) /\ Goes(s, t)
    BY <2>2, <2>3, EnterLoopInv, SMTT(30)
  <2>5. t \in States /\ t.cl = s.cl
    BY <2>2, EnterLoopFacts, SMTT(30) DEF Entered
  <2> HIDE DEF t
  <2>6. Goes(r, t)
    BY <2>2, <2>4 DEF Goes
  <2>7. Moves(r, t, served, c)
    BY <1>1, <2>5, <2>6, GoesMoves
  <2>8. Blamed(r, t)
    BY <2>2, <2>5 DEF Blamed
  <2> QED BY <1>3, <1>7, <2>1, <2>4, <2>7, <2>8, StepOf
<1> QED BY <1>8, <1>9, <1>10, <1>11, <1>12

(***************************************************************************)
(* Closing, and the thread of the event loop.                              *)
(***************************************************************************)

\* The check of virNetClientCloseInternal, made for the keep-alive only when its count
\* has run out.
LEMMA CloseCheckStep ==
  ASSUME IInv, NEW reason, CloseCheck(reason),
         reason = "keepalive" => client.sock /\ client.countToDeath = 0
  PROVE  Step
<1>1. /\ closers' = closers \cup {reason}
      /\ client' = client /\ call' = call /\ wire' = wire /\ served' = served
  BY DEF CloseCheck
<1>2. State' = State
  BY <1>1 DEF State
<1>3. IInv'
  BY <1>1, <1>2 DEF IInv
<1>4. Moves(State, State', served, NoCall)
  BY <1>2 DEF Moves
<1>5. Blames => reason = "keepalive"
  BY <1>1 DEF Blames
<1> QED BY <1>1, <1>3, <1>4, <1>5 DEF Step

\* virNetClientCloseInternal with the lock.
LEMMA CloseLockStep ==
  ASSUME IInv, NEW reason \in Reasons \cup {"keepalive"}, CloseLock(reason)
  PROVE  Step
<1> DEFINE r == State
           s == MarkClose(r, reason)
           F == [c \in Calls |-> IF s.ca[c].at = "running"
                                 THEN [s.ca[c] EXCEPT !.at = "stopped"] ELSE s.ca[c]]
           quit == [s EXCEPT !.ca = F]
<1>1. /\ r \in States /\ r.cl = client /\ r.ca = call /\ Clean(r)
      /\ \E o \in Calls \cup {NoCall} : Inv(r, served, o)
  BY StateFields
<1>2. PICK o \in Calls \cup {NoCall} : Inv(r, served, o)
  BY <1>1
<1>3. /\ reason \in closers /\ UNCHANGED served /\ "keepalive" \notin closers' \ closers
  BY DEF CloseLock
<1>4. Becomes(IF client.haveTheBuck THEN quit ELSE PassTheBuck(s, NoCall))
  BY Zenon DEF CloseLock
<1>5. State = r
  OBVIOUS
<1> HIDE DEF r
<1>6. reason \in CloseReasons
  BY DEF CloseReasons
<1>7. /\ s \in States /\ SameView(r, s) /\ s.ca = r.ca /\ s.cl.wantClose
      /\ s.cl.closeReason \in {r.cl.closeReason, reason}
  BY <1>1, <1>6, MarkCloseView, Zenon
<1> HIDE DEF s
<1>8. Inv(s, served, o) /\ Clean(s) /\ Goes(r, s)
  BY <1>1, <1>2, <1>7, ViewInv, AlongFacts
<1>9. s.cl.haveTheBuck = client.haveTheBuck
  BY <1>1, <1>7 DEF SameView
<1>10. ASSUME NEW t, Becomes(t), Good(t, served), Goes(s, t),
              t.cl.closeReason = s.cl.closeReason
       PROVE  Step
  <2>1. t \in States
    BY <1>10 DEF Good
  <2>2. Goes(r, t)
    BY <1>8, <1>10 DEF Goes
  <2>3. Moves(r, t, served, NoCall)
    BY <1>1, <2>1, <2>2, GoesMoves
  <2>4. Blamed(r, t) \/ "keepalive" \in closers
    BY <1>3, <1>7, <1>10 DEF Blamed
  <2>5. NoCall \in Calls \cup {NoCall}
    OBVIOUS
  <2> QED BY <1>3, <1>5, <1>10, <2>3, <2>4, <2>5, StepOf
<1>11. CASE client.haveTheBuck
  <2>1. Becomes(quit)
    BY <1>4, <1>11, Zenon
  <2>2. s.ca \in [Calls -> CallFields]
    BY <1>7, Fields
  <2>3. F \in [Calls -> CallFields]
    <3> SUFFICES ASSUME NEW c \in Calls PROVE F[c] \in CallFields
      OBVIOUS
    <3>1. s.ca[c] \in CallFields
      BY <2>2
    <3>2. [s.ca[c] EXCEPT !.at = "stopped"] \in CallFields
      BY <3>1 DEF CallFields, Places, InLoop
    <3> QED BY <3>1, <3>2
  <2>4. o \in Calls
    BY <1>8, <1>9, <1>11 DEF Inv, Held
  <2>5. \A c \in Calls : s.ca[c].at = "running" => c = o
    BY <1>8 DEF Inv, Placed, Buck, InLoop
  <2>6. \A c \in Calls :
          /\ F[c].mode = s.ca[c].mode /\ F[c].ping = s.ca[c].ping
          /\ F[c].haveThread = s.ca[c].haveThread
          /\ F[c].at = s.ca[c].at \/ (c = o /\ F[c].at \in InLoop)
    <3> SUFFICES ASSUME NEW c \in Calls
                 PROVE  /\ F[c].mode = s.ca[c].mode /\ F[c].ping = s.ca[c].ping
                        /\ F[c].haveThread = s.ca[c].haveThread
                        /\ F[c].at = s.ca[c].at \/ (c = o /\ F[c].at \in InLoop)
      OBVIOUS
    <3>1. s.ca[c] \in CallFields
      BY <2>2
    <3> QED BY <2>5, <3>1 DEF CallFields, InLoop
  <2> HIDE DEF F
  <2>7. quit \in States /\ quit.cl = s.cl /\ quit.wi = s.wi /\ quit.ca = F
    BY <1>7, <2>3 DEF States
  <2> HIDE DEF quit
  <2>8. Inv(quit, served, o) /\ Clean(quit) /\ Goes(s, quit)
    BY <1>7, <1>8, <2>4, <2>6, <2>7, LoopInv
  <2>9. Good(quit, served)
    BY <2>7, <2>8 DEF Good
  <2> QED BY <1>10, <2>1, <2>7, <2>8, <2>9
<1>12. CASE ~client.haveTheBuck
  <2> DEFINE t == PassTheBuck(s, NoCall)
  <2>1. Becomes(t)
    BY <1>4, <1>12, Zenon
  <2>2. o = NoCall
    BY <1>8, <1>9, <1>12 DEF Inv, Held
  <2>3. \A c \in Calls : s.ca[c].at # "asleep"
    BY <1>8, <2>2 DEF Inv, Held
  <2>4. /\ t \in States /\ (\E b \in Calls \cup {NoCall} : Inv(t, served, b))
        /\ Clean(t) /\ Goes(s, t) /\ t.cl.closeReason = s.cl.closeReason
    <3>1. Placed(s, NoCall) /\ Framed(s) /\ Rest(s, served) /\ NoCall \in Calls \cup {NoCall}
      BY <1>8, <2>2 DEF Inv
    <3> QED BY <1>7, <1>8, <2>3, <3>1, PassTheBuckInv
  <2> HIDE DEF t
  <2>5. Good(t, served)
    BY <2>4 DEF Good
  <2> QED BY <1>10, <2>1, <2>4, <2>5
<1> QED BY <1>11, <1>12

\* virNetClientIncomingEvent: the I/O of the event loop, while no thread has the buck.
LEMMA IncomingEventStep ==
  ASSUME IInv, IncomingEvent
  PROVE  Step
<1> DEFINE r == State
           rev == Ready(client.io)
<1>1. /\ r \in States /\ r.cl = client /\ Clean(r)
      /\ \E o \in Calls \cup {NoCall} : Inv(r, served, o)
  BY StateFields
<1>2. ~client.haveTheBuck /\ UNCHANGED served /\ "keepalive" \notin closers' \ closers
  BY DEF IncomingEvent
<1>3. PICK io \in HandleIO(r, rev) :
        LET s == IF "hup" \in rev THEN MarkClose(io.s, Reason(rev))
                 ELSE UpdateCallback(RemoveDone(io.s, NoCall), TRUE)
        IN Becomes(IF s.cl.wantClose THEN CloseLocked(s, NoCall) ELSE s)
  BY Zenon DEF IncomingEvent
<1> DEFINE m == MarkClose(io.s, Reason(rev))
           d == RemoveDone(io.s, NoCall)
           u == UpdateCallback(d, TRUE)
           s == IF "hup" \in rev THEN m ELSE u
           k == CloseLocked(s, NoCall)
<1>4. Inv(r, served, NoCall) /\ State = r /\ NoCall \notin Calls
  BY <1>1, <1>2 DEF Inv, Held
<1>5. Result(r, io, served, NoCall)
  <2> HIDE DEF r
  <2> QED BY <1>1, <1>3, <1>4, HandleIOInv
<1> HIDE DEF r, rev
<1>6. /\ io.s \in States /\ Inv(io.s, served, NoCall) /\ Along(r, io.s)
      /\ io.s.cl.closeReason \in {r.cl.closeReason, "eof", "error"}
  BY <1>5 DEF Result
<1>7. /\ m \in States /\ SameView(io.s, m) /\ m.cl.wantClose
      /\ m.cl.closeReason \in {io.s.cl.closeReason, "eof", "error"}
  <2>1. Reason(rev) \in CloseReasons /\ Reason(rev) \in {"eof", "error"}
    BY DEF Reason, CloseReasons
  <2> QED BY <1>6, <2>1, MarkCloseView
<1>8. /\ d \in States /\ Inv(d, served, NoCall) /\ Goes(io.s, d)
      /\ \A x \in Range(d.cl.waitDispatch) \ {NoCall} : d.ca[x].mode # "complete"
      /\ d.cl.closeReason = io.s.cl.closeReason
  BY <1>4, <1>6, RemoveDoneInv
<1> HIDE DEF m, d
<1>9. Clean(d)
  <2>1. \A x \in Range(d.cl.waitDispatch) : x \in Calls
    BY <1>8, Fields, RangeOf
  <2> QED BY <1>4, <1>8, <2>1 DEF Clean
<1>10. /\ u \in States /\ SameView(d, u) /\ u.cl.closeReason = d.cl.closeReason
  BY <1>8, UpdateCallbackView, Zenon
<1> HIDE DEF u
<1>11. /\ Inv(m, served, NoCall) /\ Goes(io.s, m)
       /\ Inv(u, served, NoCall) /\ Clean(u) /\ Goes(d, u)
  BY <1>6, <1>7, <1>8, <1>9, <1>10, ViewInv, AlongFacts, Zenon
<1>12. Goes(r, io.s)
  BY <1>6, AlongFacts
<1>13. /\ s \in States /\ Inv(s, served, NoCall) /\ Goes(r, s) /\ Blamed(r, s)
       /\ s.cl.wantClose \/ Clean(s)
  <2>1. CASE "hup" \in rev
    <3>1. s = m
      BY <2>1
    <3>2. Goes(r, m) /\ Blamed(r, m)
      BY <1>6, <1>7, <1>11, <1>12 DEF Goes, Blamed
    <3> QED BY <1>7, <1>11, <3>1, <3>2
  <2>2. CASE "hup" \notin rev
    <3>1. s = u
      BY <2>2
    <3>2. Goes(r, u) /\ Blamed(r, u)
      BY <1>6, <1>8, <1>10, <1>11, <1>12 DEF Goes, Blamed
    <3> QED BY <1>10, <1>11, <3>1, <3>2
  <2> QED BY <2>1, <2>2
<1>14. Becomes(IF s.cl.wantClose THEN k ELSE s)
  BY <1>3, Zenon DEF m, u, d
<1> HIDE DEF s
<1>15. ASSUME NEW t, Becomes(t), Good(t, served), Goes(r, t), Blamed(r, t)
       PROVE  Step
  <2>1. t \in States
    BY <1>15 DEF Good
  <2>2. Moves(r, t, served, NoCall)
    BY <1>1, <1>15, <2>1, GoesMoves
  <2> QED BY <1>2, <1>4, <1>15, <2>2, StepOf
<1>16. CASE s.cl.wantClose
  <2>1. Becomes(k)
    BY <1>14, <1>16, Zenon
  <2>2. /\ Placed(s, NoCall) /\ Rest(s, served) /\ ~s.cl.haveTheBuck
        /\ \A c \in Calls : s.ca[c].at # "asleep"
        /\ NoCall \notin Range(s.cl.waitDispatch)
    <3>1. \A x \in Range(s.cl.waitDispatch) : x \in Calls
      BY <1>13, Fields, RangeOf
    <3> QED BY <1>4, <1>13, <3>1 DEF Inv, Held
  <2>3. /\ k \in States /\ Inv(k, served, NoCall) /\ Clean(k) /\ Goes(s, k)
        /\ k.cl.closeReason = s.cl.closeReason
    <3>1. Closed(s, k, served)
      <4>1. s \in States /\ NoCall \in Calls \cup {NoCall}
        BY <1>13
      <4> QED BY <2>2, <4>1, CloseLockedInv, Zenon
    <3> HIDE DEF k
    <3> QED BY <3>1, Zenon DEF Closed
  <2> HIDE DEF k
  <2>4. Good(k, served)
    BY <2>3 DEF Good
  <2>5. Goes(r, k) /\ Blamed(r, k)
    BY <1>13, <2>3 DEF Goes, Blamed
  <2> QED BY <1>15, <2>1, <2>4, <2>5
<1>17. CASE ~s.cl.wantClose
  <2>1. Becomes(s)
    BY <1>14, <1>17, Zenon
  <2>2. Good(s, served)
    BY <1>13, <1>17 DEF Good
  <2> QED BY <1>13, <1>15, <2>1, <2>2
<1> QED BY <1>16, <1>17

\* virKeepAliveTimer: a request is made, or the connection is given up.
LEMMA KeepAliveTimerStep ==
  ASSUME IInv, KeepAliveTimer
  PROVE  Step
<1> DEFINE s == State
           m == NewMessage(s)
           v == [s EXCEPT !.cl = [s.cl EXCEPT !.due = FALSE, !.countToDeath = s.cl.countToDeath - 1]]
           k == [s.ca[m] EXCEPT !.at = "armed", !.ping = TRUE]
           t == [v EXCEPT !.ca[m] = k]
<1>1. /\ s \in States /\ s.cl = client /\ s.ca = call /\ s.wi = wire /\ Clean(s)
      /\ \E o \in Calls \cup {NoCall} : Inv(s, served, o)
  BY StateFields
<1>2. client.sock /\ client.due /\ client.countToDeath \in Nat
  BY <1>1, Fields DEF KeepAliveTimer
<1>3. CASE ~(client.countToDeath > 0)
  <2>1. CloseCheck("keepalive")
    BY <1>3 DEF KeepAliveTimer
  <2>2. client.countToDeath = 0
    BY <1>2, <1>3
  <2> QED BY <1>2, <2>1, <2>2, CloseCheckStep
<1>4. CASE client.countToDeath > 0
  <2>1. /\ client' = [client EXCEPT !.due = FALSE, !.countToDeath = @ - 1]
        /\ call' = [call EXCEPT ![m].at = "armed", ![m].ping = TRUE]
        /\ UNCHANGED <<wire, closers, served>>
    BY <1>4 DEF KeepAliveTimer
  <2>2. PICK o \in Calls \cup {NoCall} : Inv(s, served, o)
    BY <1>1
  <2>3. Unused(s) # {}
    <3>1. Cardinality(Unused(s)) >= Occurs("ping", s.wi.in) + 1
      BY <1>1, <1>2, <1>4, <2>2 DEF Inv, Rest, Spared
    <3>2. Occurs("ping", s.wi.in) \in Nat
      BY <1>1, Counts, Zenon
    <3>3. Cardinality(Unused(s)) # 0
      BY <3>1, <3>2
    <3> QED BY <3>3, FS_EmptySet
  <2>4. m \in Unused(s) /\ m \in Messages /\ m \in Calls /\ s.ca[m].at = "idle"
    BY <1>1, <2>3, NewMessageOf
  <2>5. State = s
    OBVIOUS
  <2> HIDE DEF s, m
  <2>6. /\ v \in States /\ v.ca = s.ca /\ v.wi = s.wi /\ ~v.cl.due /\ v.cl = client'
        /\ v.cl.countToDeath = s.cl.countToDeath - 1
        /\ v.cl.waitDispatch = s.cl.waitDispatch /\ v.cl.closeReason = s.cl.closeReason
        /\ v.cl.sock = s.cl.sock /\ v.cl.wantClose = s.cl.wantClose
        /\ v.cl.haveTheBuck = s.cl.haveTheBuck
    <3>1. s.cl.countToDeath - 1 \in Nat
      BY <1>1, <1>2, <1>4
    <3> QED BY <1>1, <2>1, <3>1, Zenon DEF States, ClientFields
  <2>7. s.ca[m] \in CallFields
    BY <1>1, <2>4, Fields
  <2>8. k \in CallFields /\ k.at = "armed" /\ k.ping /\ k.haveThread = s.ca[m].haveThread
    BY <2>7, Zenon DEF CallFields, Places
  <2>9. call' = [call EXCEPT ![m] = k]
    <3>1. call \in [Calls -> CallFields] /\ s.ca = call
      BY <1>1, Fields
    <3>2. call' = [call EXCEPT ![m].at = "armed", ![m].ping = TRUE]
      BY <2>1
    <3> QED BY <2>4, <3>1, <3>2, Zenon
  <2> HIDE DEF v, k
  <2>10. OneCall(v, t, m, k)
    BY <2>4, <2>6, <2>8, CallReplaced
  <2>11. t.ca = [v.ca EXCEPT ![m] = k]
    BY <2>6 DEF States
  <2> HIDE DEF t
  <2>12. /\ t \in States /\ t.cl = v.cl /\ t.wi = s.wi /\ t.ca[m] = k
         /\ \A x \in Calls : x # m => t.ca[x] = s.ca[x]
    BY <2>6, <2>10 DEF OneCall
  <2>13. Becomes(t)
    BY <1>1, <2>1, <2>6, <2>9, <2>11, <2>12, Zenon DEF Becomes
  <2>14. m # o /\ m \notin Range(s.cl.waitDispatch) /\ ~s.ca[m].haveThread
    BY <2>2, <2>4 DEF Inv, Placed, Buck, InLoop, Waiting
  <2>15. Placed(t, o) /\ Held(t, o) /\ Framed(t) /\ Clean(t)
    BY <1>1, <2>2, <2>4, <2>6, <2>8, <2>12, <2>14, OffListInv DEF Inv
  <2>16. Rest(t, served)
    <3>1. /\ s \in States /\ t \in States /\ Rest(s, served) /\ m \in Unused(s)
          /\ s.cl.due /\ s.cl.countToDeath > 0
      BY <1>1, <1>2, <1>4, <2>2, <2>4, <2>12 DEF Inv
    <3>2. /\ t.wi = s.wi /\ t.cl.sock = s.cl.sock /\ ~t.cl.due
          /\ t.cl.countToDeath = s.cl.countToDeath - 1
      BY <2>6, <2>12, Zenon
    <3>3. /\ t.ca[m].at # "idle" /\ t.ca[m].ping
          /\ \A c \in Calls : c # m => t.ca[c] = s.ca[c]
      BY <2>8, <2>12
    <3> QED BY <3>1, <3>2, <3>3, RequestMade
  <2>17. Good(t, served)
    BY <2>12, <2>15, <2>16 DEF Good, Inv
  <2>18. Goes(s, t)
    BY <2>4, <2>6, <2>12 DEF Goes, Calls
  <2>19. Moves(s, t, served, NoCall) /\ Blamed(s, t)
    BY <1>1, <2>6, <2>12, <2>18, GoesMoves DEF Blamed
  <2>20. UNCHANGED served /\ "keepalive" \notin closers' \ closers
    BY <2>1
  <2> QED BY <2>5, <2>13, <2>17, <2>19, <2>20, StepOf
<1> QED BY <1>3, <1>4

\* An interval goes by.
LEMMA TickStep ==
  ASSUME IInv, Tick
  PROVE  Step
<1> DEFINE s == State
           t == [s EXCEPT !.cl = [s.cl EXCEPT !.due = TRUE]]
<1>1. /\ s \in States /\ s.cl = client /\ s.ca = call /\ s.wi = wire /\ Clean(s)
      /\ \E o \in Calls \cup {NoCall} : Inv(s, served, o)
  BY StateFields
<1>2. PICK o \in Calls \cup {NoCall} : Inv(s, served, o)
  BY <1>1
<1>3. /\ client' = [client EXCEPT !.due = TRUE] /\ call' = call /\ wire' = wire
      /\ UNCHANGED served /\ "keepalive" \notin closers' \ closers
      /\ ~client.due
  BY DEF Tick
<1>4. s.cl.countToDeath = 0 \/ Cardinality(Unused(s)) > Occurs("ping", s.wi.in)
  <2>1. CASE client.countToDeath = 0
    BY <1>1, <2>1
  <2>2. CASE client.countToDeath # 0
    <3>1. Spare
      BY <2>2 DEF Tick
    <3>2. Cardinality(Unused(s)) > InWire("ping") + 0
      BY <1>3, <3>1 DEF Spare
    <3>3. InWire("ping") = Occurs("ping", s.wi.in)
      BY <1>1 DEF InWire, Occurs
    <3>4. Occurs("ping", s.wi.in) \in Nat
      BY <1>1, Counts
    <3> HIDE DEF s
    <3> QED BY <3>2, <3>3, <3>4
  <2> QED BY <2>1, <2>2
<1>5. State = s
  OBVIOUS
<1> HIDE DEF s
<1>6. /\ t \in States /\ t.ca = s.ca /\ t.wi = s.wi /\ t.cl = client'
      /\ t.cl.countToDeath = s.cl.countToDeath
      /\ t.cl.waitDispatch = s.cl.waitDispatch /\ t.cl.closeReason = s.cl.closeReason
      /\ t.cl.sock = s.cl.sock /\ t.cl.wantClose = s.cl.wantClose
      /\ t.cl.haveTheBuck = s.cl.haveTheBuck
  BY <1>1, <1>3, Zenon DEF States, ClientFields
<1> HIDE DEF t
<1>7. Becomes(t)
  BY <1>1, <1>3, <1>6, Zenon DEF Becomes
<1>8. Placed(t, o) /\ Held(t, o) /\ Framed(t) /\ Clean(t)
  BY <1>1, <1>2, <1>6 DEF Inv, Placed, Held, Framed, Clean
<1>9. Rest(t, served)
  <2>1. Unused(t) = Unused(s) /\ Made(t) = Made(s)
    BY <1>6 DEF Unused, Made
  <2>2. Cardinality(Unused(s)) \in Nat /\ Occurs("ping", s.wi.in) \in Nat /\ s.cl.countToDeath \in Nat
    BY <1>1, Counts, Fields, Zenon
  <2>3. Cardinality(Unused(s)) >= Occurs("ping", s.wi.in)
    <3>1. Cardinality(Unused(s)) >= Occurs("ping", s.wi.in) + 0
      BY <1>1, <1>2, <1>3 DEF Inv, Rest, Spared
    <3> QED BY <2>2, <3>1
  <2>4. Cardinality(Unused(s)) >= Occurs("ping", s.wi.in) + (IF s.cl.countToDeath > 0 THEN 1 ELSE 0)
    <3> DEFINE a == Cardinality(Unused(s))
               b == Occurs("ping", s.wi.in)
               n == s.cl.countToDeath
    <3> SUFFICES a >= b + (IF n > 0 THEN 1 ELSE 0)
      OBVIOUS
    <3>1. a \in Nat /\ b \in Nat /\ n \in Nat /\ a >= b /\ (n = 0 \/ a > b)
      BY <1>4, <2>2, <2>3
    <3> HIDE DEF a, b, n
    <3> QED BY <3>1
  <2>5. Spared(t)
    <3>1. t.cl.due
      BY <1>1, <1>3, <1>6, Fields DEF ClientFields
    <3> QED BY <1>6, <2>1, <2>4, <3>1 DEF Spared
  <2>6. Counted(t, served) /\ Answered(t, served)
    BY <1>2, <1>6, <2>1 DEF Inv, Rest, Counted, Answered
  <2> QED BY <2>5, <2>6 DEF Rest
<1>10. Good(t, served)
  BY <1>6, <1>8, <1>9 DEF Good, Inv
<1>11. Moves(s, t, served, NoCall) /\ Blamed(s, t)
  BY <1>6 DEF Moves, Open, Blamed
<1> QED BY <1>3, <1>5, <1>7, <1>10, <1>11, StepOf

(***************************************************************************)
(* The server and the network.                                             *)
(***************************************************************************)

\* The state with another wire.
With(s, w) == [s EXCEPT !.wi = w]

\* Its fields.
LEMMA WithFields ==
  ASSUME NEW s \in States, NEW w \in WireFields
  PROVE  With(s, w) \in States /\ With(s, w).cl = s.cl /\ With(s, w).ca = s.ca /\ With(s, w).wi = w
BY DEF With, States

\* A step of the server or of the network leaves the client alone.
LEMMA WireStep ==
  ASSUME IInv, NEW w \in WireFields, wire' = w, UNCHANGED <<client, call, closers>>,
         w.half = wire.half, w.garbled = wire.garbled,
         served' \subseteq Calls, Rest(With(State, w), served'),
         \/ served' \cap ReplyCalls = served \cap ReplyCalls
         \/ \E c \in ReplyCalls : ServedOne(c)
  PROVE  Step
<1> DEFINE s == State
           t == With(s, w)
<1>1. /\ s \in States /\ s.cl = client /\ s.ca = call /\ s.wi = wire /\ Clean(s)
      /\ \E o \in Calls \cup {NoCall} : Inv(s, served, o)
  BY StateFields
<1>2. PICK o \in Calls \cup {NoCall} : Inv(s, served, o)
  BY <1>1
<1>3. State = s /\ Rest(t, served')
  OBVIOUS
<1> HIDE DEF s
<1>4. t \in States /\ t.cl = s.cl /\ t.ca = s.ca /\ t.wi = w
  BY <1>1, WithFields
<1> HIDE DEF t
<1>5. Becomes(t)
  BY <1>1, <1>4, Zenon DEF Becomes
<1>6. State' = t
  BY <1>4, <1>5, BecomesState, SMTT(30)
<1>7. Placed(t, o) /\ Held(t, o) /\ Framed(t) /\ Clean(t)
  BY <1>1, <1>2, <1>4 DEF Inv, Placed, Held, Framed, Clean
<1>8. Good(t, served')
  BY <1>3, <1>4, <1>7 DEF Good, Inv
<1>9. IInv'
  BY <1>6, <1>8 DEF IInv
<1>10. Moves(State, State', served, NoCall)
  BY <1>3, <1>4, <1>6 DEF Moves, Open
<1>11. ~Blames
  BY DEF Blames
<1> QED BY <1>9, <1>10, <1>11 DEF Step

\* What arrives at a client that has its socket.
LEMMA ArrivesFields ==
  ASSUME IInv, NEW m \in Arriving, Arrives(m)
  PROVE  /\ wire' \in WireFields /\ wire'.half = wire.half /\ wire'.garbled = wire.garbled
         /\ wire'.sent = wire.sent
         /\ wire'.in = IF client.sock THEN Append(wire.in, m) ELSE wire.in
<1>1. wire \in WireFields /\ wire.in \in Seq(Arriving)
  BY StateFields, Fields
<1> DEFINE in == IF client.sock THEN Append(wire.in, m) ELSE wire.in
<1>2. in \in Seq(Arriving)
  BY <1>1, OccursAppend
<1>3. wire' = [wire EXCEPT !.in = in]
  BY DEF Arrives
<1> HIDE DEF in
<1>4. /\ wire' \in WireFields /\ wire'.half = wire.half /\ wire'.garbled = wire.garbled
      /\ wire'.sent = wire.sent /\ wire'.in = in
  BY <1>1, <1>2, <1>3 DEF WireFields, Arriving
<1> QED BY <1>4 DEF in

\* A message has arrived: Occurs and Range.
LEMMA ArrivesCounts ==
  ASSUME IInv, NEW m \in Arriving, Arrives(m), NEW msg
  PROVE  /\ Occurs(msg, wire.in) \in Nat
         /\ Occurs(msg, wire'.in) =
              Occurs(msg, wire.in) + (IF m = msg /\ client.sock THEN 1 ELSE 0)
         /\ \A x : x \in Range(wire'.in) => x \in Range(wire.in) \/ x = m
<1>1. wire.in \in Seq(Arriving) /\ client.sock \in BOOLEAN
  BY StateFields, Fields
<1>2. Occurs(msg, wire.in) \in Nat
  BY <1>1, OccursType, Zenon
<1>3. wire'.in = IF client.sock THEN Append(wire.in, m) ELSE wire.in
  BY ArrivesFields
<1>4. CASE client.sock
  BY <1>1, <1>2, <1>3, <1>4, OccursAppend
<1>5. CASE ~client.sock
  BY <1>1, <1>2, <1>3, <1>5
<1> QED BY <1>1, <1>4, <1>5

\* Rest, for the current state.
LEMMA RestFacts ==
  ASSUME IInv, NEW w \in WireFields
  PROVE  LET t == With(State, w)
         IN /\ Rest(State, served) /\ Unused(t) = Unused(State) /\ Made(t) = Made(State)
            /\ t.cl = client /\ t.ca = call /\ t.wi = w
            /\ Cardinality(Unused(State)) \in Nat /\ client.countToDeath \in Nat
            /\ IsFiniteSet(Made(State) \ served)
<1> DEFINE t == With(State, w)
<1>1. State \in States /\ State.cl = client /\ State.ca = call /\ Rest(State, served)
  BY StateFields DEF Inv
<1>2. t.cl = client /\ t.ca = call /\ t.wi = w
  BY <1>1, WithFields
<1> HIDE DEF t
<1>3. Unused(t) = Unused(State) /\ Made(t) = Made(State)
  BY <1>1, <1>2 DEF Unused, Made
<1>4. /\ Cardinality(Unused(State)) \in Nat /\ client.countToDeath \in Nat
      /\ IsFiniteSet(Made(State) \ served)
  BY <1>1, Counts, Fields, Zenon
<1> QED BY <1>1, <1>2, <1>3, <1>4 DEF t

\* The server answers a call.
LEMMA ServeStep ==
  ASSUME IInv, NEW c \in Calls, Serve(c)
  PROVE  Step
<1> DEFINE t == With(State, wire')
<1>1. /\ c \in ReplyCalls /\ c \in wire.sent /\ c \notin served /\ served' = served \cup {c}
      /\ Arrives(c) /\ UNCHANGED <<client, call, closers>>
  BY DEF Serve
<1>2. c \in Arriving /\ c # "ping" /\ c # "pong" /\ c \notin Messages
  BY <1>1 DEF Arriving
<1>3. /\ wire' \in WireFields /\ wire'.half = wire.half /\ wire'.garbled = wire.garbled
      /\ wire'.sent = wire.sent
  BY <1>1, <1>2, ArrivesFields
<1>4. /\ Occurs("ping", wire'.in) = Occurs("ping", wire.in)
      /\ Occurs("pong", wire'.in) = Occurs("pong", wire.in)
      /\ \A x : x \in Range(wire'.in) => x \in Range(wire.in) \/ x = c
  <2>1. /\ Occurs("ping", wire.in) \in Nat
        /\ Occurs("ping", wire'.in) = Occurs("ping", wire.in) + (IF c = "ping" /\ client.sock THEN 1 ELSE 0)
        /\ \A x : x \in Range(wire'.in) => x \in Range(wire.in) \/ x = c
    BY <1>1, <1>2, ArrivesCounts
  <2>2. /\ Occurs("pong", wire.in) \in Nat
        /\ Occurs("pong", wire'.in) = Occurs("pong", wire.in) + (IF c = "pong" /\ client.sock THEN 1 ELSE 0)
    BY <1>1, <1>2, ArrivesCounts
  <2> QED BY <1>2, <2>1, <2>2
<1>5. /\ Rest(State, served) /\ Unused(t) = Unused(State) /\ Made(t) = Made(State)
      /\ t.cl = client /\ t.ca = call /\ t.wi = wire'
  BY <1>3, RestFacts
<1>6. State.cl = client /\ State.ca = call /\ State.wi = wire /\ served \subseteq Calls
  BY StateFields
<1> HIDE DEF t
<1>7. Rest(t, served')
  <2>1. Spared(t)
    BY <1>4, <1>5, <1>6, SMTT(30) DEF Rest, Spared
  <2>2. Counted(t, served')
    <3>1. served' \cap Messages = served \cap Messages /\ Made(State) \ served' = Made(State) \ served
      BY <1>1, <1>2 DEF Made
    <3> QED BY <1>4, <1>5, <1>6, <3>1, Zenon DEF Rest, Counted
  <2>3. Answered(t, served')
    BY <1>1, <1>3, <1>4, <1>5, <1>6, SMTT(30) DEF Rest, Answered
  <2> QED BY <2>1, <2>2, <2>3 DEF Rest
<1>8. ServedOne(c)
  BY <1>1, <1>5, <1>6 DEF ServedOne, Rest, Answered
<1>9. served' \subseteq Calls
  BY <1>1, <1>6
<1> QED BY <1>1, <1>3, <1>7, <1>8, <1>9, WireStep DEF t

\* The server answers a request of the keep-alive: one request less is not answered,
\* and one answer more has not been read.
LEMMA ServerPongStep ==
  ASSUME IInv, NEW c \in Calls, ServerPong(c)
  PROVE  Step
<1> DEFINE t == With(State, wire')
<1>1. /\ c \in wire.sent /\ c \notin served /\ served' = served \cup {c} /\ call[c].ping
      /\ client.sock /\ Arrives("pong") /\ UNCHANGED <<client, call, closers>>
  BY DEF ServerPong
<1>2. "pong" \in Arriving /\ "pong" \notin ReplyCalls
  BY DEF Arriving, Calls
<1>3. /\ wire' \in WireFields /\ wire'.half = wire.half /\ wire'.garbled = wire.garbled
      /\ wire'.sent = wire.sent
  BY <1>1, <1>2, ArrivesFields
<1>4. /\ Occurs("ping", wire'.in) = Occurs("ping", wire.in)
      /\ Occurs("pong", wire'.in) = Occurs("pong", wire.in) + 1
      /\ Occurs("pong", wire.in) \in Nat
      /\ \A x : x \in Range(wire'.in) => x \in Range(wire.in) \/ x = "pong"
  <2>1. /\ Occurs("ping", wire.in) \in Nat
        /\ Occurs("ping", wire'.in) = Occurs("ping", wire.in) + (IF "pong" = "ping" /\ client.sock THEN 1 ELSE 0)
        /\ \A x : x \in Range(wire'.in) => x \in Range(wire.in) \/ x = "pong"
    BY <1>1, <1>2, ArrivesCounts
  <2>2. /\ Occurs("pong", wire.in) \in Nat
        /\ Occurs("pong", wire'.in) = Occurs("pong", wire.in) + (IF "pong" = "pong" /\ client.sock THEN 1 ELSE 0)
    BY <1>1, <1>2, ArrivesCounts
  <2>3. Occurs("ping", wire'.in) = Occurs("ping", wire.in)
    BY <2>1
  <2>4. Occurs("pong", wire'.in) = Occurs("pong", wire.in) + 1
    BY <1>1, <2>2
  <2> QED BY <2>1, <2>2, <2>3, <2>4
<1>5. /\ Rest(State, served) /\ Unused(t) = Unused(State) /\ Made(t) = Made(State)
      /\ t.cl = client /\ t.ca = call /\ t.wi = wire'
      /\ IsFiniteSet(Made(State) \ served) /\ client.countToDeath \in Nat
  BY <1>3, RestFacts, Zenon
<1>6. State.cl = client /\ State.ca = call /\ State.wi = wire /\ served \subseteq Calls
  BY StateFields
<1> HIDE DEF t
<1>7. Rest(t, served')
  <2>1. Spared(t)
    BY <1>4, <1>5, <1>6 DEF Rest, Spared
  <2>2. Counted(t, served')
    <3> DEFINE A == Made(State) \ served
               B == Made(State) \ served'
    <3>1. served' \cap Messages \subseteq Made(State)
      BY <1>1, <1>5, <1>6 DEF Rest, Counted, Made
    <3>2. B = A \ {c}
      BY <1>1
    <3>3. IsFiniteSet(A) /\ IsFiniteSet(B)
      BY <1>5, <3>2, FS_RemoveElement
    <3>4. Cardinality(A) \in Nat /\ Cardinality(B) \in Nat /\ Cardinality(B) + 1 >= Cardinality(A)
      <4> HIDE DEF A, B
      <4>1. Cardinality(A) \in Nat /\ Cardinality(B) \in Nat
        BY <3>3, FS_CardinalityType
      <4>2. CASE c \in A
        <5>1. Cardinality(B) = Cardinality(A) - 1
          BY <3>2, <3>3, <4>2, FS_RemoveElement
        <5> QED BY <4>1, <5>1
      <4>3. CASE c \notin A
        <5>1. B = A
          BY <3>2, <4>3
        <5> QED BY <4>1, <5>1
      <4> QED BY <4>2, <4>3
    <3>5. client.countToDeath + Cardinality(A) + Occurs("pong", wire.in) >= KeepAliveCount
      BY <1>1, <1>5, <1>6 DEF Rest, Counted
    <3>6. client.countToDeath + Cardinality(B) + Occurs("pong", wire'.in) >= KeepAliveCount
      <4> DEFINE a == Cardinality(A)
                 b == Cardinality(B)
                 n == client.countToDeath
                 p == Occurs("pong", wire.in)
                 q == Occurs("pong", wire'.in)
      <4>1. /\ a \in Nat /\ b \in Nat /\ n \in Nat /\ p \in Nat /\ q = p + 1 /\ b + 1 >= a
            /\ n + a + p >= KeepAliveCount
        BY <1>4, <1>5, <3>4, <3>5
      <4> HIDE DEF A, B, a, b, n, p, q
      <4>2. n + b + q >= KeepAliveCount
        BY <4>1
      <4> QED BY <4>2 DEF n, b, q
    <3>7. \A x \in Messages : t.ca[x].at = "idle" => ~t.ca[x].ping
      BY <1>5, <1>6, SMTT(30) DEF Rest, Counted
    <3> QED BY <1>5, <3>1, <3>6, <3>7 DEF Counted
  <2>3. Answered(t, served')
    BY <1>1, <1>2, <1>3, <1>4, <1>5, <1>6 DEF Rest, Answered
  <2> QED BY <2>1, <2>2, <2>3 DEF Rest
<1>8. c \in ReplyCalls => ServedOne(c)
  BY <1>1, <1>5, <1>6 DEF ServedOne, Rest, Answered
<1>9. served' \subseteq Calls /\ (c \notin ReplyCalls => served' \cap ReplyCalls = served \cap ReplyCalls)
  BY <1>1, <1>6
<1> QED BY <1>1, <1>3, <1>7, <1>8, <1>9, WireStep DEF t

\* A request of the server arrives; there is a message to answer it.
LEMMA ServerPingStep ==
  ASSUME IInv, ServerPing
  PROVE  Step
<1> DEFINE t == With(State, wire')
<1>1. /\ client.sock /\ Spare /\ Arrives("ping")
      /\ UNCHANGED <<client, call, closers>> /\ UNCHANGED served
  BY DEF ServerPing
<1>2. "ping" \in Arriving /\ "ping" \notin ReplyCalls
  BY DEF Arriving, Calls
<1>3. /\ wire' \in WireFields /\ wire'.half = wire.half /\ wire'.garbled = wire.garbled
      /\ wire'.sent = wire.sent
  BY <1>1, <1>2, ArrivesFields
<1>4. /\ Occurs("ping", wire.in) \in Nat
      /\ Occurs("ping", wire'.in) = Occurs("ping", wire.in) + 1
      /\ \A x : x \in Range(wire'.in) => x \in Range(wire.in) \/ x = "ping"
  <2>1. /\ Occurs("ping", wire.in) \in Nat
        /\ Occurs("ping", wire'.in) = Occurs("ping", wire.in) + (IF "ping" = "ping" /\ client.sock THEN 1 ELSE 0)
        /\ \A x : x \in Range(wire'.in) => x \in Range(wire.in) \/ x = "ping"
    BY <1>1, <1>2, ArrivesCounts
  <2>2. Occurs("ping", wire'.in) = Occurs("ping", wire.in) + 1
    BY <1>1, <2>1
  <2> QED BY <2>1, <2>2
<1>5. Occurs("pong", wire'.in) = Occurs("pong", wire.in)
  <2>1. /\ Occurs("pong", wire.in) \in Nat
        /\ Occurs("pong", wire'.in) = Occurs("pong", wire.in) + (IF "ping" = "pong" /\ client.sock THEN 1 ELSE 0)
    BY <1>1, <1>2, ArrivesCounts
  <2> QED BY <2>1
<1>6. /\ Rest(State, served) /\ Unused(t) = Unused(State) /\ Made(t) = Made(State)
      /\ t.cl = client /\ t.ca = call /\ t.wi = wire'
      /\ Cardinality(Unused(State)) \in Nat
  BY <1>3, RestFacts
<1>7. State.cl = client /\ State.ca = call /\ State.wi = wire /\ served \subseteq Calls
  BY StateFields
<1> HIDE DEF t
<1>8. Rest(t, served')
  <2>1. Spared(t)
    <3> DEFINE a == Cardinality(Unused(State))
               b == Occurs("ping", wire.in)
               d == IF client.due THEN 1 ELSE 0
               e == IF client.due /\ client.countToDeath > 0 THEN 1 ELSE 0
    <3>1. a \in Nat /\ b \in Nat /\ d \in {0, 1} /\ e \in {0, 1} /\ e <= d
      BY <1>4, <1>6
    <3>2. a > b + d
      BY <1>1 DEF Spare, InWire, Occurs
    <3>3. Spared(t) <=> a >= Occurs("ping", wire'.in) + e
      BY <1>6 DEF Spared
    <3>4. Occurs("ping", wire'.in) = b + 1
      BY <1>4
    <3> HIDE DEF a, b, d, e
    <3>5. a >= b + 1 + e
      BY <3>1, <3>2
    <3> QED BY <3>3, <3>4, <3>5
  <2>2. Counted(t, served')
    BY <1>1, <1>5, <1>6, <1>7 DEF Rest, Counted
  <2>3. Answered(t, served')
    BY <1>1, <1>2, <1>3, <1>4, <1>6, <1>7 DEF Rest, Answered
  <2> QED BY <2>1, <2>2, <2>3 DEF Rest
<1> QED BY <1>1, <1>3, <1>7, <1>8, WireStep DEF t

\* The server hangs up, or reads: neither changes what is on its way.
LEMMA NetworkStep ==
  ASSUME IInv, Hangup \/ Drain
  PROVE  Step
<1> DEFINE t == With(State, wire')
<1>1. wire \in WireFields
  BY StateFields, Fields
<1>2. UNCHANGED <<client, call, closers>> /\ UNCHANGED served
  BY DEF Hangup, Drain
<1>3. wire' = [wire EXCEPT !.hup = TRUE] \/ wire' = [wire EXCEPT !.full = FALSE]
  BY DEF Hangup, Drain
<1>4. /\ wire' \in WireFields /\ wire'.half = wire.half /\ wire'.garbled = wire.garbled
      /\ wire'.sent = wire.sent /\ wire'.in = wire.in
  BY <1>1, <1>3, Zenon DEF WireFields
<1>5. /\ Rest(State, served) /\ Unused(t) = Unused(State) /\ Made(t) = Made(State)
      /\ t.cl = client /\ t.ca = call /\ t.wi = wire'
  BY <1>4, RestFacts
<1>6. State.cl = client /\ State.ca = call /\ State.wi = wire /\ served \subseteq Calls
  BY StateFields
<1> HIDE DEF t
<1>7. Rest(t, served')
  <2>1. Spared(t)
    BY <1>4, <1>5, <1>6, SMTT(30) DEF Rest, Spared
  <2>2. Counted(t, served')
    BY <1>2, <1>4, <1>5, <1>6, SMTT(30) DEF Rest, Counted
  <2>3. Answered(t, served')
    BY <1>2, <1>4, <1>5, <1>6, SMTT(30) DEF Rest, Answered
  <2> QED BY <2>1, <2>2, <2>3 DEF Rest
<1> QED BY <1>2, <1>4, <1>6, <1>7, WireStep DEF t

(***************************************************************************)
(* The invariant.                                                          *)
(***************************************************************************)

\* The client has been made: nothing is queued, and nobody has the buck.
LEMMA InitInv == Init => IInv
<1> SUFFICES ASSUME Init PROVE IInv
  OBVIOUS
<1> DEFINE s == State
<1>1. /\ s.cl = client /\ s.ca = call /\ s.wi = wire
      /\ s = [cl |-> client, ca |-> call, wi |-> wire]
  BY DEF State
<1>2. client \in ClientFields
  <2>1. /\ <<>> \in Seq(Calls) /\ "none" \in CloseReasons /\ {"in"} \in SUBSET {"in", "out", "removed"}
        /\ {} \in SUBSET Calls /\ KeepAliveCount \in Nat
    BY DEF CloseReasons
  <2> QED BY <2>1 DEF Init, ClientFields
<1>3. \A c \in Calls : /\ call[c] \in CallFields /\ call[c].at = "idle" /\ call[c].mode = "tx"
                       /\ ~call[c].ping /\ ~call[c].haveThread
  <2> SUFFICES ASSUME NEW c \in Calls
               PROVE  /\ call[c] \in CallFields /\ call[c].at = "idle" /\ call[c].mode = "tx"
                      /\ ~call[c].ping /\ ~call[c].haveThread
    OBVIOUS
  <2>1. call[c] = [at |-> "idle", ping |-> FALSE, mode |-> "tx", haveThread |-> FALSE,
                   ev |-> {}, rev |-> {}]
    BY DEF Init
  <2> QED BY <2>1 DEF CallFields, Places
<1>4. call \in [Calls -> CallFields]
  BY <1>3 DEF Init
<1>5. wire \in WireFields
  BY DEF Init, WireFields
<1>6. /\ client.sock /\ ~client.wantClose /\ ~client.haveTheBuck /\ client.waitDispatch = <<>>
      /\ client.countToDeath = KeepAliveCount /\ ~client.due
      /\ wire.in = <<>> /\ wire.sent = {} /\ wire.half = NoCall /\ ~wire.garbled /\ served = {}
  BY DEF Init
<1>7. s \in States
  BY <1>1, <1>2, <1>4, <1>5 DEF States
<1>8. \A x : x \notin Range(<<>>)
  BY DEF Range
<1>9. NoCall \notin Calls
  OBVIOUS
<1> HIDE DEF s
<1>10. Placed(s, NoCall)
  BY <1>1, <1>3, <1>6, <1>8, <1>9 DEF Placed, Unique, Buck, InLoop, Waiting
<1>11. Held(s, NoCall)
  BY <1>1, <1>3, <1>6, <1>9 DEF Held
<1>12. Framed(s) /\ Clean(s)
  BY <1>1, <1>6, <1>8 DEF Framed, Clean
<1>13. Spared(s)
  <2>1. Cardinality(Unused(s)) \in Nat /\ Occurs("ping", <<>>) = 0
    BY <1>7, Counts, Zenon
  <2> QED BY <1>1, <1>6, <2>1 DEF Spared
<1>14. Counted(s, served)
  <2>1. /\ Cardinality(Made(s) \ served) \in Nat /\ Occurs("pong", <<>>) = 0
    BY <1>7, Counts, Zenon
  <2>2. KeepAliveCount + Cardinality(Made(s) \ served) + Occurs("pong", <<>>) >= KeepAliveCount
    <3> DEFINE n == Cardinality(Made(s) \ served)
    <3> HIDE DEF n
    <3>1. n \in Nat => KeepAliveCount + n + 0 >= KeepAliveCount
      OBVIOUS
    <3> QED BY <2>1, <3>1 DEF n
  <2>3. \A c \in Messages : ~s.ca[c].ping
    BY <1>1, <1>3 DEF Calls
  <2> QED BY <1>1, <1>6, <2>2, <2>3 DEF Counted
<1>15. Answered(s, served)
  BY <1>1, <1>3, <1>6, <1>8 DEF Answered, Calls
<1> QED BY <1>6, <1>7, <1>9, <1>10, <1>11, <1>12, <1>13, <1>14, <1>15
    DEF IInv, Good, Inv, Rest, s

\* Every action keeps the invariant.  See Step.
LEMMA NextStep ==
  ASSUME IInv, Next
  PROVE  Step
<1>1. CASE \E c \in Calls : SendInternal(c) \/ ThreadStep(c)
  BY <1>1, SendInternalStep, WakeupStep, MainLoopStep, EventLoopStep DEF ThreadStep
<1>2. CASE \E reason \in Reasons : CloseCheck(reason)
  <2>1. "keepalive" \notin Reasons
    OBVIOUS
  <2> QED BY <1>2, <2>1, CloseCheckStep
<1>3. CASE \E reason \in Reasons \cup {"keepalive"} : CloseLock(reason)
  BY <1>3, CloseLockStep
<1>4. CASE IncomingEvent \/ KeepAliveTimer \/ Tick
  BY <1>4, IncomingEventStep, KeepAliveTimerStep, TickStep
<1>5. CASE ServerNext
  BY <1>5, ServeStep, ServerPongStep, ServerPingStep, NetworkStep DEF ServerNext
<1> QED BY <1>1, <1>2, <1>3, <1>4, <1>5 DEF Next

\* The invariant holds in every state: one thread at most has the buck, the list holds
\* the calls of the threads that wait and those without a thread, a message partly on
\* the wire is the next to be written, and countToDeath has gone down once for every
\* request that is not answered.
THEOREM Invariant == Spec => []IInv
<1>1. Init => IInv
  BY InitInv
<1>2. IInv /\ [Next]_vars => IInv'
  <2> SUFFICES ASSUME IInv, [Next]_vars PROVE IInv'
    OBVIOUS
  <2>1. CASE Next
    BY <2>1, NextStep DEF Step
  <2>2. CASE UNCHANGED vars
    <3>1. State' = State /\ served' = served
      BY <2>2 DEF vars, State
    <3> QED BY <3>1 DEF IInv
  <2> QED BY <2>1, <2>2
<1> QED BY <1>1, <1>2, PTL DEF Spec

\* The buck of virNetClientIO is neither lost nor copied: while haveTheBuck is set
\* exactly one thread polls or has been woken to do so, and nobody sleeps without it.
THEOREM BuckIsHeld == Spec => []BuckHeld
<1>1. IInv => BuckHeld
  <2> SUFFICES ASSUME IInv PROVE BuckHeld
    OBVIOUS
  <2>1. PICK o \in Calls \cup {NoCall} : Inv(State, served, o)
    BY StateFields
  <2>2. /\ State.cl = client /\ State.ca = call /\ client.haveTheBuck \in BOOLEAN /\ NoCall \notin Calls
    BY StateFields, Fields
  <2>3. \A c \in Calls : c \in Owners <=> c = o
    BY <2>1, <2>2 DEF Owners, Inv, Placed, Buck
  <2>4. /\ client.haveTheBuck <=> o \in Calls
        /\ \A c \in Calls : call[c].at = "asleep" => o \in Calls
    BY <2>1, <2>2 DEF Inv, Held
  <2>5. CASE o \in Calls
    <3>1. Owners = {o}
      BY <2>3, <2>5 DEF Owners
    <3>2. Cardinality(Owners) = 1
      BY <3>1, FS_Singleton
    <3> QED BY <2>4, <2>5, <3>2 DEF BuckHeld
  <2>6. CASE o \notin Calls
    <3>1. Owners = {}
      BY <2>3, <2>6 DEF Owners
    <3>2. Cardinality(Owners) = 0
      BY <3>1, FS_EmptySet, SMTT(30)
    <3> QED BY <2>4, <2>6, <3>2 DEF BuckHeld
  <2> QED BY <2>5, <2>6
<1> QED BY <1>1, Invariant, PTL

\* virNetClientCloseLocked and the predicates of the list take neither the socket nor
\* the call from a thread that still waits.
THEOREM WaitersAreKept == Spec => []WaitersKept
<1>1. IInv => WaitersKept
  <2> SUFFICES ASSUME IInv PROVE WaitersKept
    OBVIOUS
  <2>1. PICK o \in Calls \cup {NoCall} : Inv(State, served, o)
    BY StateFields
  <2>2. /\ State.cl = client /\ State.ca = call
    BY StateFields
  <2> SUFFICES ASSUME NEW c \in Calls
               PROVE  /\ c \in Owners \/ call[c].at = "asleep" =>
                           client.sock /\ c \in Range(client.waitDispatch)
                      /\ call[c].at = "freed" => ~call[c].haveThread
    BY DEF WaitersKept
  <2>3. c \in Owners => c = o
    BY <2>1, <2>2 DEF Owners, Inv, Placed, Buck
  <2> QED BY <2>1, <2>2, <2>3 DEF Inv, Placed, Held, Waiting, InLoop
<1> QED BY <1>1, Invariant, PTL

\* virNetClientIOHandleOutput never mixes up two messages on a connection that stays.
THEOREM FramesAreWhole == Spec => []Framing
<1>1. IInv => Framing
  BY StateFields, Zenon DEF Framing, Inv, Framed
<1> QED BY <1>1, Invariant, PTL

\* The keep-alive gives the server up, in the event loop or in the thread that has the
\* buck, only when ka->count requests were made whose answers have not been read.
THEOREM DeathIsCounted == Spec => DeadAfterCount
<1> DEFINE made == {c \in Messages : call[c].ping}
           Enough == Cardinality(made \ served) + InWire("pong") >= KeepAliveCount
<1>1. IInv /\ [Next]_vars => [Blames => Enough]_vars
  <2> SUFFICES ASSUME IInv, Next, Blames PROVE Enough
    OBVIOUS
  <2>1. client.sock /\ client.countToDeath = 0
    BY NextStep DEF Step
  <2>2. State \in States /\ State.cl = client /\ State.ca = call /\ State.wi = wire
    BY StateFields
  <2>3. Made(State) = made /\ InWire("pong") = Occurs("pong", wire.in)
    BY <2>2 DEF Made, InWire, Occurs
  <2>4. 0 + Cardinality(Made(State) \ served) + Occurs("pong", wire.in) >= KeepAliveCount
    BY <2>1, <2>2, StateFields DEF Inv, Rest, Counted
  <2>5. Cardinality(Made(State) \ served) \in Nat /\ Occurs("pong", wire.in) \in Nat
    BY <2>2, Counts, Zenon
  <2>6. Cardinality(Made(State) \ served) + Occurs("pong", wire.in) >= KeepAliveCount
    BY <2>4, <2>5
  <2> QED BY <2>3, <2>6
<1> QED BY <1>1, Invariant, PTL DEF Spec, DeadAfterCount, Blames

(***************************************************************************)
(* NetClient implements RpcCalls.                                          *)
(***************************************************************************)

\* The status of a call with a reply.
LEMMA StatusOf ==
  ASSUME NEW c
  PROVE  /\ call[c].at = "idle" => Status(c) = "new"
         /\ call[c].at = "ok" => Status(c) = "ok"
         /\ call[c].at = "failed" => Status(c) = "failed"
         /\ call[c].at \notin {"idle", "ok", "failed"} => Status(c) = "waiting"
         /\ call'[c].at = "idle" => Status(c)' = "new"
         /\ call'[c].at = "ok" => Status(c)' = "ok"
         /\ call'[c].at = "failed" => Status(c)' = "failed"
         /\ call'[c].at \notin {"idle", "ok", "failed"} => Status(c)' = "waiting"
BY DEF Status

\* Every step of the client is one of independent calls on a connection, or changes
\* nothing that they see.
LEMMA RpcStep ==
  ASSUME IInv, Step
  PROVE  [Rpc!Next]_(Rpc!vars)
<1> DEFINE status == [c \in ReplyCalls |-> Status(c)]
           status1 == [c \in ReplyCalls |-> Status(c)']
           open == client.sock /\ ~client.wantClose
           open1 == client'.sock /\ ~client'.wantClose
           sv == served \cap ReplyCalls
           sv1 == served' \cap ReplyCalls
<1>1. CASE \E c \in ReplyCalls : ServedOne(c)
  <2>1. PICK c \in ReplyCalls : ServedOne(c)
    BY <1>1
  <2>2. status1 = status /\ open1 = open
    BY <2>1 DEF ServedOne, Status
  <2>3. sv1 = sv \cup {c} /\ c \notin sv
    BY <2>1 DEF ServedOne
  <2>4. status[c] \in {"waiting", "failed"}
    BY <2>1, StatusOf DEF ServedOne
  <2>5. Rpc!Serve(c)
    BY <2>2, <2>3, <2>4 DEF Rpc!Serve
  <2> QED BY <2>5 DEF Rpc!Next
<1>2. CASE /\ sv1 = sv
           /\ \E c \in Calls \cup {NoCall} : Moves(State, State', served, c)
  <2>1. PICK c \in Calls \cup {NoCall} : Moves(State, State', served, c)
    BY <1>2
  <2>2. /\ State.cl = client /\ State.ca = call /\ State'.cl = client' /\ State'.ca = call'
    BY DEF State
  <2>3. (open <=> Open(State)) /\ (open1 <=> Open(State')) /\ open \in BOOLEAN /\ open1 \in BOOLEAN
    BY <2>2 DEF Open
  <2>4. \A x \in ReplyCalls :
          \/ call'[x].at = call[x].at
          \/ call'[x].at \in Waiting /\ call[x].at \in Waiting
          \/ /\ x = c
             /\ \/ call[x].at = "idle" /\ call'[x].at \in Waiting /\ open /\ open1
                \/ call[x].at = "idle" /\ call'[x].at = "failed" /\ ~open /\ ~open1
                \/ call[x].at \in Waiting /\ call'[x].at = "ok" /\ x \in served
                \/ call[x].at \in Waiting /\ call'[x].at = "failed" /\ ~open1
    BY <2>1, <2>2, <2>3, SMTT(30) DEF Moves
  <2>5. open1 => open
    BY <2>1, <2>3 DEF Moves
  <2>6. \A x \in ReplyCalls :
          /\ call[x].at \in Waiting => Status(x) = "waiting"
          /\ call'[x].at \in Waiting => Status(x)' = "waiting"
          /\ call'[x].at = call[x].at => Status(x)' = Status(x)
    BY StatusOf DEF Waiting, InLoop, Status
  <2>7. \A x \in ReplyCalls : x # c => Status(x)' = Status(x)
    BY <2>4, <2>6
  <2> HIDE DEF open, open1
  <2>8. CASE \A x \in ReplyCalls : Status(x)' = Status(x)
    <3>1. status1 = status
      BY <2>8
    <3>2. CASE open1 = open
      BY <1>2, <3>1, <3>2 DEF Rpc!vars, open, open1
    <3>3. CASE open1 # open
      <4>1. Rpc!Close
        BY <1>2, <2>3, <2>5, <3>1, <3>3 DEF Rpc!Close, open, open1
      <4> QED BY <4>1 DEF Rpc!Next
    <3> QED BY <3>2, <3>3
  <2>9. CASE c \in ReplyCalls /\ Status(c)' # Status(c)
    <3>1. ASSUME NEW v, Status(c)' = v
          PROVE  status1 = [status EXCEPT ![c] = v]
      BY <2>7, <2>9, <3>1, Zenon
    <3>2. \/ call[c].at = "idle" /\ call'[c].at \in Waiting /\ open /\ open1
          \/ call[c].at = "idle" /\ call'[c].at = "failed" /\ ~open /\ ~open1
          \/ call[c].at \in Waiting /\ call'[c].at = "ok" /\ c \in served
          \/ call[c].at \in Waiting /\ call'[c].at = "failed" /\ ~open1
      BY <2>4, <2>6, <2>9
    <3>3. status[c] = Status(c)
      BY <2>9
    <3>4. CASE call[c].at = "idle" /\ call'[c].at \in Waiting /\ open /\ open1
      <4>1. status[c] = "new" /\ Status(c)' = "waiting"
        BY <2>6, <2>9, <3>3, <3>4, StatusOf
      <4>2. status1 = [status EXCEPT ![c] = "waiting"]
        BY <3>1, <4>1
      <4>3. Rpc!Begin(c)
        BY <1>2, <2>3, <3>4, <4>1, <4>2 DEF Rpc!Begin, open, open1
      <4> QED BY <2>9, <4>3 DEF Rpc!Next
    <3>5. CASE call[c].at = "idle" /\ call'[c].at = "failed" /\ ~open /\ ~open1
      <4>1. status[c] = "new" /\ Status(c)' = "failed"
        BY <3>3, <3>5, StatusOf
      <4>2. status1 = [status EXCEPT ![c] = "failed"]
        BY <3>1, <4>1
      <4>3. Rpc!Refuse(c)
        BY <1>2, <2>3, <3>5, <4>1, <4>2 DEF Rpc!Refuse, open, open1
      <4> QED BY <2>9, <4>3 DEF Rpc!Next
    <3>6. CASE call[c].at \in Waiting /\ call'[c].at = "ok" /\ c \in served
      <4>1. status[c] = "waiting" /\ Status(c)' = "ok" /\ c \in sv
        BY <2>6, <2>9, <3>3, <3>6, StatusOf
      <4>2. status1 = [status EXCEPT ![c] = "ok"]
        BY <3>1, <4>1
      <4>3. open1 \in {open, FALSE}
        BY <2>3, <2>5, Zenon
      <4>4. Rpc!Reply(c)
        BY <1>2, <4>1, <4>2, <4>3, Zenon DEF Rpc!Reply, open, open1
      <4> QED BY <2>9, <4>4, SMTT(30) DEF Rpc!Next
    <3>7. CASE call[c].at \in Waiting /\ call'[c].at = "failed" /\ ~open1
      <4>1. status[c] = "waiting" /\ Status(c)' = "failed"
        BY <2>6, <2>9, <3>3, <3>7, StatusOf
      <4>2. status1 = [status EXCEPT ![c] = "failed"]
        BY <3>1, <4>1, SMTT(30)
      <4>3. open1 = FALSE
        BY <2>3, <3>7
      <4>4. Rpc!Fail(c)
        BY <1>2, <4>1, <4>2, <4>3 DEF Rpc!Fail, open1
      <4> QED BY <2>9, <4>4 DEF Rpc!Next
    <3> QED BY <3>2, <3>4, <3>5, <3>6, <3>7
  <2> QED BY <2>7, <2>8, <2>9
<1> QED BY <1>1, <1>2 DEF Step

\* Threads that pass the buck implement independent calls on one connection: a call
\* that returns a reply was handled by the server, and a call fails only when the
\* connection is closed.
THEOREM CallsAreIndependent == Spec => ImplementsRpc
<1>1. Init => Rpc!Init
  <2> SUFFICES ASSUME Init PROVE Rpc!Init
    OBVIOUS
  <2>1. \A c \in ReplyCalls : call[c].at = "idle"
    BY DEF Init, Calls
  <2>2. \A c \in ReplyCalls : Status(c) = "new"
    BY <2>1, StatusOf
  <2>3. client.sock = TRUE /\ client.wantClose = FALSE /\ served = {}
    BY DEF Init
  <2> QED BY <2>2, <2>3, SMTT(30) DEF Rpc!Init
<1>2. IInv /\ [Next]_vars => [Rpc!Next]_(Rpc!vars)
  <2> SUFFICES ASSUME IInv, [Next]_vars PROVE [Rpc!Next]_(Rpc!vars)
    OBVIOUS
  <2>1. CASE Next
    BY <2>1, NextStep, RpcStep
  <2>2. CASE UNCHANGED vars
    BY <2>2 DEF vars, Rpc!vars, Status
  <2> QED BY <2>1, <2>2
<1> QED BY <1>1, <1>2, Invariant, PTL DEF Spec, ImplementsRpc, Rpc!Spec
=============================================================================
