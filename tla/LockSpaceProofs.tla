-------------------------- MODULE LockSpaceProofs ---------------------------
(***************************************************************************)
(* Proofs about LockSpace for any number of daemons, resources, owners and *)
(* inodes: types, the frame of a step on one resource, the steps of        *)
(* virLockSpaceAcquireResource and those that release leases, the inductive*)
(* invariant and what follows from it.                                     *)
(***************************************************************************)
EXTENDS LockSpace, TLAPS

USE LockSpaceAssumption DEF LockSpaceAssumption

\* A step of an operation keeps the type of op.
LEMMA OpType ==
  ASSUME TypeOK, NEW d \in Daemons
  PROVE  /\ Idle \in Ops
         /\ [op EXCEPT ![d] = Idle] \in [Daemons -> Ops]
         /\ \A a \in {"open", "lock", "check", "close"} :
              [op EXCEPT ![d] = [op[d] EXCEPT !.at = a]] \in [Daemons -> Ops]
<1>1. Idle \in Ops
  BY DEF Idle, Ops
<1>2. ASSUME NEW a \in {"open", "lock", "check", "close"}
      PROVE  [op[d] EXCEPT !.at = a] \in Ops
  <2>1. op[d] \in Ops
    BY DEF TypeOK
  <2> QED
    BY <2>1 DEF Ops
<1> QED
  BY <1>1, <1>2 DEF TypeOK

\* A new entry of the table lists one owner once.
LEMMA EntryType ==
  /\ NoOwners \in [Owners -> 0..MaxEntries]
  /\ \A o \in Owners : [NoOwners EXCEPT ![o] = 1] \in [Owners -> 0..MaxEntries]
BY DEF NoOwners

\* Removing an owner that is listed keeps the types of the table and of op.
LEMMA RemoveOwnerType ==
  ASSUME TypeOK, NEW d \in Daemons, NEW o \in Owners, NEW names \in SUBSET Names,
         \A n \in names : owners[d][n][o] > 0, RemoveOwner(d, o, names)
  PROVE  /\ owners' \in [Daemons -> [Names -> [Owners -> 0..MaxEntries]]]
         /\ op' \in [Daemons -> Ops]
<1> DEFINE left == [n \in Names |-> IF n \in names
                                    THEN [owners[d][n] EXCEPT ![o] = @ - 1]
                                    ELSE owners[d][n]]
           empty == {n \in names : left[n] = NoOwners}
           r == IF empty = {} THEN Idle ELSE [Idle EXCEPT !.at = "free", !.todo = empty]
<1>1. ASSUME NEW n \in Names PROVE left[n] \in [Owners -> 0..MaxEntries]
  <2>1. owners[d][n] \in [Owners -> 0..MaxEntries]
    BY DEF TypeOK
  <2>2. CASE n \in names
    <3>1. owners[d][n][o] - 1 \in 0..MaxEntries
      BY <2>1, <2>2
    <3> QED
      BY <2>1, <2>2, <3>1
  <2> QED
    BY <2>1, <2>2
<1>2. r \in Ops
  BY Zenon DEF Ops, Idle
<1>3. owners' = [owners EXCEPT ![d] = left] /\ op' = [op EXCEPT ![d] = r]
  BY DEF RemoveOwner
<1>4. left \in [Names -> [Owners -> 0..MaxEntries]]
  BY <1>1
<1> HIDE DEF r, left
<1> QED
  BY <1>2, <1>3, <1>4 DEF TypeOK

\* The type invariant holds initially and is kept by every step; the owner of a
\* pending acquisition is needed to type the new table entry.
LEMMA TypeStep == TypeOK /\ OpInv /\ [Next]_vars => TypeOK'
<1> SUFFICES ASSUME TypeOK, OpInv, [Next]_vars PROVE TypeOK'
  OBVIOUS
<1>0. CASE UNCHANGED vars
  BY <1>0 DEF TypeOK, vars
<1> SUFFICES ASSUME NEW d \in Daemons, Step(d)
    PROVE TypeOK'
  BY <1>0 DEF Next
<1>path. path \in [Names -> Inodes \cup {NoInode}]
  BY DEF TypeOK
<1>fd. fd \in [Daemons -> [Names -> Inodes \cup {NoInode}]]
  BY DEF TypeOK
<1>lock. lock \in [Daemons -> [Names -> {"none", "shared", "exclusive"}]]
  BY DEF TypeOK
<1>owners. owners \in [Daemons -> [Names -> [Owners -> 0..MaxEntries]]]
  BY DEF TypeOK
<1>shared. shared \in [Daemons -> [Names -> BOOLEAN]]
  BY DEF TypeOK
<1>op. op \in [Daemons -> Ops]
  BY DEF TypeOK
<1>1. ASSUME NEW n \in Names, NEW o \in Owners, AcquireShared(d, n, o) PROVE TypeOK'
  BY <1>1 DEF AcquireShared, TypeOK
<1>2. ASSUME NEW n \in Names, NEW o \in Owners, NEW isShared \in BOOLEAN,
             Acquire(d, n, o, isShared) PROVE TypeOK'
  <2> DEFINE r == [Idle EXCEPT !.at = "open", !.name = n, !.owner = o, !.shared = isShared]
  <2>1. r \in Ops
    BY Zenon DEF Ops, Idle
  <2>2. op' = [op EXCEPT ![d] = r]
    BY <1>2 DEF Acquire
  <2> HIDE DEF r
  <2>3. op' \in [Daemons -> Ops]
    BY <1>op, <2>1, <2>2
  <2> QED
    BY <1>2, <2>3 DEF Acquire, TypeOK
<1>3. ASSUME NEW n \in Names, NEW o \in Owners, ReleaseResource(d, n, o) PROVE TypeOK'
  <2>1. RemoveOwner(d, o, {n}) /\ owners[d][n][o] > 0
    BY <1>3 DEF ReleaseResource
  <2>2. /\ owners' \in [Daemons -> [Names -> [Owners -> 0..MaxEntries]]]
        /\ op' \in [Daemons -> Ops]
    BY <2>1, RemoveOwnerType
  <2> QED
    BY <1>3, <2>2 DEF ReleaseResource, TypeOK
<1>4. CASE AcquireOpen(d)
  <2>1. op' = [op EXCEPT ![d] = [op[d] EXCEPT !.at = "lock"]] \/ op' = [op EXCEPT ![d] = Idle]
    BY <1>4 DEF AcquireOpen
  <2>2. op' \in [Daemons -> Ops]
    BY ZenonT(60), <2>1, OpType
  <2>3. path' \in [Names -> Inodes \cup {NoInode}]
    <3>1. path' = path \/ \E i \in Inodes : path' = [path EXCEPT ![op[d].name] = i]
      BY <1>4 DEF AcquireOpen, OpenCreate
    <3> QED
      BY <1>path, <3>1
  <2>4. fd' \in [Daemons -> [Names -> Inodes \cup {NoInode}]]
    <3>1. op[d].name \in Names
      BY <1>4 DEF AcquireOpen, OpInv, OpOK
    <3>2. PICK i \in Inodes \cup {NoInode} :
            fd' = [fd EXCEPT ![d][op[d].name] = i] \/ fd' = fd
      BY Zenon, <1>4, <3>1 DEF AcquireOpen, OpenCreate, TypeOK
    <3> QED
      BY <1>fd, <3>1, <3>2
  <2> QED
    BY <1>4, <2>2, <2>3, <2>4 DEF AcquireOpen, TypeOK
<1>5. CASE AcquireLock(d)
  <2>1. op' = [op EXCEPT ![d] = [op[d] EXCEPT !.at = "check"]] \/ op' = [op EXCEPT ![d] = Idle]
    BY <1>5 DEF AcquireLock, AddResource
  <2>2. op' \in [Daemons -> Ops]
    BY ZenonT(60), <2>1, OpType
  <2>3. op[d].name \in Names /\ op[d].owner \in Owners /\ op[d].shared \in BOOLEAN
    <3>1. op[d] \in Ops
      BY DEF TypeOK
    <3> QED
      BY <1>5, <3>1 DEF AcquireLock, OpInv, OpOK, Ops
  <2>4. owners' \in [Daemons -> [Names -> [Owners -> 0..MaxEntries]]]
    <3> DEFINE Entries == [Owners -> 0..MaxEntries]
               e == [NoOwners EXCEPT ![op[d].owner] = 1]
    <3>1. owners' = owners \/ owners' = [owners EXCEPT ![d][op[d].name] = e]
      BY <1>5 DEF AcquireLock, AddResource
    <3>2. e \in Entries
      BY <2>3, EntryType
    <3>3. owners \in [Daemons -> [Names -> Entries]]
      BY <1>owners
    <3> HIDE DEF e, Entries
    <3>4. owners' \in [Daemons -> [Names -> Entries]]
      BY <2>3, <3>1, <3>2, <3>3
    <3> QED
      BY <3>4 DEF Entries
  <2>5. shared' \in [Daemons -> [Names -> BOOLEAN]]
    <3>1. shared' = shared \/ shared' = [shared EXCEPT ![d][op[d].name] = op[d].shared]
      BY <1>5 DEF AcquireLock, AddResource
    <3> QED
      BY <1>shared, <2>3, <3>1
  <2>6. fd' \in [Daemons -> [Names -> Inodes \cup {NoInode}]]
    <3>1. fd' = fd \/ fd' = [fd EXCEPT ![d][op[d].name] = NoInode]
      BY <1>5 DEF AcquireLock, Close
    <3> QED
      BY <1>fd, <2>3, <3>1
  <2>7. lock' \in [Daemons -> [Names -> {"none", "shared", "exclusive"}]]
    <3>1. PICK l \in {"none", "shared", "exclusive"} :
            lock' = lock \/ lock' = [lock EXCEPT ![d][op[d].name] = l]
      BY <1>5 DEF AcquireLock, Close
    <3> QED
      BY <1>lock, <2>3, <3>1
  <2> QED
    BY <1>5, <2>2, <2>4, <2>5, <2>6, <2>7 DEF AcquireLock, TypeOK
<1>6. CASE AcquireCheck(d)
  <2>1. op' = [op EXCEPT ![d] = [op[d] EXCEPT !.at = "open"]] \/ op' = [op EXCEPT ![d] = Idle]
    BY <1>6 DEF AcquireCheck, AddResource
  <2>2. op' \in [Daemons -> Ops]
    BY ZenonT(60), <2>1, OpType
  <2>3. op[d].name \in Names /\ op[d].owner \in Owners /\ op[d].shared \in BOOLEAN
    <3>1. op[d] \in Ops
      BY DEF TypeOK
    <3> QED
      BY <1>6, <3>1 DEF AcquireCheck, OpInv, OpOK, Ops
  <2>4. owners' \in [Daemons -> [Names -> [Owners -> 0..MaxEntries]]]
    <3> DEFINE Entries == [Owners -> 0..MaxEntries]
               e == [NoOwners EXCEPT ![op[d].owner] = 1]
    <3>1. owners' = owners \/ owners' = [owners EXCEPT ![d][op[d].name] = e]
      BY <1>6 DEF AcquireCheck, AddResource
    <3>2. e \in Entries
      BY <2>3, EntryType
    <3>3. owners \in [Daemons -> [Names -> Entries]]
      BY <1>owners
    <3> HIDE DEF e, Entries
    <3>4. owners' \in [Daemons -> [Names -> Entries]]
      BY <2>3, <3>1, <3>2, <3>3
    <3> QED
      BY <3>4 DEF Entries
  <2>5. shared' \in [Daemons -> [Names -> BOOLEAN]]
    <3>1. shared' = shared \/ shared' = [shared EXCEPT ![d][op[d].name] = op[d].shared]
      BY <1>6 DEF AcquireCheck, AddResource
    <3> QED
      BY <1>shared, <2>3, <3>1
  <2>6. fd' \in [Daemons -> [Names -> Inodes \cup {NoInode}]]
    <3>1. fd' = fd \/ fd' = [fd EXCEPT ![d][op[d].name] = NoInode]
      BY <1>6 DEF AcquireCheck, Close
    <3> QED
      BY <1>fd, <2>3, <3>1
  <2>7. lock' \in [Daemons -> [Names -> {"none", "shared", "exclusive"}]]
    <3>1. PICK l \in {"none", "shared", "exclusive"} :
            lock' = lock \/ lock' = [lock EXCEPT ![d][op[d].name] = l]
      BY <1>6 DEF AcquireCheck, Close
    <3> QED
      BY <1>lock, <2>3, <3>1
  <2> QED
    BY <1>6, <2>2, <2>4, <2>5, <2>6, <2>7 DEF AcquireCheck, TypeOK
<1>7. ASSUME NEW n \in Names, Free(d, n) PROVE TypeOK'
  <2>1. PICK at \in {"unlink", "close"} :
          op' = [op EXCEPT ![d] = [op[d] EXCEPT !.at = at, !.name = n, !.todo = @ \ {n}]]
    BY Zenon, <1>7 DEF Free
  <2>2. [op[d] EXCEPT !.at = at, !.name = n, !.todo = @ \ {n}] \in Ops
    <3>1. op[d] \in Ops
      BY DEF TypeOK
    <3> QED
      BY Zenon, <3>1 DEF Ops
  <2>3. op' \in [Daemons -> Ops]
    BY <2>1, <2>2 DEF TypeOK
  <2>4. lock' \in [Daemons -> [Names -> {"none", "shared", "exclusive"}]]
    <3>1. lock' = lock \/ lock' = [lock EXCEPT ![d][n] = "exclusive"]
      BY Zenon, <1>7 DEF Free
    <3> QED
      BY <1>lock, <3>1
  <2> QED
    BY <1>7, <2>3, <2>4 DEF Free, TypeOK
<1>8. CASE FreeUnlink(d)
  <2>1. op' = [op EXCEPT ![d] = [op[d] EXCEPT !.at = "close"]]
    BY <1>8 DEF FreeUnlink
  <2>2. op' \in [Daemons -> Ops]
    BY Zenon, <2>1, OpType
  <2> QED
    BY <1>8, <2>2 DEF FreeUnlink, TypeOK, OpInv, OpOK
<1>9. CASE FreeClose(d)
  <2>1. op' \in [Daemons -> Ops]
    <3> DEFINE r == IF op[d].todo = {} THEN Idle
                    ELSE [Idle EXCEPT !.at = "free", !.todo = op[d].todo]
    <3>1. r \in Ops
      BY Zenon DEF Ops, Idle, TypeOK
    <3>2. op' = [op EXCEPT ![d] = r]
      BY <1>9 DEF FreeClose
    <3> HIDE DEF r
    <3> QED
      BY <3>1, <3>2 DEF TypeOK
  <2>2. op[d].name \in Names
    BY <1>9 DEF FreeClose, OpInv, OpOK
  <2>3. fd' \in [Daemons -> [Names -> Inodes \cup {NoInode}]]
    BY <1>9, <2>2 DEF FreeClose, Close, TypeOK
  <2>4. lock' \in [Daemons -> [Names -> {"none", "shared", "exclusive"}]]
    BY <1>9, <2>2 DEF FreeClose, Close, TypeOK
  <2>5. shared' \in [Daemons -> [Names -> BOOLEAN]]
    BY <1>9, <2>2 DEF FreeClose, TypeOK
  <2> QED
    BY <1>9, <2>1, <2>3, <2>4, <2>5 DEF FreeClose, TypeOK
<1>10. ASSUME NEW n \in AdminNames, CreateResource(d, n) \/ DeleteResource(d, n) PROVE TypeOK'
  BY ZenonT(60), <1>10 DEF CreateResource, DeleteResource, TypeOK
<1>11. ASSUME NEW o \in Owners, Register(d, o) PROVE TypeOK'
  BY <1>11 DEF Register, TypeOK
<1>12. ASSUME NEW o \in Owners, ClientFree(d, o) PROVE TypeOK'
  <2> DEFINE names == {n \in Names : owners[d][n][o] > 0}
  <2>1. RemoveOwner(d, o, names)
    BY <1>12 DEF ClientFree
  <2>2. /\ owners' \in [Daemons -> [Names -> [Owners -> 0..MaxEntries]]]
        /\ op' \in [Daemons -> Ops]
    BY <2>1, RemoveOwnerType
  <2> QED
    BY Zenon, <1>12, <2>2 DEF ClientFree, TypeOK
<1>13. CASE Crash(d)
  <2>1. NoOwners \in [Owners -> 0..MaxEntries] /\ Idle \in Ops
    BY DEF NoOwners, Idle, Ops
  <2> QED
    BY <1>13, <2>1 DEF Crash, TypeOK
<1> QED
  BY <1>1, <1>2, <1>3, <1>4, <1>5, <1>6, <1>7, <1>8, <1>9, <1>10, <1>11, <1>12, <1>13 DEF Step

\* A step of d that touches only resource n keeps the invariant if it does so
\* for d and n and for d and each other daemon.
LEMMA Local ==
  ASSUME IInv, TypeOK', NEW d \in Daemons, NEW n \in Names,
         \A e \in Daemons, m \in Names : e # d \/ m # n =>
           /\ fd'[e][m] = fd[e][m] /\ lock'[e][m] = lock[e][m]
           /\ owners'[e][m] = owners[e][m] /\ shared'[e][m] = shared[e][m],
         \A e \in Daemons \ {d} : op'[e] = op[e],
         \A m \in Names \ {n} :
           /\ path'[m] = path[m]
           /\ m \in op'[d].todo <=> m \in op[d].todo
           /\ op[d].name # m /\ op'[d].name # m,
         OpOK(d)', FileOK(d, n)', OwnersOK(d, n)',
         \A e \in Daemons \ {d} : CompatOK(d, e, n)' /\ CompatOK(e, d, n)',
         n \in Autocreate /\ UsesPath(d, n)' => fd'[d][n] = path'[n],
         n \in Autocreate /\ path'[n] # path[n] =>
           \A e \in Daemons \ {d} : ~UsesPath(e, n)
  PROVE  IInv'
<1>1. OpInv'
  BY DEF IInv, OpInv, OpOK
<1>2. FileInv'
  <2> SUFFICES ASSUME NEW e \in Daemons, NEW m \in Names PROVE FileOK(e, m)'
    BY DEF FileInv
  <2>1. FileOK(e, m)
    BY DEF IInv, FileInv
  <2>2. CASE e # d
    BY <2>1, <2>2 DEF FileOK, Lease, Pending, At
  <2>3. CASE e = d /\ m # n
    BY <2>1, <2>3 DEF FileOK, Lease, Pending, At
  <2> QED
    BY <2>2, <2>3
<1>3. OwnersInv'
  BY DEF IInv, OwnersInv, OwnersOK, Lease
<1>4. CompatInv'
  <2> SUFFICES ASSUME NEW e \in Daemons, NEW f \in Daemons, NEW m \in Names, e # f
               PROVE  CompatOK(e, f, m)'
    BY DEF CompatInv
  <2>1. CompatOK(e, f, m)
    BY DEF IInv, CompatInv
  <2>2. CASE m # n \/ (e # d /\ f # d)
    BY <2>1, <2>2 DEF CompatOK
  <2> QED
    BY <2>2
<1>5. PathInv'
  <2> SUFFICES ASSUME NEW e \in Daemons, NEW m \in Autocreate, UsesPath(e, m)'
               PROVE  fd'[e][m] = path'[m]
    BY DEF PathInv
  <2>1. UsesPath(e, m) => fd[e][m] = path[m]
    BY DEF IInv, PathInv
  <2>2. CASE e # d \/ m # n
    <3>1. UsesPath(e, m)
      BY <2>2 DEF UsesPath, Lease, Pending, At
    <3> QED
      BY <2>1, <2>2, <3>1
  <2> QED
    BY <2>2
<1> QED
  BY <1>1, <1>2, <1>3, <1>4, <1>5 DEF IInv

\* The types of the variables, one by one.
LEMMA Types ==
  ASSUME TypeOK
  PROVE  /\ path \in [Names -> Inodes \cup {NoInode}]
         /\ fd \in [Daemons -> [Names -> Inodes \cup {NoInode}]]
         /\ lock \in [Daemons -> [Names -> {"none", "shared", "exclusive"}]]
         /\ owners \in [Daemons -> [Names -> [Owners -> 0..MaxEntries]]]
         /\ shared \in [Daemons -> [Names -> BOOLEAN]]
         /\ op \in [Daemons -> Ops]
BY DEF TypeOK

\* What the inductive invariant says of one daemon and one resource.
LEMMA At1 ==
  ASSUME IInv, NEW d \in Daemons, NEW n \in Names
  PROVE  /\ OpOK(d) /\ FileOK(d, n) /\ OwnersOK(d, n)
         /\ \A e \in Daemons \ {d} : CompatOK(d, e, n) /\ CompatOK(e, d, n)
         /\ n \in Autocreate => \A e \in Daemons : UsesPath(e, n) => fd[e][n] = path[n]
BY DEF IInv, OpInv, FileInv, OwnersInv, CompatInv, PathInv

\* The number of entries matters only as far as there are any.
LEMMA AcquireSharedStep ==
  ASSUME IInv, TypeOK', NEW d \in Daemons, NEW n \in Names, NEW o \in Owners,
         AcquireShared(d, n, o)
  PROVE  IInv'
<1> TypeOK
  BY DEF IInv
<1>1. UNCHANGED <<path, fd, lock, shared, op, clients>>
  BY DEF AcquireShared
<1>2. owners' = [owners EXCEPT ![d] = [owners[d] EXCEPT ![n] = [owners[d][n] EXCEPT ![o] = @ + 1]]]
  BY DEF AcquireShared
<1>3. op[d] = Idle /\ Lease(d, n) /\ shared[d][n]
  BY DEF AcquireShared, Lease
<1>4. owners[d] \in [Names -> [Owners -> 0..MaxEntries]] /\ owners[d][n] \in [Owners -> 0..MaxEntries]
  BY Types
<1>5. owners'[d][n] = [owners[d][n] EXCEPT ![o] = @ + 1]
  <2>1. owners'[d] = [owners[d] EXCEPT ![n] = [owners[d][n] EXCEPT ![o] = @ + 1]]
    BY <1>2, Types
  <2> QED
    BY <1>4, <2>1
<1>6. Lease(d, n)'
  <2>1. owners'[d][n][o] = owners[d][n][o] + 1 /\ owners[d][n][o] \in Nat
    BY <1>4, <1>5
  <2>2. owners'[d][n][o] # NoOwners[o]
    BY <2>1 DEF NoOwners
  <2> QED
    BY <2>2 DEF Lease
<1>7. \A e \in Daemons, m \in Names : e # d \/ m # n => owners'[e][m] = owners[e][m]
  <2>1. ASSUME NEW m \in Names \ {n} PROVE owners'[d][m] = owners[d][m]
    <3>1. owners'[d] = [owners[d] EXCEPT ![n] = [owners[d][n] EXCEPT ![o] = @ + 1]]
      BY <1>2, Types
    <3> QED
      BY <1>4, <3>1
  <2>2. ASSUME NEW e \in Daemons \ {d} PROVE owners'[e] = owners[e]
    BY <1>2, Types
  <2> QED
    BY <2>1, <2>2
<1>8. FileOK(d, n)'
  BY Zenon, <1>1, <1>3, <1>6, At1 DEF FileOK, Pending, At
<1>9. OwnersOK(d, n)'
  BY <1>1, <1>3 DEF OwnersOK
<1>10. \A m \in Names : op[d].name # m
  BY <1>3 DEF Idle
<1>11. /\ OpOK(d)' /\ (UsesPath(d, n)' => UsesPath(d, n))
       /\ \A e \in Daemons \ {d} : CompatOK(d, e, n)' /\ CompatOK(e, d, n)'
  BY <1>1, <1>3, At1 DEF OpOK, CompatOK, UsesPath
<1> QED
  BY <1>1, <1>7, <1>8, <1>9, <1>10, <1>11, At1, Local

\* An acquisition starts.
LEMMA AcquireStep ==
  ASSUME IInv, TypeOK', NEW d \in Daemons, NEW n \in Names, NEW o \in Owners,
         NEW isShared \in BOOLEAN, Acquire(d, n, o, isShared)
  PROVE  IInv'
<1> TypeOK
  BY DEF IInv
<1>1. UNCHANGED <<path, fd, lock, owners, shared, clients>>
  BY DEF Acquire
<1>2. op[d] = Idle /\ ~Lease(d, n)
  BY DEF Acquire, Lease
<1>3. /\ op'[d].at = "open" /\ op'[d].name = n /\ op'[d].owner = o /\ op'[d].todo = {}
      /\ \A e \in Daemons \ {d} : op'[e] = op[e]
  <2> DEFINE r == [Idle EXCEPT !.at = "open", !.name = n, !.owner = o, !.shared = isShared]
  <2>1. op' = [op EXCEPT ![d] = r]
    BY DEF Acquire
  <2>2. r.at = "open" /\ r.name = n /\ r.owner = o /\ r.todo = {}
    BY DEF Idle
  <2> HIDE DEF r
  <2> QED
    BY <2>1, <2>2, Types
<1>4. OpOK(d)'
  BY <1>3 DEF OpOK
<1>5. op[d].todo = {} /\ op[d].at = "idle" /\ op[d].name = NoName
  BY <1>2 DEF Idle
<1>6. FileOK(d, n)'
  BY <1>1, <1>2, <1>3, <1>5, At1 DEF FileOK, Pending, At, Lease
<1>7. OwnersOK(d, n)' /\ ~UsesPath(d, n)'
  BY <1>1, <1>2, <1>3, At1 DEF OwnersOK, Lease, UsesPath, Pending, At
<1>8. \A e \in Daemons \ {d} : CompatOK(d, e, n)' /\ CompatOK(e, d, n)'
  BY <1>1, At1 DEF CompatOK
<1> QED
  BY <1>1, <1>3, <1>4, <1>5, <1>6, <1>7, <1>8, Local

\* open(): the file is the one at the path, an existing one or a new one that no
\* daemon has open.
LEMMA AcquireOpenStep ==
  ASSUME IInv, TypeOK', NEW d \in Daemons, AcquireOpen(d)
  PROVE  IInv'
<1> TypeOK
  BY DEF IInv
<1>1. UNCHANGED <<lock, owners, shared, clients>> /\ op[d].at = "open"
  BY DEF AcquireOpen
<1>2. op[d].name \in Names /\ op[d].todo = {} /\ op[d].owner \in Owners
  BY <1>1 DEF IInv, OpInv, OpOK
<1>n. PICK n \in Names : n = op[d].name
  BY <1>2
<1>3. FileOK(d, n) /\ ~Lease(d, n) /\ fd[d][n] = NoInode /\ lock[d][n] = "none"
  <2>1. FileOK(d, n)
    BY At1
  <2> QED
    BY <1>1, <1>2, <1>n, <2>1, Types DEF FileOK, Pending, At
<1>4. CASE op' = [op EXCEPT ![d] = Idle] /\ UNCHANGED <<path, fd>>
  <2>1. op'[d] = Idle /\ \A e \in Daemons \ {d} : op'[e] = op[e]
    BY <1>4, Types
  <2>2. op'[d].at = "idle" /\ op'[d].todo = {} /\ op'[d].name = NoName
    BY <2>1 DEF Idle
  <2>3. OpOK(d)'
    BY <2>1, <2>2 DEF OpOK
  <2>4. FileOK(d, n)' /\ OwnersOK(d, n)' /\ ~UsesPath(d, n)'
    BY <1>1, <1>3, <1>4, <2>2 DEF FileOK, OwnersOK, UsesPath, Lease, Pending, At
  <2>5. \A e \in Daemons \ {d} : CompatOK(d, e, n)' /\ CompatOK(e, d, n)'
    BY <1>1, <1>2, <1>4, At1 DEF CompatOK
  <2>6. \A m \in Names \ {n} : op[d].name # m
    BY <1>n
  <2> QED
    BY <1>1, <1>2, <1>4, <2>1, <2>2, <2>3, <2>4, <2>5, <2>6, Local
<1>5. ASSUME NEW i \in Inodes, fd' = [fd EXCEPT ![d][n] = i], path' = [path EXCEPT ![n] = i],
             op' = [op EXCEPT ![d].at = "lock"],
             path[n] # i => path[n] = NoInode /\ n \in Autocreate
      PROVE  IInv'
  <2>1. /\ op'[d].at = "lock" /\ op'[d].name = n /\ op'[d].todo = {}
        /\ op'[d].owner = op[d].owner
        /\ \A e \in Daemons \ {d} : op'[e] = op[e]
    <3>1. op[d] \in Ops /\ op'[d] = [op[d] EXCEPT !.at = "lock"]
          /\ \A e \in Daemons \ {d} : op'[e] = op[e]
      BY <1>5, Types
    <3> QED
      BY <1>2, <1>n, <3>1 DEF Ops
  <2>2. \A e \in Daemons, m \in Names :
          fd'[e][m] = IF e = d /\ m = n THEN i ELSE fd[e][m]
    BY <1>5, Types
  <2>3. path'[n] = i /\ \A m \in Names \ {n} : path'[m] = path[m]
    BY <1>2, <1>5, Types
  <2>4. OpOK(d)'
    BY <1>2, <1>n, <2>1 DEF OpOK
  <2>5. fd'[d][n] = i /\ i # NoInode /\ lock'[d][n] = "none"
    BY <1>1, <1>2, <1>3, <2>2
  <2>6. FileOK(d, n)' /\ OwnersOK(d, n)' /\ ~UsesPath(d, n)'
    BY <1>1, <1>3, <2>1, <2>5 DEF FileOK, OwnersOK, UsesPath, Lease, Pending, At
  <2>7. \A e \in Daemons \ {d} : CompatOK(d, e, n)' /\ CompatOK(e, d, n)'
    BY <2>5 DEF CompatOK
  <2>8. n \in Autocreate /\ path'[n] # path[n] => \A e \in Daemons \ {d} : ~UsesPath(e, n)
    <3> SUFFICES ASSUME n \in Autocreate, path[n] # i, NEW e \in Daemons \ {d}, UsesPath(e, n)
                 PROVE  FALSE
      BY <2>3
    <3>1. fd[e][n] = NoInode
      BY <1>2, <1>5, At1
    <3>2. FileOK(e, n)
      BY <1>2, At1
    <3> QED
      BY <3>1, <3>2 DEF FileOK, UsesPath, LockFor
  <2>9. \A m \in Names \ {n} : op[d].name # m
    BY <1>n
  <2> QED
    BY <1>1, <1>2, <2>1, <2>2, <2>3, <2>4, <2>6, <2>7, <2>8, <2>9, Local
<1>6. CASE n \in Autocreate /\ OpenCreate(d, n) /\ op' = [op EXCEPT ![d].at = "lock"]
  <2>1. PICK i \in Inodes : /\ IF path[n] # NoInode THEN i = path[n]
                               ELSE \A e \in Daemons : fd[e][n] # i
                            /\ path' = [path EXCEPT ![n] = i]
                            /\ fd' = [fd EXCEPT ![d][n] = i]
    BY Zenon, <1>6 DEF OpenCreate
  <2> QED
    BY Zenon, <1>5, <1>6, <2>1
<1>7. CASE /\ path[n] # NoInode /\ fd' = [fd EXCEPT ![d][n] = path[n]]
           /\ op' = [op EXCEPT ![d].at = "lock"] /\ UNCHANGED path
  <2>1. path[n] \in Inodes /\ path' = [path EXCEPT ![n] = path[n]]
    BY <1>2, <1>7, Types
  <2> QED
    BY Zenon, <1>5, <1>7, <2>1
<1> QED
  BY <1>4, <1>6, <1>7, <1>n DEF AcquireOpen

\* What close() changes.
LEMMA CloseEffect ==
  ASSUME TypeOK, NEW d \in Daemons, NEW n \in Names, Close(d, n)
  PROVE  /\ fd'[d][n] = NoInode /\ lock'[d][n] = "none"
         /\ \A e \in Daemons, m \in Names : e # d \/ m # n =>
              fd'[e][m] = fd[e][m] /\ lock'[e][m] = lock[e][m]
<1>1. \A e \in Daemons, m \in Names : fd'[e][m] = IF e = d /\ m = n THEN NoInode ELSE fd[e][m]
  BY Types DEF Close
<1>2. \A e \in Daemons, m \in Names : lock'[e][m] = IF e = d /\ m = n THEN "none" ELSE lock[e][m]
  BY Types DEF Close
<1> QED
  BY <1>1, <1>2

\* What a daemon that has become idle looks like.
LEMMA IdleEffect ==
  ASSUME TypeOK, NEW d \in Daemons, op' = [op EXCEPT ![d] = Idle]
  PROVE  /\ op'[d] = Idle /\ op'[d].at = "idle" /\ op'[d].todo = {} /\ op'[d].name = NoName
         /\ OpOK(d)'
         /\ \A e \in Daemons \ {d} : op'[e] = op[e]
<1>1. op'[d] = Idle /\ \A e \in Daemons \ {d} : op'[e] = op[e]
  BY Types
<1>2. Idle.at = "idle" /\ Idle.todo = {} /\ Idle.name = NoName
  BY DEF Idle
<1> QED
  BY <1>1, <1>2 DEF OpOK

\* What the new entry of the table changes.
LEMMA AddEffect ==
  ASSUME TypeOK, NEW d \in Daemons, NEW n \in Names, op[d].owner \in Owners, AddResource(d, n)
  PROVE  /\ Lease(d, n)' /\ shared'[d][n] = op[d].shared
         /\ \E o \in Owners : owners'[d][n] = [NoOwners EXCEPT ![o] = 1]
         /\ \A e \in Daemons, m \in Names : e # d \/ m # n =>
              owners'[e][m] = owners[e][m] /\ shared'[e][m] = shared[e][m]
         /\ op' = [op EXCEPT ![d] = Idle]
<1> DEFINE o == op[d].owner
           entry == [NoOwners EXCEPT ![o] = 1]
<1>1. owners' = [owners EXCEPT ![d][n] = entry] /\ shared' = [shared EXCEPT ![d][n] = op[d].shared]
      /\ op' = [op EXCEPT ![d] = Idle]
  BY DEF AddResource
<1>2. entry # NoOwners
  <2>1. entry[o] = 1 /\ NoOwners[o] = 0
    BY DEF NoOwners
  <2> QED
    BY <2>1
<1> HIDE DEF entry
<1>3. \A e \in Daemons, m \in Names : owners'[e][m] = IF e = d /\ m = n THEN entry ELSE owners[e][m]
  <2> DEFINE Entries == [Owners -> 0..MaxEntries]
  <2>1. owners \in [Daemons -> [Names -> Entries]]
    BY Types
  <2> HIDE DEF Entries
  <2> QED
    BY <1>1, <2>1
<1>4. \A e \in Daemons, m \in Names :
        shared'[e][m] = IF e = d /\ m = n THEN op[d].shared ELSE shared[e][m]
  BY <1>1, Types
<1>5. Lease(d, n)'
  BY <1>2, <1>3 DEF Lease, NoOwners
<1>6. \E p \in Owners : owners'[d][n] = [NoOwners EXCEPT ![p] = 1]
  BY <1>3 DEF entry
<1>7. shared'[d][n] = op[d].shared
  BY <1>4
<1>8. \A e \in Daemons, m \in Names : e # d \/ m # n =>
        owners'[e][m] = owners[e][m] /\ shared'[e][m] = shared[e][m]
  BY <1>3, <1>4
<1> QED
  BY <1>1, <1>5, <1>6, <1>7, <1>8, Zenon

\* An operation that ends with the file closed.
LEMMA CloseStep ==
  ASSUME IInv, TypeOK', NEW d \in Daemons, NEW n \in Names,
         n = op[d].name, ~Lease(d, n), ~Pending(d, n), Close(d, n),
         op' = [op EXCEPT ![d] = Idle] \/ op' = [op EXCEPT ![d].at = "open"],
         op[d].todo = {}, op[d].owner \in Owners,
         UNCHANGED <<path, owners, shared>>
  PROVE  IInv'
<1> TypeOK
  BY DEF IInv
<1>1. /\ \A m \in Names \ {n} : op'[d].name # m /\ op[d].name # m
      /\ op'[d].at \in {"idle", "open"} /\ op'[d].todo = {} /\ OpOK(d)'
      /\ \A e \in Daemons \ {d} : op'[e] = op[e]
  <2>1. CASE op' = [op EXCEPT ![d] = Idle]
    BY Zenon, <2>1, IdleEffect
  <2>2. CASE op' = [op EXCEPT ![d].at = "open"]
    <3>1. op[d] \in Ops /\ op'[d] = [op[d] EXCEPT !.at = "open"]
          /\ \A e \in Daemons \ {d} : op'[e] = op[e]
      BY <2>2, Types
    <3>2. op'[d].at = "open" /\ op'[d].name = n /\ op'[d].todo = {} /\ op'[d].owner \in Owners
      BY <2>2, <3>1 DEF Ops
    <3> QED
      BY <3>1, <3>2 DEF OpOK
  <2> QED
    BY <2>1, <2>2
<1>2. /\ fd'[d][n] = NoInode /\ lock'[d][n] = "none"
      /\ \A e \in Daemons, m \in Names : e # d \/ m # n =>
           fd'[e][m] = fd[e][m] /\ lock'[e][m] = lock[e][m]
  BY CloseEffect
<1>3. FileOK(d, n)' /\ OwnersOK(d, n)' /\ ~UsesPath(d, n)'
  BY <1>1, <1>2 DEF FileOK, OwnersOK, UsesPath, Lease, Pending, At
<1>4. \A e \in Daemons \ {d} : CompatOK(d, e, n)' /\ CompatOK(e, d, n)'
  BY Zenon, <1>2 DEF CompatOK
<1> QED
  BY <1>1, <1>2, <1>3, <1>4, Local

\* An acquisition that ends with a lease.
LEMMA AddStep ==
  ASSUME IInv, TypeOK', NEW d \in Daemons, NEW n \in Names,
         n = op[d].name, op[d].owner \in Owners, op[d].todo = {}, AddResource(d, n),
         UNCHANGED <<path, fd>>, fd[d][n] # NoInode, lock'[d][n] = LockFor(op[d].shared),
         \A e \in Daemons, m \in Names : e # d \/ m # n => lock'[e][m] = lock[e][m],
         \A e \in Daemons \ {d} : CompatOK(d, e, n)' /\ CompatOK(e, d, n)',
         n \in Autocreate => fd[d][n] = path[n]
  PROVE  IInv'
<1> TypeOK
  BY DEF IInv
<1>1. /\ Lease(d, n)' /\ shared'[d][n] = op[d].shared
      /\ \E o \in Owners : owners'[d][n] = [NoOwners EXCEPT ![o] = 1]
      /\ \A e \in Daemons, m \in Names : e # d \/ m # n =>
           owners'[e][m] = owners[e][m] /\ shared'[e][m] = shared[e][m]
      /\ op' = [op EXCEPT ![d] = Idle]
  BY AddEffect
<1>2. /\ op'[d].at = "idle" /\ op'[d].todo = {} /\ op'[d].name = NoName /\ OpOK(d)'
      /\ \A e \in Daemons \ {d} : op'[e] = op[e]
  BY Zenon, <1>1, IdleEffect
<1>3. FileOK(d, n)'
  BY <1>1, <1>2 DEF FileOK, Pending, At
<1>4. OwnersOK(d, n)'
  BY Zenon, <1>1 DEF OwnersOK
<1>5. \A m \in Names \ {n} : op[d].name # m /\ op'[d].name # m /\ (m \in op'[d].todo <=> m \in op[d].todo)
  BY <1>2
<1> QED
  BY <1>1, <1>2, <1>3, <1>4, <1>5, Local

\* virFileLock succeeds or fails; in the latter case the file is closed.
LEMMA AcquireLockStep ==
  ASSUME IInv, TypeOK', NEW d \in Daemons, AcquireLock(d)
  PROVE  IInv'
<1> TypeOK
  BY DEF IInv
<1>a. op[d].at = "lock"
  BY DEF AcquireLock
<1>b. op[d].todo = {} /\ op[d].name \in Names /\ op[d].owner \in Owners
  BY <1>a DEF IInv, OpInv, OpOK
<1>n. PICK n \in Names : n = op[d].name
  BY <1>b
<1>1. UNCHANGED path
  BY DEF AcquireLock
<1>2. ~Lease(d, n) /\ ~Pending(d, n) /\ fd[d][n] # NoInode
  BY <1>a, <1>b, <1>n, At1 DEF FileOK, At, Pending
<1>3. CASE Close(d, n) /\ op' = [op EXCEPT ![d] = Idle] /\ UNCHANGED <<owners, shared>>
  BY Zenon, <1>1, <1>2, <1>3, <1>b, <1>n, CloseStep
<1>4. CASE /\ CanLock(d, n, op[d].shared)
           /\ lock' = [lock EXCEPT ![d][n] = LockFor(op[d].shared)]
           /\ UNCHANGED fd
           /\ IF n \in Autocreate
              THEN op' = [op EXCEPT ![d].at = "check"] /\ UNCHANGED <<owners, shared>>
              ELSE AddResource(d, n)
  <2>1. \A e \in Daemons, m \in Names :
          lock'[e][m] = IF e = d /\ m = n THEN LockFor(op[d].shared) ELSE lock[e][m]
    BY <1>4, Types
  <2>2. \A e \in Daemons \ {d} : CompatOK(d, e, n)' /\ CompatOK(e, d, n)'
    BY <1>4, <2>1 DEF CompatOK, CanLock, LockFor
  <2>3. CASE n \notin Autocreate
    BY <1>1, <1>2, <1>4, <1>b, <1>n, <2>1, <2>2, <2>3, AddStep
  <2>4. CASE n \in Autocreate
    <3>1. op' = [op EXCEPT ![d].at = "check"] /\ UNCHANGED <<owners, shared>>
      BY <1>4, <2>4
    <3>2. op[d] \in Ops /\ op'[d] = [op[d] EXCEPT !.at = "check"]
          /\ \A e \in Daemons \ {d} : op'[e] = op[e]
      BY <3>1, Types
    <3>3. /\ op'[d].at = "check" /\ op'[d].name = n /\ op'[d].todo = {}
          /\ op'[d].owner \in Owners /\ op'[d].shared = op[d].shared
      BY <3>2, <1>b, <1>n DEF Ops
    <3>4. OpOK(d)'
      BY <3>3, <2>4 DEF OpOK
    <3>5. ~Lease(d, n)' /\ ~Pending(d, n)' /\ At(d, n, {"check"})'
      BY <1>2, <3>1, <3>3 DEF Lease, Pending, At
    <3>6. FileOK(d, n)'
      BY <1>2, <1>4, <2>1, <3>3, <3>5 DEF FileOK, At
    <3>7. OwnersOK(d, n)' /\ ~UsesPath(d, n)'
      BY <3>3, <3>5 DEF OwnersOK, UsesPath, At
    <3>8. \A m \in Names \ {n} :
            op[d].name # m /\ op'[d].name # m /\ (m \in op'[d].todo <=> m \in op[d].todo)
      BY <3>3, <1>b, <1>n
    <3> QED
      BY <1>1, <1>4, <2>1, <2>2, <3>1, <3>2, <3>4, <3>6, <3>7, <3>8, Local
  <2> QED
    BY <2>3, <2>4
<1> QED
  BY <1>3, <1>4, <1>n DEF AcquireLock, LockFor

\* The file at the path is compared with the one that was locked: it is either leased,
\* or closed and opened again.
LEMMA AcquireCheckStep ==
  ASSUME IInv, TypeOK', NEW d \in Daemons, AcquireCheck(d)
  PROVE  IInv'
<1> TypeOK
  BY DEF IInv
<1>a. op[d].at = "check"
  BY DEF AcquireCheck
<1>b. op[d].todo = {} /\ op[d].name \in Names /\ op[d].owner \in Owners
  BY <1>a DEF IInv, OpInv, OpOK
<1>n. PICK n \in Names : n = op[d].name
  BY <1>b
<1>1. UNCHANGED path
  BY DEF AcquireCheck
<1>2. ~Lease(d, n) /\ ~Pending(d, n) /\ lock[d][n] = LockFor(op[d].shared) /\ fd[d][n] # NoInode
  BY <1>a, <1>b, <1>n, At1 DEF FileOK, At, Pending, LockFor
<1>3. CASE Close(d, n) /\ op' = [op EXCEPT ![d].at = "open"] /\ UNCHANGED <<owners, shared>>
  BY Zenon, <1>1, <1>2, <1>3, <1>b, <1>n, CloseStep
<1>4. CASE path[n] = fd[d][n] /\ AddResource(d, n) /\ UNCHANGED <<fd, lock>>
  <2>1. \A e \in Daemons \ {d} : CompatOK(d, e, n)' /\ CompatOK(e, d, n)'
    BY <1>4, At1 DEF CompatOK
  <2> QED
    BY Zenon, <1>1, <1>2, <1>4, <1>b, <1>n, <2>1, AddStep
<1> QED
  BY <1>3, <1>4, <1>n DEF AcquireCheck

(***************************************************************************)
(* The steps that release leases.                                          *)
(***************************************************************************)

\* virLockSpaceResourceFree closes the file of a resource that has no owner left.
LEMMA FreeStep ==
  ASSUME IInv, TypeOK', NEW d \in Daemons, NEW n \in Names, Free(d, n)
  PROVE  IInv'
<1> TypeOK
  BY DEF IInv
<1>1. UNCHANGED <<path, fd, owners, shared>>
  BY DEF Free
<1>2. op[d].at = "free" /\ n \in op[d].todo
  BY DEF Free
<1>3. op[d].name = NoName /\ op[d] \in Ops
  BY <1>2, At1, Types DEF OpOK
<1>4. ~Lease(d, n) /\ Pending(d, n) /\ fd[d][n] # NoInode /\ lock[d][n] = LockFor(shared[d][n])
  BY <1>2, At1 DEF FileOK, Pending
<1>5. PICK at \in {"unlink", "close"} :
        /\ op' = [op EXCEPT ![d].at = at, ![d].name = n, ![d].todo = @ \ {n}]
        /\ at = "unlink" => n \in Autocreate
        /\ \/ CanLock(d, n, FALSE) /\ lock' = [lock EXCEPT ![d][n] = "exclusive"]
           \/ (at = "unlink" => ~shared[d][n]) /\ UNCHANGED lock
  BY Zenon DEF Free
<1>6. /\ op'[d] = [op[d] EXCEPT !.at = at, !.name = n, !.todo = @ \ {n}]
      /\ \A e \in Daemons \ {d} : op'[e] = op[e]
  BY <1>5, Types
<1>7. op'[d].at = at /\ op'[d].name = n /\ op'[d].todo = op[d].todo \ {n}
  BY <1>3, <1>6 DEF Ops
<1>8. OpOK(d)'
  BY Zenon, <1>5, <1>7 DEF OpOK
<1>9. /\ \A e \in Daemons, m \in Names : e # d \/ m # n => lock'[e][m] = lock[e][m]
      /\ lock'[d][n] # "none"
      /\ at = "unlink" => lock'[d][n] = "exclusive"
  <2>1. CASE lock' = [lock EXCEPT ![d][n] = "exclusive"]
    BY <2>1, Types
  <2>2. CASE (at = "unlink" => ~shared[d][n]) /\ UNCHANGED lock
    BY <1>4, <2>2 DEF LockFor
  <2> QED
    BY Zenon, <1>5, <2>1, <2>2
<1>10. \A e \in Daemons \ {d} : CompatOK(d, e, n)' /\ CompatOK(e, d, n)'
  <2>1. CASE CanLock(d, n, FALSE) /\ lock' = [lock EXCEPT ![d][n] = "exclusive"]
    BY <1>1, <1>9, <2>1 DEF CompatOK, CanLock
  <2>2. CASE UNCHANGED lock
    BY <1>1, <2>2, At1 DEF CompatOK
  <2> QED
    BY Zenon, <1>5, <2>1, <2>2
<1>11. ~Lease(d, n)' /\ ~Pending(d, n)'
  BY <1>1, <1>4, <1>7 DEF Lease, Pending
<1>12. FileOK(d, n)' /\ OwnersOK(d, n)'
  BY <1>1, <1>4, <1>5, <1>7, <1>9, <1>11 DEF FileOK, OwnersOK, At
<1>13. n \in Autocreate => fd'[d][n] = path'[n]
  BY <1>1, <1>4, At1 DEF UsesPath
<1>14. \A m \in Names \ {n} :
         op[d].name # m /\ op'[d].name # m /\ (m \in op'[d].todo <=> m \in op[d].todo)
  BY <1>3, <1>7
<1> QED
  BY ZenonT(60), <1>1, <1>6, <1>8, <1>9, <1>10, <1>12, <1>13, <1>14, Local

\* The exclusive lock keeps every other user of the file away while it is deleted.
LEMMA FreeUnlinkStep ==
  ASSUME IInv, TypeOK', NEW d \in Daemons, FreeUnlink(d)
  PROVE  /\ IInv'
         /\ \A n \in Names : path'[n] # path[n] => \A e \in Daemons : ~Lease(e, n)
<1> TypeOK
  BY DEF IInv
<1>a. op[d].at = "unlink"
  BY DEF FreeUnlink
<1>b. op[d].name \in Names \ op[d].todo /\ op[d].name \in Autocreate
  BY <1>a DEF IInv, OpInv, OpOK
<1>n. PICK n \in Names : n = op[d].name
  BY <1>b
<1>1. UNCHANGED <<fd, lock, owners, shared>>
  BY DEF FreeUnlink
<1>2. path' = [path EXCEPT ![n] = NoInode] /\ op' = [op EXCEPT ![d].at = "close"]
  BY <1>n DEF FreeUnlink
<1>3. op[d] \in Ops /\ op'[d] = [op[d] EXCEPT !.at = "close"] /\ \A e \in Daemons \ {d} : op'[e] = op[e]
  BY <1>2, Types
<1>4. op'[d].at = "close" /\ op'[d].name = n /\ op'[d].todo = op[d].todo
  BY <1>3, <1>n DEF Ops
<1>5. OpOK(d)'
  BY <1>4, <1>b, <1>n DEF OpOK
<1>6. \A m \in Names \ {n} : path'[m] = path[m]
  BY <1>2, Types
<1>7. ~Lease(d, n) /\ ~Pending(d, n) /\ lock[d][n] = "exclusive" /\ fd[d][n] = path[n]
  BY <1>a, <1>b, <1>n, At1 DEF FileOK, UsesPath, At, Pending
<1>8. \A e \in Daemons \ {d} : ~UsesPath(e, n)
  <2>1. SUFFICES ASSUME NEW e \in Daemons \ {d}, UsesPath(e, n) PROVE FALSE
    OBVIOUS
  <2>2. fd[e][n] = path[n]
    BY <1>b, <1>n, <2>1, At1
  <2>3. lock[e][n] = "none"
    BY <1>7, <2>1, <2>2, At1 DEF CompatOK
  <2>4. lock[e][n] # "none"
    BY <2>1, At1 DEF FileOK, UsesPath, LockFor
  <2> QED
    BY <2>3, <2>4
<1>9. ~Lease(d, n)' /\ ~Pending(d, n)' /\ ~UsesPath(d, n)'
  BY Zenon, <1>1, <1>4, <1>7 DEF Lease, Pending, UsesPath, At
<1>10. FileOK(d, n)' /\ OwnersOK(d, n)'
  BY Zenon, <1>1, <1>4, <1>7, <1>9, At1 DEF FileOK, OwnersOK, At
<1>11. \A e \in Daemons \ {d} : CompatOK(d, e, n)' /\ CompatOK(e, d, n)'
  BY <1>1, At1 DEF CompatOK
<1>12. \A m \in Names \ {n} :
         op[d].name # m /\ op'[d].name # m /\ (m \in op'[d].todo <=> m \in op[d].todo)
  BY <1>4, <1>n
<1>13. IInv'
  BY Zenon, <1>1, <1>3, <1>5, <1>6, <1>8, <1>9, <1>10, <1>11, <1>12, Local
<1>14. \A m \in Names : path'[m] # path[m] => \A e \in Daemons : ~Lease(e, m)
  BY Zenon, <1>6, <1>7, <1>8 DEF UsesPath
<1> QED
  BY <1>13, <1>14

\* virLockSpaceResourceFree closes the file, and with it gives up the lock.
LEMMA FreeCloseStep ==
  ASSUME IInv, TypeOK', NEW d \in Daemons, FreeClose(d)
  PROVE  IInv'
<1> TypeOK
  BY DEF IInv
<1>a. op[d].at = "close"
  BY DEF FreeClose
<1>b. op[d].name \in Names \ op[d].todo
  BY <1>a DEF IInv, OpInv, OpOK
<1>n. PICK n \in Names : n = op[d].name
  BY <1>b
<1>1. UNCHANGED <<path, owners>> /\ Close(d, n) /\ shared' = [shared EXCEPT ![d][n] = FALSE]
  BY <1>n DEF FreeClose
<1>2. \A e \in Daemons, m \in Names : e # d \/ m # n => shared'[e][m] = shared[e][m]
  BY Zenon, <1>1, Types
<1>3. /\ fd'[d][n] = NoInode /\ lock'[d][n] = "none"
      /\ \A e \in Daemons, m \in Names : e # d \/ m # n =>
           fd'[e][m] = fd[e][m] /\ lock'[e][m] = lock[e][m]
  BY <1>1, CloseEffect
<1>4. /\ op'[d] = IF op[d].todo = {} THEN Idle
                  ELSE [Idle EXCEPT !.at = "free", !.todo = op[d].todo]
      /\ \A e \in Daemons \ {d} : op'[e] = op[e]
  BY Types DEF FreeClose
<1>5. op'[d].at \in {"idle", "free"} /\ op'[d].name = NoName /\ op'[d].todo = op[d].todo
  <2> DEFINE w == [Idle EXCEPT !.at = "free", !.todo = op[d].todo]
  <2>1. Idle.at = "idle" /\ Idle.name = NoName /\ Idle.todo = {}
    BY DEF Idle
  <2>2. w.at = "free" /\ w.name = NoName /\ w.todo = op[d].todo
    BY DEF Idle
  <2> HIDE DEF w
  <2> QED
    BY Zenon, <1>4, <2>1, <2>2 DEF w
<1>6. OpOK(d)'
  BY <1>4, <1>5 DEF OpOK, Idle
<1>7. ~Lease(d, n)' /\ ~Pending(d, n)' /\ ~UsesPath(d, n)'
  <2>1. ~Lease(d, n)
    BY Zenon, <1>a, <1>n, At1 DEF FileOK, At
  <2> QED
    BY <1>1, <1>5, <1>b, <1>n, <2>1 DEF Lease, Pending, UsesPath, At
<1>8. FileOK(d, n)' /\ OwnersOK(d, n)'
  BY <1>3, <1>5, <1>7 DEF FileOK, OwnersOK, At
<1>9. \A e \in Daemons \ {d} : CompatOK(d, e, n)' /\ CompatOK(e, d, n)'
  BY <1>3 DEF CompatOK
<1>10. \A m \in Names \ {n} :
         op[d].name # m /\ op'[d].name # m /\ (m \in op'[d].todo <=> m \in op[d].todo)
  BY <1>5, <1>n
<1>11. UNCHANGED <<path, owners>>
  BY <1>1
<1>12. \A e \in Daemons \ {d} : op'[e] = op[e]
  BY <1>4
<1> QED
  BY <1>2, <1>3, <1>6, <1>7, <1>8, <1>9, <1>10, <1>11, <1>12, Local

\* A step that changes only paths of files that exist beforehand, and clients.
LEMMA PathStep ==
  ASSUME IInv, TypeOK', UNCHANGED <<fd, lock, owners, shared, op>>,
         \A n \in Autocreate : path'[n] = path[n]
  PROVE  IInv'
<1>1. \A d \in Daemons, n \in Names :
        /\ Lease(d, n)' <=> Lease(d, n)
        /\ Pending(d, n)' <=> Pending(d, n)
        /\ UsesPath(d, n)' <=> UsesPath(d, n)
        /\ OpOK(d)' <=> OpOK(d)
        /\ FileOK(d, n)' <=> FileOK(d, n)
        /\ OwnersOK(d, n)' <=> OwnersOK(d, n)
        /\ \A e \in Daemons : CompatOK(d, e, n)' <=> CompatOK(d, e, n)
  BY DEF Lease, Pending, UsesPath, OpOK, FileOK, OwnersOK, CompatOK, At
<1>2. OpInv'
  BY DEF IInv, OpInv, OpOK
<1>3. FileInv' /\ OwnersInv' /\ CompatInv'
  BY <1>1 DEF IInv, FileInv, OwnersInv, CompatInv
<1>4. PathInv'
  BY <1>1 DEF IInv, PathInv
<1> QED
  BY Zenon, <1>2, <1>3, <1>4 DEF IInv

\* A step that changes only what daemon d has.
LEMMA DaemonStep ==
  ASSUME IInv, TypeOK', NEW d \in Daemons, UNCHANGED path,
         \A e \in Daemons \ {d} :
           /\ fd'[e] = fd[e] /\ lock'[e] = lock[e]
           /\ owners'[e] = owners[e] /\ shared'[e] = shared[e] /\ op'[e] = op[e],
         OpOK(d)',
         \A n \in Names : /\ FileOK(d, n)' /\ OwnersOK(d, n)'
                          /\ UsesPath(d, n)' => UsesPath(d, n) /\ fd'[d][n] = fd[d][n]
                          /\ \A e \in Daemons \ {d} : CompatOK(d, e, n)' /\ CompatOK(e, d, n)'
  PROVE  IInv'
<1>1. \A e \in Daemons \ {d}, n \in Names :
        /\ Lease(e, n)' <=> Lease(e, n)
        /\ Pending(e, n)' <=> Pending(e, n)
        /\ UsesPath(e, n)' <=> UsesPath(e, n)
        /\ OpOK(e)' <=> OpOK(e)
        /\ FileOK(e, n)' <=> FileOK(e, n)
        /\ OwnersOK(e, n)' <=> OwnersOK(e, n)
  <2> TAKE e \in Daemons \ {d}, n \in Names
  <2>1. /\ fd'[e] = fd[e] /\ lock'[e] = lock[e]
        /\ owners'[e] = owners[e] /\ shared'[e] = shared[e] /\ op'[e] = op[e]
    BY Zenon
  <2>2. Lease(e, n)' <=> Lease(e, n)
    BY <2>1 DEF Lease
  <2>3. Pending(e, n)' <=> Pending(e, n)
    BY <2>1 DEF Pending
  <2>4. \A steps : At(e, n, steps)' <=> At(e, n, steps)
    BY <2>1 DEF At
  <2>5. UsesPath(e, n)' <=> UsesPath(e, n)
    BY Zenon, <2>2, <2>3, <2>4 DEF UsesPath
  <2>6. OpOK(e)' <=> OpOK(e)
    BY Zenon, <2>1 DEF OpOK
  <2>7. FileOK(e, n)' <=> FileOK(e, n)
    BY Zenon, <2>1, <2>2, <2>3, <2>4 DEF FileOK
  <2>8. OwnersOK(e, n)' <=> OwnersOK(e, n)
    BY Zenon, <2>1, <2>2 DEF OwnersOK
  <2> QED BY <2>2, <2>3, <2>5, <2>6, <2>7, <2>8
<1>2. \A e, f \in Daemons \ {d}, n \in Names : CompatOK(e, f, n)' <=> CompatOK(e, f, n)
  BY Zenon DEF CompatOK
<1>3. OpInv'
  <2>1. \A e \in Daemons \ {d} : OpOK(e)'
    BY DEF OpOK, IInv, OpInv
  <2> QED
    BY Zenon, <2>1 DEF OpInv
<1>4. FileInv' /\ OwnersInv'
  BY Zenon, <1>1 DEF IInv, FileInv, OwnersInv
<1>5. CompatInv'
  BY Zenon, <1>2 DEF IInv, CompatInv
<1>6. PathInv'
  BY <1>1 DEF IInv, PathInv
<1> QED
  BY Zenon, <1>3, <1>4, <1>5, <1>6 DEF IInv

\* virLockSpaceCreateResource and virLockSpaceDeleteResource touch only files that are
\* not created on demand.
LEMMA AdminStep ==
  ASSUME IInv, TypeOK', NEW d \in Daemons, NEW n \in AdminNames,
         CreateResource(d, n) \/ DeleteResource(d, n)
  PROVE  IInv' /\ \A m \in Autocreate : path'[m] = path[m]
<1> TypeOK
  BY DEF IInv
<1>1. UNCHANGED <<fd, lock, owners, shared, op>>
  BY DEF CreateResource, DeleteResource
<1>2. \E i : path' = [path EXCEPT ![n] = i]
  BY DEF CreateResource, DeleteResource
<1>3. \A m \in Autocreate : path'[m] = path[m]
  BY Zenon, <1>2, Types
<1> QED
  BY <1>1, <1>3, PathStep

\* An owner is removed from some of the resources it has.
LEMMA RemoveOwnerStep ==
  ASSUME IInv, TypeOK', NEW d \in Daemons, NEW o \in Owners, NEW S \in SUBSET Names,
         op[d] = Idle, \A n \in S : owners[d][n][o] > 0,
         RemoveOwner(d, o, S), UNCHANGED <<path, fd, lock, shared>>
  PROVE  IInv'
<1> TypeOK
  BY DEF IInv
<1> DEFINE left == [n \in Names |-> IF n \in S THEN [owners[d][n] EXCEPT ![o] = @ - 1]
                                    ELSE owners[d][n]]
           empty == {n \in S : left[n] = NoOwners}
<1>1. /\ owners' = [owners EXCEPT ![d] = left]
      /\ op' = [op EXCEPT ![d] = IF empty = {} THEN Idle
                                 ELSE [Idle EXCEPT !.at = "free", !.todo = empty]]
  BY DEF RemoveOwner
<1>2. \A n \in Names : left[n] = IF n \in S THEN [owners[d][n] EXCEPT ![o] = @ - 1]
                                 ELSE owners[d][n]
  OBVIOUS
<1>3. empty \subseteq S /\ \A n \in S : n \in empty <=> left[n] = NoOwners
  OBVIOUS
<1> HIDE DEF left, empty
<1>4. owners'[d] = left /\ \A e \in Daemons \ {d} : owners'[e] = owners[e]
  BY <1>1, Types
<1>5. \A e \in Daemons \ {d} : op'[e] = op[e]
  BY <1>1, Types
<1>6. op'[d] = IF empty = {} THEN Idle ELSE [Idle EXCEPT !.at = "free", !.todo = empty]
  BY <1>1, Types
<1>7. op'[d].at \in {"idle", "free"} /\ op'[d].name = NoName /\ op'[d].todo = empty
  BY <1>6 DEF Idle
<1>8. OpOK(d)'
  BY <1>6, <1>7 DEF OpOK, Idle
<1>9. op[d].at = "idle" /\ op[d].todo = {} /\ op[d].name = NoName
  BY DEF Idle
<1>10. \A n \in S : owners[d][n] # NoOwners
  BY DEF NoOwners
<1>11. \A n \in Names : /\ Lease(d, n)' => Lease(d, n) /\ n \notin empty
                        /\ n \in empty => Lease(d, n)
                        /\ Lease(d, n) => Lease(d, n)' \/ n \in empty
  <2>1. \A n \in Names : /\ Lease(d, n) <=> owners[d][n] # NoOwners
                         /\ Lease(d, n)' <=> left[n] # NoOwners
    BY <1>4 DEF Lease, NoOwners
  <2> QED
    BY Zenon, <1>2, <1>3, <1>10, <2>1
<1>12. \A n \in Names : /\ Pending(d, n)' <=> n \in empty
                        /\ ~Pending(d, n)
                        /\ \A steps \in SUBSET {"open", "lock", "check", "unlink", "close"} :
                             ~At(d, n, steps) /\ ~At(d, n, steps)'
  BY <1>7, <1>9 DEF Pending, At
<1>13. ASSUME NEW n \in Names
       PROVE  /\ FileOK(d, n)' /\ OwnersOK(d, n)'
              /\ UsesPath(d, n)' => UsesPath(d, n) /\ fd'[d][n] = fd[d][n]
              /\ \A e \in Daemons \ {d} : CompatOK(d, e, n)' /\ CompatOK(e, d, n)'
  <2>1. FileOK(d, n)'
    <3>1. FileOK(d, n)
      BY Zenon, At1
    <3> QED
      BY Zenon, <1>7, <1>9, <1>11, <1>12, <3>1 DEF FileOK, At
  <2>2. UsesPath(d, n)' => UsesPath(d, n)
    BY Zenon, <1>7, <1>11, <1>12 DEF UsesPath, At
  <2>3. OwnersOK(d, n)'
    <3>1. SUFFICES ASSUME Lease(d, n)', ~shared[d][n]
                   PROVE  \E p \in Owners : owners'[d][n] = [NoOwners EXCEPT ![p] = 1]
      BY DEF OwnersOK, NoOwners
    <3>2. PICK p \in Owners : owners[d][n] = [NoOwners EXCEPT ![p] = 1]
      BY <1>11, <3>1, At1 DEF OwnersOK
    <3>3. CASE n \in S
      <4>1. p = o
        BY <3>2, <3>3 DEF NoOwners
      <4>2. [owners[d][n] EXCEPT ![o] = @ - 1] = NoOwners
        BY <3>2, <4>1 DEF NoOwners
      <4> QED
        BY Zenon, <1>2, <1>3, <1>11, <3>1, <3>3, <4>2
    <3>4. CASE n \notin S
      BY Zenon, <1>2, <1>4, <3>2, <3>4
    <3> QED
      BY <3>3, <3>4
  <2>4. \A e \in Daemons \ {d} : CompatOK(d, e, n)' /\ CompatOK(e, d, n)'
    BY Zenon, At1 DEF CompatOK
  <2> QED
    BY Zenon, <2>1, <2>2, <2>3, <2>4
<1> QED
  BY <1>4, <1>5, <1>8, <1>13, DaemonStep

\* A daemon that dies loses its descriptors, its locks and its table.
LEMMA CrashStep ==
  ASSUME IInv, TypeOK', NEW d \in Daemons, Crash(d)
  PROVE  IInv'
<1> TypeOK
  BY DEF IInv
<1>1. UNCHANGED path
  BY DEF Crash
<1>2. \A n \in Names : fd'[d][n] = NoInode /\ lock'[d][n] = "none"
  BY Types DEF Crash
<1>3. \A n \in Names : owners'[d][n] = NoOwners
  BY Types DEF Crash
<1>4. \A e \in Daemons \ {d} : /\ fd'[e] = fd[e] /\ lock'[e] = lock[e]
                               /\ owners'[e] = owners[e] /\ shared'[e] = shared[e]
  BY Types DEF Crash
<1>5. /\ op'[d].at = "idle" /\ op'[d].todo = {} /\ op'[d].name = NoName /\ OpOK(d)'
      /\ \A e \in Daemons \ {d} : op'[e] = op[e]
  BY Zenon, IdleEffect DEF Crash
<1>6. \A n \in Names : ~Lease(d, n)' /\ ~Pending(d, n)'
  BY Zenon, <1>3, <1>5 DEF Lease, Pending, NoOwners
<1>7. \A n \in Names : /\ FileOK(d, n)' /\ OwnersOK(d, n)' /\ ~UsesPath(d, n)'
                       /\ \A e \in Daemons \ {d} : CompatOK(d, e, n)' /\ CompatOK(e, d, n)'
  BY <1>2, <1>5, <1>6 DEF FileOK, OwnersOK, UsesPath, CompatOK, At
<1> QED
  BY <1>1, <1>4, <1>5, <1>7, DaemonStep

\* Nothing is leased at first.
LEMMA InvInit == Init => IInv
<1> SUFFICES ASSUME Init PROVE IInv
  OBVIOUS
<1>1. Idle \in Ops /\ Idle.at = "idle" /\ Idle.todo = {} /\ Idle.name = NoName
  BY DEF Idle, Ops
<1>2. NoOwners \in [Owners -> 0..MaxEntries]
  BY DEF NoOwners
<1>3. TypeOK
  <2>1. owners \in [Daemons -> [Names -> [Owners -> 0..MaxEntries]]]
    BY <1>2 DEF Init
  <2>2. op \in [Daemons -> Ops]
    BY <1>1 DEF Init
  <2> QED
    BY <2>1, <2>2 DEF Init, TypeOK
<1>4. \A d \in Daemons : op[d] = Idle
  BY Zenon DEF Init
<1>5. \A d \in Daemons, n \in Names : /\ fd[d][n] = NoInode /\ lock[d][n] = "none"
                                      /\ ~Lease(d, n) /\ ~Pending(d, n)
  BY <1>1, <1>4 DEF Init, Lease, Pending
<1>6. OpInv
  BY Zenon, <1>1, <1>4 DEF OpInv, OpOK
<1>7. FileInv /\ OwnersInv /\ CompatInv /\ PathInv
  BY <1>1, <1>4, <1>5 DEF FileInv, OwnersInv, CompatInv, PathInv, FileOK, OwnersOK, CompatOK, UsesPath, At
<1> QED
  BY <1>3, <1>6, <1>7 DEF IInv

\* One step: the invariant is preserved, and the file of a leased resource stays.
LEMMA InvStep ==
  ASSUME IInv, [Next]_vars
  PROVE  /\ IInv'
         /\ \A n \in Autocreate : path[n] # NoInode /\ path'[n] # path[n] =>
              \A d \in Daemons : ~Lease(d, n)
<1> DEFINE Kept == \A n \in Autocreate : path[n] # NoInode /\ path'[n] # path[n] =>
                     \A d \in Daemons : ~Lease(d, n)
<1>a. TypeOK /\ OpInv
  BY DEF IInv
<1>t. TypeOK'
  BY <1>a, TypeStep
<1>u. CASE UNCHANGED path
  <2>1. Kept
    BY <1>u
  <2>2. CASE UNCHANGED vars
    BY <1>t, <1>u, <2>2, PathStep DEF vars
  <2>3. CASE Next
    <3>1. PICK d \in Daemons : Step(d)
      BY <2>3 DEF Next
    <3>2. ASSUME NEW n \in Names, NEW o \in Owners, AcquireShared(d, n, o) PROVE IInv'
      BY <1>t, <3>2, AcquireSharedStep
    <3>3. ASSUME NEW n \in Names, NEW o \in Owners, NEW isShared \in BOOLEAN,
                 Acquire(d, n, o, isShared)
          PROVE  IInv'
      BY <1>t, <3>3, AcquireStep
    <3>4. ASSUME NEW n \in Names, NEW o \in Owners, ReleaseResource(d, n, o) PROVE IInv'
      BY <1>t, <3>4, RemoveOwnerStep DEF ReleaseResource
    <3>5. ASSUME AcquireOpen(d) PROVE IInv'
      BY <1>t, <3>5, AcquireOpenStep
    <3>6. ASSUME AcquireLock(d) PROVE IInv'
      BY <1>t, <3>6, AcquireLockStep
    <3>7. ASSUME AcquireCheck(d) PROVE IInv'
      BY <1>t, <3>7, AcquireCheckStep
    <3>8. ASSUME NEW n \in Names, Free(d, n) PROVE IInv'
      BY <1>t, <3>8, FreeStep
    <3>9. ASSUME FreeUnlink(d) PROVE IInv'
      BY <1>t, <3>9, FreeUnlinkStep
    <3>10. ASSUME FreeClose(d) PROVE IInv'
      BY <1>t, <3>10, FreeCloseStep
    <3>11. ASSUME NEW n \in AdminNames, CreateResource(d, n) \/ DeleteResource(d, n) PROVE IInv'
      BY <1>t, <3>11, AdminStep
    <3>12. ASSUME NEW o \in Owners, Register(d, o) PROVE IInv'
      BY <1>t, <1>u, <3>12, PathStep DEF Register
    <3>13. ASSUME NEW o \in Owners, ClientFree(d, o) PROVE IInv'
      <4>1. {n \in Names : owners[d][n][o] > 0} \in SUBSET Names
        OBVIOUS
      <4>2. /\ op[d] = Idle /\ UNCHANGED <<path, fd, lock, shared>>
            /\ RemoveOwner(d, o, {n \in Names : owners[d][n][o] > 0})
        BY <3>13 DEF ClientFree
      <4> QED
        BY <1>t, <4>1, <4>2, RemoveOwnerStep
    <3>14. ASSUME Crash(d) PROVE IInv'
      BY <1>t, <3>14, CrashStep
    <3>15. IInv'
      BY Zenon, <3>1, <3>2, <3>3, <3>4, <3>5, <3>6, <3>7, <3>8, <3>9, <3>10, <3>11,
         <3>12, <3>13, <3>14 DEF Step
    <3> QED BY Zenon, <2>1, <3>15
  <2> QED
    BY <2>1, <2>2, <2>3
<1>v. CASE ~UNCHANGED path
  <2>1. PICK d \in Daemons : \/ AcquireOpen(d) \/ FreeUnlink(d)
                             \/ \E n \in AdminNames : CreateResource(d, n) \/ DeleteResource(d, n)
    <3>1. PICK d \in Daemons : Step(d)
      BY <1>v DEF Next, vars
    <3>2. \A n \in Names, o \in Owners :
            /\ AcquireShared(d, n, o) => UNCHANGED path
            /\ \A isShared \in BOOLEAN : Acquire(d, n, o, isShared) => UNCHANGED path
            /\ ReleaseResource(d, n, o) => UNCHANGED path
      BY Zenon DEF AcquireShared, Acquire, ReleaseResource
    <3>3. \A n \in Names : Free(d, n) => UNCHANGED path
      BY DEF Free
    <3>4. \A o \in Owners : Register(d, o) \/ ClientFree(d, o) => UNCHANGED path
      BY DEF Register, ClientFree
    <3>5. AcquireLock(d) \/ AcquireCheck(d) \/ FreeClose(d) \/ Crash(d) => UNCHANGED path
      BY DEF AcquireLock, AcquireCheck, FreeClose, Crash
    <3> QED
      BY <1>v, <3>1, <3>2, <3>3, <3>4, <3>5 DEF Step
  <2>2. CASE AcquireOpen(d)
    <3>1. op[d].name \in Names
      BY <1>a, <2>2 DEF OpInv, OpOK, AcquireOpen
    <3>2. PICK n \in Names : n = op[d].name
      BY <3>1
    <3>3. path[n] = NoInode /\ \E i \in Inodes : path' = [path EXCEPT ![n] = i]
      <4>1. OpenCreate(d, n)
        BY <1>v, <2>2, <3>2 DEF AcquireOpen
      <4>2. PICK i \in Inodes : /\ path[n] # NoInode => i = path[n]
                                /\ path' = [path EXCEPT ![n] = i]
        BY Zenon, <4>1 DEF OpenCreate
      <4>3. [path EXCEPT ![n] = path[n]] = path
        BY <1>a, Types
      <4> QED
        BY Zenon, <1>v, <4>2, <4>3
    <3>4. \A m \in Names \ {n} : path'[m] = path[m]
      BY <1>a, <3>3, Types
    <3> QED
      BY <1>t, <2>2, <3>3, <3>4, AcquireOpenStep
  <2>3. CASE FreeUnlink(d)
    BY Zenon, <1>t, <2>3, FreeUnlinkStep
  <2>4. CASE \E n \in AdminNames : CreateResource(d, n) \/ DeleteResource(d, n)
    BY <1>t, <2>4, AdminStep
  <2> QED
    BY <2>1, <2>2, <2>3, <2>4
<1> QED
  BY <1>u, <1>v

(***************************************************************************)
(* The theorems.                                                           *)
(***************************************************************************)

\* What a daemon has open and locked follows from its table and from the system
\* call its operation is at, in every reachable state of any number of daemons,
\* resources, owners and inodes.
THEOREM Invariant == Spec => []IInv
<1>1. IInv /\ [Next]_vars => IInv'
  BY InvStep
<1> QED
  BY InvInit, <1>1, PTL DEF Spec

\* virLockSpaceAcquireResource never gives two daemons a lease on a resource
\* created on demand unless both asked for a shared one.
THEOREM Exclusive == Spec => []LeaseExclusive
<1>1. IInv => LeaseExclusive
  <2> SUFFICES ASSUME IInv, NEW n \in Autocreate, NEW d \in Daemons, NEW e \in Daemons,
                      Lease(d, n), Lease(e, n), d # e
               PROVE  shared[d][n] /\ shared[e][n]
    BY DEF LeaseExclusive
  <2>1. fd[d][n] = fd[e][n]
    BY Zenon DEF IInv, PathInv, UsesPath
  <2>2. lock[d][n] = LockFor(shared[d][n]) /\ lock[e][n] = LockFor(shared[e][n])
    BY Zenon, At1 DEF FileOK
  <2>3. CompatOK(d, e, n) /\ CompatOK(e, d, n)
    BY At1
  <2>4. shared[d][n] \in BOOLEAN /\ shared[e][n] \in BOOLEAN
    BY Types DEF IInv
  <2> QED
    BY <2>1, <2>2, <2>3, <2>4 DEF CompatOK, LockFor
<1> QED
  BY Invariant, <1>1, PTL

\* The lock behind a lease on a file created on demand is on the file at the path:
\* the stat() after fcntl() and the exclusive lock before unlink() are enough.
THEOREM OnPath == Spec => []LeaseOnPath
<1>1. IInv => LeaseOnPath
  <2> SUFFICES ASSUME IInv, NEW n \in Autocreate, NEW d \in Daemons, Lease(d, n)
               PROVE  /\ fd[d][n] = path[n]
                      /\ lock[d][n] = IF shared[d][n] THEN "shared" ELSE "exclusive"
    BY DEF LeaseOnPath
  <2>1. fd[d][n] = path[n]
    BY Zenon DEF IInv, PathInv, UsesPath
  <2>2. lock[d][n] = LockFor(shared[d][n])
    BY At1 DEF FileOK
  <2> QED
    BY <2>1, <2>2 DEF LockFor
<1> QED
  BY Invariant, <1>1, PTL

\* Every entry of the hash table has an open, locked file behind it, and an entry
\* without VIR_LOCK_SPACE_ACQUIRE_SHARED has one owner.
THEOREM Backed == Spec => []LeaseBacked
<1>1. IInv => LeaseBacked
  <2> SUFFICES ASSUME IInv, NEW n \in Names, NEW d \in Daemons, Lease(d, n)
               PROVE  /\ fd[d][n] # NoInode /\ lock[d][n] # "none"
                      /\ ~shared[d][n] =>
                           \E o \in Owners : owners[d][n] = [NoOwners EXCEPT ![o] = 1]
    BY DEF LeaseBacked
  <2>1. fd[d][n] # NoInode /\ lock[d][n] # "none"
    BY Zenon, At1 DEF FileOK, LockFor
  <2>2. ~shared[d][n] => \E o \in Owners : owners[d][n] = [NoOwners EXCEPT ![o] = 1]
    BY Zenon, At1 DEF OwnersOK
  <2> QED
    BY Zenon, <2>1, <2>2
<1> QED
  BY Invariant, <1>1, PTL

\* No path through virLockSpaceResourceNew and virLockSpaceResourceFree leaves a
\* file open without an entry, or an entry without its file.
THEOREM NoLeak == Spec => []NoDescriptorLeak
<1>1. IInv => NoDescriptorLeak
  <2> SUFFICES ASSUME IInv, NEW n \in Names, NEW d \in Daemons, op[d].at = "idle"
               PROVE  (fd[d][n] # NoInode) <=> Lease(d, n)
    BY DEF NoDescriptorLeak
  <2>1. op[d].todo = {}
    BY At1 DEF OpOK, Idle
  <2> QED
    BY <2>1, At1 DEF FileOK, Pending, At
<1> QED
  BY Invariant, <1>1, PTL

\* virLockSpaceResourceFree deletes a file that was created on demand only when no
\* daemon has a lease on it.
THEOREM Deletion == Spec => DeleteUnleased
<1> DEFINE Kept == \A n \in Autocreate : path[n] # NoInode /\ path'[n] # path[n] =>
                     \A d \in Daemons : ~Lease(d, n)
<1>1. IInv /\ [Next]_vars => [Kept]_vars
  BY InvStep
<1> QED
  BY Invariant, <1>1, PTL DEF Spec, DeleteUnleased
=============================================================================
