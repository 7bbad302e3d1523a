----------------------------- MODULE LockSpace -----------------------------
(***************************************************************************)
(* virLockSpace (virlockspace.c): leases on resources, kept as advisory    *)
(* file locks in a directory that several lock daemons share, and the      *)
(* release of a client's leases by virtlockd (lock_daemon.c).              *)
(*                                                                         *)
(* lockspace->lock serialises the operations of one daemon; the system     *)
(* calls of different daemons interleave, so each one is an action.        *)
(***************************************************************************)
EXTENDS Integers

CONSTANTS
  Daemons,     \* lock daemons that share the directory
  Names,       \* resource names
  NoName,
  Autocreate,  \* names acquired with VIR_LOCK_SPACE_ACQUIRE_AUTOCREATE
  AdminNames,  \* names passed to virLockSpaceCreateResource and DeleteResource
  Owners,      \* owner pids
  NoOwner,
  Inodes,      \* inode numbers
  NoInode,
  MaxEntries   \* bound on the entries of one owner in a resource

ASSUME LockSpaceAssumption ==
  /\ Autocreate \subseteq Names /\ AdminNames \subseteq Names \ Autocreate
  /\ NoName \notin Names /\ NoOwner \notin Owners /\ NoInode \notin Inodes
  /\ MaxEntries \in Nat \ {0}

VARIABLES
  path,     \* the inode each resource path names
  fd,       \* res->fd: the inode each daemon has open for a name
  lock,     \* the advisory lock a daemon has on that inode
  owners,   \* res->owners of each daemon's table: how often it lists each owner
  shared,   \* VIR_LOCK_SPACE_ACQUIRE_SHARED in res->flags, FALSE without a res
  op,       \* the operation each daemon is in the middle of
  clients   \* the owners connected to each daemon

\* No resource in the hash table: a resource has at least one owner.
NoOwners == [o \in Owners |-> 0]

vars == <<path, fd, lock, owners, shared, op, clients>>

\* at: the next system call; name, owner, shared: the arguments of the operation;
\* todo: resources removed from the hash table and not yet freed.
Idle == [at |-> "idle", name |-> NoName, owner |-> NoOwner, shared |-> FALSE, todo |-> {}]

Ops == [at: {"idle", "open", "lock", "check", "free", "unlink", "close"},
        name: Names \cup {NoName}, owner: Owners \cup {NoOwner}, shared: BOOLEAN,
        todo: SUBSET Names]

(***************************************************************************)
(* The file system.                                                        *)
(***************************************************************************)

\* open(O_CREAT) of a path without a file takes an inode nobody has open.
OpenCreate(d, n) ==
  \E i \in Inodes :
    /\ IF path[n] # NoInode THEN i = path[n]
       ELSE \A e \in Daemons : fd[e][n] # i
    /\ path' = [path EXCEPT ![n] = i]
    /\ fd' = [fd EXCEPT ![d][n] = i]

\* Mutation: shared locks do not conflict with an exclusive one.
CanLock_OverShared(d, n, isShared) ==
  \A e \in Daemons \ {d} : fd[e][n] = fd[d][n] => lock[e][n] # "exclusive"

\* fcntl(F_SETLK) succeeds: no other daemon has a conflicting lock on the inode.
CanLock(d, n, isShared) ==
  \A e \in Daemons \ {d} :
    fd[e][n] = fd[d][n] => lock[e][n] = "none" \/ (isShared /\ lock[e][n] = "shared")

\* close() drops the lock.
Close(d, n) ==
  /\ fd' = [fd EXCEPT ![d][n] = NoInode]
  /\ lock' = [lock EXCEPT ![d][n] = "none"]

(***************************************************************************)
(* virLockSpaceAcquireResource.                                            *)
(***************************************************************************)

\* Mutation: the flags of the existing resource are not looked at.
AcquireShared_Any(d, n, o) ==
  /\ op[d] = Idle /\ o \in clients[d]
  /\ owners[d][n] # NoOwners /\ owners[d][n][o] < MaxEntries
  /\ owners' = [owners EXCEPT ![d][n][o] = @ + 1]
  /\ UNCHANGED <<path, fd, lock, shared, op, clients>>

\* The resource is in the hash table already.
AcquireShared(d, n, o) ==
  /\ op[d] = Idle /\ o \in clients[d]
  /\ owners[d][n] # NoOwners /\ shared[d][n]
  /\ owners[d][n][o] < MaxEntries
  /\ owners' = [owners EXCEPT ![d][n][o] = @ + 1]
  /\ UNCHANGED <<path, fd, lock, shared, op, clients>>

Acquire(d, n, o, isShared) ==
  /\ op[d] = Idle /\ o \in clients[d]
  /\ owners[d][n] = NoOwners
  /\ op' = [op EXCEPT ![d] = [Idle EXCEPT !.at = "open", !.name = n, !.owner = o,
                                          !.shared = isShared]]
  /\ UNCHANGED <<path, fd, lock, owners, shared, clients>>

\* virLockSpaceResourceNew: open the file, give up if it has to exist and does not.
AcquireOpen(d) ==
  LET n == op[d].name IN
  /\ op[d].at = "open"
  /\ \/ /\ n \in Autocreate
        /\ OpenCreate(d, n)
        /\ op' = [op EXCEPT ![d].at = "lock"]
     \/ /\ n \notin Autocreate /\ path[n] # NoInode
        /\ fd' = [fd EXCEPT ![d][n] = path[n]]
        /\ op' = [op EXCEPT ![d].at = "lock"]
        /\ UNCHANGED path
     \/ /\ n \notin Autocreate /\ path[n] = NoInode
        /\ op' = [op EXCEPT ![d] = Idle]
        /\ UNCHANGED <<path, fd>>
  /\ UNCHANGED <<lock, owners, shared, clients>>

\* The hash table gets an entry with its first owner.
AddResource(d, n) ==
  /\ owners' = [owners EXCEPT ![d][n] = [NoOwners EXCEPT ![op[d].owner] = 1]]
  /\ shared' = [shared EXCEPT ![d][n] = op[d].shared]
  /\ op' = [op EXCEPT ![d] = Idle]

AcquireLock(d) ==
  LET n == op[d].name IN
  /\ op[d].at = "lock"
  /\ \/ /\ ~CanLock(d, n, op[d].shared)
        /\ Close(d, n)
        /\ op' = [op EXCEPT ![d] = Idle]
        /\ UNCHANGED <<owners, shared>>
     \/ /\ CanLock(d, n, op[d].shared)
        /\ lock' = [lock EXCEPT ![d][n] = IF op[d].shared THEN "shared" ELSE "exclusive"]
        /\ IF n \in Autocreate
           THEN op' = [op EXCEPT ![d].at = "check"] /\ UNCHANGED <<owners, shared>>
           ELSE AddResource(d, n)
        /\ UNCHANGED fd
  /\ UNCHANGED <<path, clients>>

\* Mutation: the path is not looked at again.
AcquireCheck_None(d) ==
  /\ op[d].at = "check"
  /\ AddResource(d, op[d].name)
  /\ UNCHANGED <<fd, lock, path, clients>>

\* stat(): the file that was locked must still be the one at the path.
AcquireCheck(d) ==
  LET n == op[d].name IN
  /\ op[d].at = "check"
  /\ \/ path[n] = fd[d][n] /\ AddResource(d, n) /\ UNCHANGED <<fd, lock>>
     \/ /\ path[n] # fd[d][n]
        /\ Close(d, n)
        /\ op' = [op EXCEPT ![d].at = "open"]
        /\ UNCHANGED <<owners, shared>>
  /\ UNCHANGED <<path, clients>>

(***************************************************************************)
(* virLockSpaceReleaseResource and virLockSpaceReleaseResourcesForOwner.   *)
(***************************************************************************)

\* Remove one entry of owner o for each of the names and free the resources left
\* without one.
RemoveOwner(d, o, names) ==
  LET left == [n \in Names |-> IF n \in names
                               THEN [owners[d][n] EXCEPT ![o] = @ - 1]
                               ELSE owners[d][n]]
      empty == {n \in names : left[n] = NoOwners}
  IN /\ owners' = [owners EXCEPT ![d] = left]
     /\ op' = [op EXCEPT ![d] = IF empty = {} THEN Idle
                                ELSE [Idle EXCEPT !.at = "free", !.todo = empty]]

ReleaseResource(d, n, o) ==
  /\ op[d] = Idle /\ o \in clients[d]
  /\ owners[d][n][o] > 0
  /\ RemoveOwner(d, o, {n})
  /\ UNCHANGED <<path, fd, lock, shared, clients>>

\* The client of an owner closes its connection (virLockDaemonClientFree).
ClientFree(d, o) ==
  /\ op[d] = Idle /\ o \in clients[d]
  /\ RemoveOwner(d, o, {n \in Names : owners[d][n][o] > 0})
  /\ clients' = [clients EXCEPT ![d] = @ \ {o}]
  /\ UNCHANGED <<path, fd, lock, shared>>

\* Mutation: a shared lock is not upgraded before the file is deleted.
Free_Shared(d, n) ==
  /\ op[d].at = "free" /\ n \in op[d].todo
  /\ op' = [op EXCEPT ![d].at = IF n \in Autocreate THEN "unlink" ELSE "close",
                      ![d].name = n, ![d].todo = @ \ {n}]
  /\ UNCHANGED <<lock, path, fd, owners, shared, clients>>

\* virLockSpaceResourceFree: a file created on demand is deleted, but only under
\* an exclusive lock.
Free(d, n) ==
  LET Continue(at) == op' = [op EXCEPT ![d].at = at, ![d].name = n, ![d].todo = @ \ {n}] IN
  /\ op[d].at = "free" /\ n \in op[d].todo
  /\ \/ /\ n \in Autocreate /\ shared[d][n] /\ CanLock(d, n, FALSE)
        /\ lock' = [lock EXCEPT ![d][n] = "exclusive"]
        /\ Continue("unlink")
     \/ n \in Autocreate /\ ~shared[d][n] /\ Continue("unlink") /\ UNCHANGED lock
     \/ /\ n \in Autocreate => shared[d][n] /\ ~CanLock(d, n, FALSE)
        /\ Continue("close")
        /\ UNCHANGED lock
  /\ UNCHANGED <<path, fd, owners, shared, clients>>

FreeUnlink(d) ==
  /\ op[d].at = "unlink"
  /\ path' = [path EXCEPT ![op[d].name] = NoInode]
  /\ op' = [op EXCEPT ![d].at = "close"]
  /\ UNCHANGED <<fd, lock, owners, shared, clients>>

\* Mutation: only the first resource is freed.
FreeClose_First(d) ==
  /\ op[d].at = "close"
  /\ Close(d, op[d].name)
  /\ shared' = [shared EXCEPT ![d][op[d].name] = FALSE]
  /\ op' = [op EXCEPT ![d] = Idle]
  /\ UNCHANGED <<path, owners, clients>>

FreeClose(d) ==
  /\ op[d].at = "close"
  /\ Close(d, op[d].name)
  /\ shared' = [shared EXCEPT ![d][op[d].name] = FALSE]
  /\ op' = [op EXCEPT ![d] = IF @.todo = {} THEN Idle
                             ELSE [Idle EXCEPT !.at = "free", !.todo = op[d].todo]]
  /\ UNCHANGED <<path, owners, clients>>

(***************************************************************************)
(* The rest of the interface.                                              *)
(***************************************************************************)

CreateResource(d, n) ==
  /\ op[d] = Idle /\ owners[d][n] = NoOwners
  /\ path[n] = NoInode
  /\ \E i \in Inodes : /\ \A e \in Daemons : fd[e][n] # i
                        /\ path' = [path EXCEPT ![n] = i]
  /\ UNCHANGED <<fd, lock, owners, shared, op, clients>>

DeleteResource(d, n) ==
  /\ op[d] = Idle /\ owners[d][n] = NoOwners
  /\ path' = [path EXCEPT ![n] = NoInode]
  /\ UNCHANGED <<fd, lock, owners, shared, op, clients>>

\* A client connects and registers its owner pid.
Register(d, o) ==
  /\ o \notin clients[d]
  /\ clients' = [clients EXCEPT ![d] = @ \cup {o}]
  /\ UNCHANGED <<path, fd, lock, owners, shared, op>>

\* A lock daemon dies at any point; the kernel closes its files.
Crash(d) ==
  /\ fd' = [fd EXCEPT ![d] = [n \in Names |-> NoInode]]
  /\ lock' = [lock EXCEPT ![d] = [n \in Names |-> "none"]]
  /\ owners' = [owners EXCEPT ![d] = [n \in Names |-> NoOwners]]
  /\ shared' = [shared EXCEPT ![d] = [n \in Names |-> FALSE]]
  /\ op' = [op EXCEPT ![d] = Idle]
  /\ clients' = [clients EXCEPT ![d] = {}]
  /\ UNCHANGED path

Init ==
  /\ path = [n \in Names |-> NoInode]
  /\ fd = [d \in Daemons |-> [n \in Names |-> NoInode]]
  /\ lock = [d \in Daemons |-> [n \in Names |-> "none"]]
  /\ owners = [d \in Daemons |-> [n \in Names |-> NoOwners]]
  /\ shared = [d \in Daemons |-> [n \in Names |-> FALSE]]
  /\ op = [d \in Daemons |-> Idle]
  /\ clients = [d \in Daemons |-> {}]

\* A step of one daemon.
Step(d) ==
  \/ \E n \in Names, o \in Owners :
       \/ AcquireShared(d, n, o)
       \/ \E isShared \in BOOLEAN : Acquire(d, n, o, isShared)
       \/ ReleaseResource(d, n, o)
  \/ AcquireOpen(d) \/ AcquireLock(d) \/ AcquireCheck(d)
  \/ \E n \in Names : Free(d, n)
  \/ FreeUnlink(d) \/ FreeClose(d)
  \/ \E n \in AdminNames : CreateResource(d, n) \/ DeleteResource(d, n)
  \/ \E o \in Owners : Register(d, o) \/ ClientFree(d, o)
  \/ Crash(d)

Next == \E d \in Daemons : Step(d)

Spec == Init /\ [][Next]_vars

(***************************************************************************)
(* Properties.                                                             *)
(***************************************************************************)

\* The tables, locks and operations have their types.
TypeOK ==
  /\ path \in [Names -> Inodes \cup {NoInode}]
  /\ fd \in [Daemons -> [Names -> Inodes \cup {NoInode}]]
  /\ lock \in [Daemons -> [Names -> {"none", "shared", "exclusive"}]]
  /\ owners \in [Daemons -> [Names -> [Owners -> 0..MaxEntries]]]
  /\ shared \in [Daemons -> [Names -> BOOLEAN]]
  /\ op \in [Daemons -> Ops]
  /\ clients \in [Daemons -> SUBSET Owners]

Lease(d, n) == owners[d][n] # NoOwners

\* A resource whose file is created on demand is leased exclusively by one daemon
\* or shared by all that lease it, although files are created, locked and deleted
\* by daemons that know of each other only through the file system.  Of files that
\* are created and deleted explicitly it says nothing, see DeleteUnleased.
LeaseExclusive ==
  \A n \in Autocreate, d, e \in Daemons :
    Lease(d, n) /\ Lease(e, n) /\ d # e => shared[d][n] /\ shared[e][n]

\* The lock behind a lease on a file created on demand is on the file that is at
\* the path now, so the next daemon to come will find it: no daemon keeps a lock
\* on a file that another one has deleted.
LeaseOnPath ==
  \A n \in Autocreate, d \in Daemons :
    Lease(d, n) => /\ fd[d][n] = path[n]
                   /\ lock[d][n] = IF shared[d][n] THEN "shared" ELSE "exclusive"

\* Every lease, of a file created on demand or beforehand, has an open and locked
\* file behind it until it is released, and an exclusive one has a single owner.
LeaseBacked ==
  \A n \in Names, d \in Daemons :
    Lease(d, n) => /\ fd[d][n] # NoInode /\ lock[d][n] # "none"
                   /\ ~shared[d][n] => \E o \in Owners : owners[d][n] = [NoOwners EXCEPT ![o] = 1]

\* Between operations a daemon has a file open exactly for the resources in its
\* table: no path through failure, retry and release leaks a descriptor, or a
\* lock with it.
NoDescriptorLeak ==
  \A d \in Daemons, n \in Names :
    op[d].at = "idle" => ((fd[d][n] # NoInode) <=> Lease(d, n))

\* A file created on demand is deleted only when no daemon has a lease on it.  The
\* other files are left out, because the code does not promise this of them:
\* virLockSpaceDeleteResource looks in the table of its own daemon only and
\* unlinks a file that another daemon leases.
DeleteUnleased ==
  [][\A n \in Autocreate :
       path[n] # NoInode /\ path'[n] # path[n] =>
         \A d \in Daemons : ~Lease(d, n)]_vars

\* virLockDaemonClientFree: "Release all locks associated with this owner in all
\* lockspaces".  No lease is left to an owner that is not connected.
LeasesHaveClients ==
  \A d \in Daemons, n \in Names : \A o \in Owners :
    owners[d][n][o] > 0 => o \in clients[d]

(***************************************************************************)
(* The strengthening that makes the invariants inductive.                  *)
(***************************************************************************)

LockFor(isShared) == IF isShared THEN "shared" ELSE "exclusive"

\* d is at one of the given steps of its operation, with resource n.
At(d, n, steps) == op[d].at \in steps /\ op[d].name = n

\* d has taken the resource out of its table, with file and lock, and has not
\* started to free it.
Pending(d, n) == n \in op[d].todo

OpOK(d) ==
  /\ op[d].at = "idle" => op[d] = Idle
  /\ op[d].at \in {"open", "lock", "check"} =>
       op[d].todo = {} /\ op[d].name \in Names /\ op[d].owner \in Owners
  /\ op[d].at = "free" => op[d].name = NoName
  /\ op[d].at \in {"unlink", "close"} => op[d].name \in Names \ op[d].todo
  /\ op[d].at \in {"check", "unlink"} => op[d].name \in Autocreate

\* Which file a daemon has open for a resource, and with which lock.
FileOK(d, n) ==
  /\ lock[d][n] # "none" => fd[d][n] # NoInode
  /\ fd[d][n] # NoInode =>
       Lease(d, n) \/ Pending(d, n) \/ At(d, n, {"lock", "check", "unlink", "close"})
  /\ Lease(d, n) => /\ ~Pending(d, n)
                    /\ ~At(d, n, {"open", "lock", "check", "unlink", "close"})
  /\ Lease(d, n) \/ Pending(d, n) =>
       fd[d][n] # NoInode /\ lock[d][n] = LockFor(shared[d][n])
  /\ At(d, n, {"lock"}) => fd[d][n] # NoInode /\ lock[d][n] = "none"
  /\ At(d, n, {"check"}) => lock[d][n] = LockFor(op[d].shared)
  /\ At(d, n, {"unlink"}) => lock[d][n] = "exclusive"

\* Two locks on one inode are compatible.
CompatOK(d, e, n) ==
  fd[d][n] = fd[e][n] /\ lock[d][n] = "exclusive" => lock[e][n] = "none"

\* Who relies on the file at the path, or may delete it.
UsesPath(d, n) == Lease(d, n) \/ Pending(d, n) \/ At(d, n, {"unlink"})

\* An exclusive lease has one owner.
OwnersOK(d, n) ==
  Lease(d, n) /\ ~shared[d][n] => \E o \in Owners : owners[d][n] = [NoOwners EXCEPT ![o] = 1]

OpInv == \A d \in Daemons : OpOK(d)
FileInv == \A d \in Daemons, n \in Names : FileOK(d, n)
OwnersInv == \A d \in Daemons, n \in Names : OwnersOK(d, n)
CompatInv == \A d, e \in Daemons, n \in Names : d # e => CompatOK(d, e, n)
PathInv == \A d \in Daemons, n \in Autocreate : UsesPath(d, n) => fd[d][n] = path[n]

\* The inductive invariant: what a daemon has open and locked follows from its
\* table and from the step of its operation, locks on one inode are compatible,
\* and leases are on the file at the path.
IInv == TypeOK /\ OpInv /\ FileInv /\ CompatInv /\ PathInv /\ OwnersInv
=============================================================================
