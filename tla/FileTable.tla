------------------------------ MODULE FileTable ------------------------------
(***************************************************************************)
(* The files of one sandbox process: its descriptor table (linux/fd.c),    *)
(* its working directory (proc_chdir of linux/proc.c) and the system calls *)
(* that use them.  Several sandbox threads call at once; one action is     *)
(* what runs under fdtable.lk or cwd.lk, or one call of the host.          *)
(***************************************************************************)
EXTENDS Paths

CONSTANTS
    Thread,     \* sandbox threads
    None,       \* no file
    NoFile,     \* LINUX_NOFILE
    HostFds,    \* how many descriptors the host process may have open
    Std,        \* host files behind descriptors 0, 1, ... at the start
    HostFiles,  \* host paths of files
    HostDirs,   \* host paths of directories
    PathArg,    \* sandbox paths that system calls pass
    MaxIov      \* bound on the buffers of one readv or writev

ASSUME FileAssumption == NoFile \in Nat \ {0} /\ HostFds \in Nat \ {0} /\ MaxIov \in Nat \ {0}

\* The standard files fit in the table, and none of them is a directory.
ASSUME StdAssumption ==
    /\ \E n \in 0..NoFile : n < HostFds /\ DOMAIN Std = 1..n
    /\ \A i \in DOMAIN Std : Std[i] \notin HostDirs

\* What stands for a file, for none, for the embedder's and for no path differ.
ASSUME NameAssumption ==
    /\ None # <<"embedder">> /\ PathArg \subseteq Path /\ NoPath \notin PathArg
    /\ LET named == HostFiles \cup HostDirs \cup {Std[i] : i \in DOMAIN Std}
       IN  None \notin named /\ <<"embedder">> \notin named

VARIABLES
    host,   \* the open file behind each host descriptor, or None
    fds,    \* fdtable.fds
    dirs,   \* fdtable.dirs
    flags,  \* fdtable.flags: "rw" or "path" (O_PATH)
    cwd,    \* proc->cwd.path
    op,     \* what each thread's system call has reached
    alive   \* proc_destroy has not run

fileVars == <<host, fds, dirs, flags, cwd, op, alive>>

Slot == 0..(NoFile - 1)
HostFd == 0..(HostFds - 1)
File == HostFiles \cup HostDirs \cup {Std[i] : i \in DOMAIN Std}
Embedder == 0  \* a host descriptor of the embedding program
Calls == {"read", "other"}

NoOp == [at |-> "idle", fd |-> 0, kfd |-> -1, call |-> "other", path |-> NoPath, hostPath |-> NoPath,
         flags |-> "rw", left |-> 0, file |-> None]

\* fdinit: the standard descriptors are private duplicates.
FileInit ==
    /\ host = [h \in HostFd |-> IF h = Embedder THEN <<"embedder">>
                                ELSE IF h \in DOMAIN Std THEN Std[h] ELSE None]
    /\ fds = [s \in Slot |-> IF s + 1 \in DOMAIN Std THEN s + 1 ELSE -1]
    /\ dirs = [s \in Slot |-> NoPath]
    /\ flags = [s \in Slot |-> "rw"]
    /\ cwd \in {<<"/">>, <<>>}
    /\ op = [t \in Thread |-> NoOp]
    /\ alive = TRUE

-----------------------------------------------------------------------------
Least(S) == CHOOSE x \in S : \A y \in S : x <= y
FreeHost == {h \in HostFd : host[h] = None}
FreeSlots == {s \in Slot : fds[s] = -1}
Open(s) == s \in Slot /\ fds[s] # -1

Idle(t) == alive /\ op[t].at = "idle"
Done(t) == op' = [op EXCEPT ![t] = NoOp]

\* dup and open take the lowest free number of the host process.
HostOpens(h, f) == FreeHost # {} /\ h = Least(FreeHost) /\ host' = [host EXCEPT ![h] = f]

-----------------------------------------------------------------------------
(* openat. *)

OpenResolve(t, p, fl) ==
    /\ Idle(t)
    /\ Resolve(cwd, p) # NoPath
    /\ op' = [op EXCEPT ![t] = [NoOp EXCEPT !.at = "resolved", !.path = p,
                                            !.hostPath = Resolve(cwd, p), !.flags = fl]]
    /\ UNCHANGED <<host, fds, dirs, flags, cwd, alive>>

OpenHost(t) ==
    /\ op[t].at = "resolved"
    /\ \/ /\ op[t].hostPath \in HostFiles \cup HostDirs
          /\ \E h \in HostFd : /\ HostOpens(h, op[t].hostPath)
                               /\ op' = [op EXCEPT ![t].at = "opened", ![t].kfd = h]
       \/ Done(t) /\ UNCHANGED host
    /\ UNCHANGED <<fds, dirs, flags, cwd, alive>>

\* fdalloc; a directory keeps the path the sandbox passed.  host_checkdir looks
\* at the path, not at the open file: the host's directories stay what they are.
Install(t) ==
    /\ op[t].at = "opened"
    /\ LET s == Least(FreeSlots) IN
       IF FreeSlots = {}
       THEN /\ op' = [op EXCEPT ![t].at = "full"]
            /\ UNCHANGED <<fds, dirs, flags>>
       ELSE /\ fds' = [fds EXCEPT ![s] = op[t].kfd]
            /\ dirs' = [dirs EXCEPT ![s] = IF op[t].hostPath \in HostDirs THEN op[t].path ELSE NoPath]
            /\ flags' = [flags EXCEPT ![s] = op[t].flags]
            /\ Done(t)
    /\ UNCHANGED <<host, cwd, alive>>

\* Mutation: fdalloc failed and the host descriptor is forgotten.
OpenForget(t) ==
    /\ op[t].at = "full"
    /\ Done(t)
    /\ UNCHANGED <<host, fds, dirs, flags, cwd, alive>>

OpenUndo(t) ==
    /\ op[t].at = "full"
    /\ host' = [host EXCEPT ![op[t].kfd] = None]
    /\ Done(t)
    /\ UNCHANGED <<fds, dirs, flags, cwd, alive>>

-----------------------------------------------------------------------------
(* Calls on a descriptor: read, write, pread64, pwrite64, lseek, fstat,    *)
(* ftruncate, fsync, fchmod, fchown, getdents64 and mmap of a file; readv  *)
(* and writev repeat the whole of read and write for each buffer.          *)

Refused(fd, call) ==
    \/ ~Open(fd)
    \/ call = "read" /\ (flags[fd] = "path" \/ dirs[fd] # NoPath)

\* Mutation: the table's own descriptor is handed out.
AcquireRaw(t, fd, call, left) ==
    /\ ~Refused(fd, call)
    /\ op' = [op EXCEPT ![t] = [NoOp EXCEPT !.at = "acquired", !.fd = fd, !.kfd = fds[fd],
                                  !.call = call, !.left = left]]
    /\ UNCHANGED <<host, fds, dirs, flags, cwd, alive>>

\* fdacquire
Acquire(t, fd, call, left) ==
    /\ ~Refused(fd, call)
    /\ \E h \in HostFd :
          /\ HostOpens(h, host[fds[fd]])
          /\ op' = [op EXCEPT ![t] = [NoOp EXCEPT !.at = "acquired", !.fd = fd, !.kfd = h,
                                        !.call = call, !.left = left]]
    /\ UNCHANGED <<fds, dirs, flags, cwd, alive>>

StartCall(t, fd, call, n) == Idle(t) /\ Acquire(t, fd, call, n - 1)

\* The host call has been made; fdrelease, and the next buffer if there is one.
Release(t) ==
    /\ op[t].at = "acquired"
    /\ host' = [host EXCEPT ![op[t].kfd] = None]
    /\ \/ op[t].left > 0 /\ op' = [op EXCEPT ![t].at = "next", ![t].kfd = -1]
       \/ Done(t)
    /\ UNCHANGED <<fds, dirs, flags, cwd, alive>>

NextBuffer(t) ==
    /\ op[t].at = "next"
    /\ \/ Acquire(t, op[t].fd, op[t].call, op[t].left - 1)
       \/ Refused(op[t].fd, op[t].call) /\ Done(t) /\ UNCHANGED <<host, fds, dirs, flags, cwd, alive>>

-----------------------------------------------------------------------------
(* dup, dup3, close: all of each under fdtable.lk. *)

\* Mutation: the directory mark stays with the old descriptor.
CopySlotOnly(old, new, h) ==
    /\ fds' = [fds EXCEPT ![new] = h]
    /\ flags' = [flags EXCEPT ![new] = flags[old]]
    /\ UNCHANGED dirs

\* What fddup2 does to the table once the host has duplicated the file.
CopySlot(old, new, h) ==
    /\ fds' = [fds EXCEPT ![new] = h]
    /\ dirs' = [dirs EXCEPT ![new] = dirs[old]]
    /\ flags' = [flags EXCEPT ![new] = flags[old]]

Dup(t, old) ==
    /\ Idle(t) /\ Open(old) /\ FreeSlots # {}
    /\ \E h \in HostFd : HostOpens(h, host[fds[old]]) /\ CopySlot(old, Least(FreeSlots), h)
    /\ UNCHANGED <<cwd, op, alive>>

\* dup2 on the host when the slot is taken: the number stays, the file changes.
\* (To -1 it is Dup.)
Dup3(t, old, new) ==
    /\ Idle(t) /\ Open(old) /\ new \in Slot /\ new # old
    /\ \E h \in HostFd :
          /\ IF Open(new) THEN h = fds[new] /\ host' = [host EXCEPT ![h] = host[fds[old]]]
                          ELSE HostOpens(h, host[fds[old]])
          /\ CopySlot(old, new, h)
    /\ UNCHANGED <<cwd, op, alive>>

Close(t, fd) ==
    /\ Idle(t) /\ Open(fd)
    /\ host' = [host EXCEPT ![fds[fd]] = None]
    /\ fds' = [fds EXCEPT ![fd] = -1]
    /\ dirs' = [dirs EXCEPT ![fd] = NoPath]
    /\ flags' = [flags EXCEPT ![fd] = "rw"]
    /\ UNCHANGED <<cwd, op, alive>>

-----------------------------------------------------------------------------
(* The working directory. *)

IsHostDir(p) == Resolve(cwd, p) \in HostDirs  \* chdircheck

\* proc_chdir: an absolute path is kept as it was passed.
NewCwd(p) == IF IsAbsolute(p) THEN p ELSE Join(cwd, p)
ProcChdir(p) ==
    IF (IsAbsolute(p) \/ cwd # <<>>) /\ IsHostDir(NewCwd(p)) THEN cwd' = NewCwd(p) ELSE UNCHANGED cwd

Chdir(t, p) ==
    /\ Idle(t)
    /\ ProcChdir(p)
    /\ UNCHANGED <<host, fds, dirs, flags, op, alive>>

\* The path is copied under fdtable.lk and used after it was released.
FchdirCopy(t, fd) ==
    /\ Idle(t) /\ Open(fd) /\ dirs[fd] # NoPath
    /\ op' = [op EXCEPT ![t] = [NoOp EXCEPT !.at = "fchdir", !.path = dirs[fd],
                                            !.file = host[fds[fd]]]]
    /\ UNCHANGED <<host, fds, dirs, flags, cwd, alive>>

Fchdir(t) ==
    /\ op[t].at = "fchdir"
    /\ ProcChdir(op[t].path)
    /\ Done(t)
    /\ UNCHANGED <<host, fds, dirs, flags, alive>>

\* fdfree, from proc_destroy when no thread is left.
FreeTable ==
    /\ alive /\ \A t \in Thread : Idle(t)
    /\ alive' = FALSE
    /\ host' = [h \in HostFd |-> IF \E s \in Slot : fds[s] = h THEN None ELSE host[h]]
    /\ fds' = [s \in Slot |-> -1]
    /\ dirs' = [s \in Slot |-> IF fds[s] = -1 THEN dirs[s] ELSE NoPath]
    /\ UNCHANGED <<flags, cwd, op>>

FileNext ==
    \/ \E t \in Thread :
          \/ \E p \in PathArg : Chdir(t, p) \/ \E fl \in {"rw", "path"} : OpenResolve(t, p, fl)
          \/ OpenHost(t) \/ Install(t) \/ OpenUndo(t)
          \/ \E fd \in Slot :
                \/ \E call \in Calls, n \in 1..MaxIov : StartCall(t, fd, call, n)
                \/ Dup(t, fd) \/ Close(t, fd) \/ FchdirCopy(t, fd)
                \/ \E new \in Slot : Dup3(t, fd, new)
          \/ Release(t) \/ NextBuffer(t) \/ Fchdir(t)
    \/ FreeTable

FileSpec == FileInit /\ [][FileNext]_fileVars

-----------------------------------------------------------------------------
TypeOK ==
    /\ host \in [HostFd -> File \cup {<<"embedder">>, None}]
    /\ fds \in [Slot -> HostFd \cup {-1}]
    /\ DOMAIN dirs = Slot /\ \A s \in Slot : dirs[s] \in PathArg \cup {NoPath}
    /\ flags \in [Slot -> {"rw", "path"}]
    /\ cwd = <<>> \/ IsAbsolute(cwd)
    /\ \A t \in Thread :
          /\ op[t].at \in {"idle", "resolved", "opened", "full", "acquired", "next", "fchdir"}
          /\ op[t].kfd \in HostFd \cup {-1} /\ op[t].fd \in Slot /\ op[t].left \in 0..(MaxIov - 1)
          /\ op[t].call \in Calls /\ op[t].file \in File \cup {None}
    /\ alive \in BOOLEAN

\* Every open host descriptor is the embedder's or has one owner, a slot or a
\* call in flight, and everything owned is open: whatever the order of opens
\* that find the table full, dups onto taken slots, closes and calls, nothing
\* is leaked, closed twice or closed under its owner, and the embedder's own
\* descriptors are left alone.
HostOwned ==
    LET inSlot == {s \in Slot : fds[s] # -1}
        inCall == {t \in Thread : op[t].kfd # -1}
    IN  /\ host[Embedder] = <<"embedder">>
        /\ {h \in HostFd : host[h] # None} = {Embedder} \cup {fds[s] : s \in inSlot}
                                                          \cup {op[t].kfd : t \in inCall}
        /\ \A s \in inSlot : fds[s] # Embedder
        /\ \A t \in inCall : op[t].kfd # Embedder
        /\ \A s, u \in inSlot : fds[s] = fds[u] => s = u
        /\ \A t, u \in inCall : op[t].kfd = op[u].kfd => t = u
        /\ \A s \in inSlot, t \in inCall : fds[s] # op[t].kfd

\* The directory mark of a slot goes with the file behind it through dup, dup3,
\* close and reuse, and a read that passed the checks works on a file that is no
\* directory.
MarksSound ==
    /\ \A s \in Slot : dirs[s] # NoPath <=> fds[s] # -1 /\ host[fds[s]] \in HostDirs
    /\ \A s \in Slot : fds[s] = -1 /\ alive => flags[s] = "rw"
    /\ \A t \in Thread : op[t].at = "acquired" /\ op[t].call = "read" => host[op[t].kfd] \notin HostDirs

\* path_resolve finds the host path that the path means, read from the working
\* directory and through the mapping of the closest enclosing directory, unless
\* a buffer was too short for it.
SoundFor(paths) ==
    cwd # <<>> => \A p \in paths :
        LET place == Place(cwd, p) IN
        2 * Len(place) <= MaxPath /\ Len(Located(cwd, p)) <= MaxPath => Resolve(cwd, p) = Located(cwd, p)

\* The table implements Descriptors: a call works on the file its descriptor
\* meant when the call looked it up, whatever is closed, opened or replaced
\* before it ends, and a slot changes only by an operation on it.
Table == INSTANCE Descriptors WITH
           tab <- [s \in Slot |-> IF fds[s] = -1 THEN None ELSE host[fds[s]]],
           using <- [t \in Thread |-> IF op[t].at = "acquired" THEN host[op[t].kfd] ELSE None]
TableSpec == Table!Spec

=============================================================================
