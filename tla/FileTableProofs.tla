---------------------------- MODULE FileTableProofs ----------------------------
(***************************************************************************)
(* Descriptors of the host are neither leaked nor closed under their user, *)
(* directory marks follow their files, and the table implements            *)
(* Descriptors, for any number of threads, slots and host descriptors.     *)
(* The proof gives every open host descriptor but the embedder's exactly   *)
(* one owner: a slot of the table, or a call that has opened or duplicated *)
(* it and not yet installed, undone or released it.                        *)
(*                                                                         *)
(* Paths are resolved to what they mean, for paths of any length and any   *)
(* nested mappings.  Walking a path and normalising it both keep the names *)
(* that no later ".." takes back (Kept), listed in the order of the path   *)
(* (Lists).  Of two beginnings shared with the same path the longer one is *)
(* below the other, so the longest match is the closest mapping around.    *)
(* The last theorem is about the paths of MCFiles.                         *)
(***************************************************************************)
EXTENDS MCFiles, FiniteSetTheorems, SequenceTheorems, WellFoundedInduction, TLAPS

Content == File \cup {<<"embedder">>, None}
Owning == {"opened", "full", "acquired"}
Stage == {"idle", "resolved", "opened", "full", "acquired", "next", "fchdir"}

\* The host path is what path_resolve returned, whatever that is.
OpOf(path) ==
    [at : Stage, fd : Slot, kfd : HostFd \cup {-1}, call : Calls, path : PathArg \cup {NoPath},
     hostPath : {path}, flags : {"rw", "path"}, left : Int, file : Content]

FileTypes ==
    /\ host \in [HostFd -> Content]
    /\ fds \in [Slot -> HostFd \cup {-1}]
    /\ dirs \in [Slot -> PathArg \cup {NoPath}]
    /\ flags \in [Slot -> {"rw", "path"}]
    /\ op = [t \in Thread |-> op[t]] /\ \A t \in Thread : op[t] \in OpOf(op[t].hostPath)
    /\ alive \in BOOLEAN

\* A call owns a host descriptor from the host's answer to its last step.
Stages ==
    \A t \in Thread :
        /\ op[t].kfd # -1 <=> op[t].at \in Owning
        /\ op[t].at # "idle" => alive

\* Owned descriptors are open, and nobody shares one.
Apart ==
    /\ host[Embedder] = <<"embedder">>
    /\ \A s \in Slot : fds[s] # -1 => fds[s] # Embedder /\ host[fds[s]] \in File
    /\ \A t \in Thread : op[t].kfd # -1 => op[t].kfd # Embedder /\ host[op[t].kfd] \in File
    /\ \A s, u \in Slot : fds[s] # -1 /\ fds[s] = fds[u] => s = u
    /\ \A t, u \in Thread : op[t].kfd # -1 /\ op[t].kfd = op[u].kfd => t = u
    /\ \A s \in Slot, t \in Thread : fds[s] # -1 => fds[s] # op[t].kfd

\* Every open descriptor has an owner.
OwnedBy(h) == h = Embedder \/ (\E s \in Slot : fds[s] = h) \/ (\E t \in Thread : op[t].kfd = h)
NoLeak == \A h \in HostFd : host[h] # None => OwnedBy(h)

Marked ==
    /\ \A s \in Slot : dirs[s] # NoPath <=> fds[s] # -1 /\ host[fds[s]] \in HostDirs
    /\ \A s \in Slot : fds[s] = -1 /\ alive => flags[s] = "rw"
    /\ \A t \in Thread :
          /\ op[t].at \in {"resolved", "opened", "full"} => op[t].path # NoPath
          /\ op[t].at \in {"opened", "full"} => host[op[t].kfd] = op[t].hostPath
          /\ op[t].at = "acquired" /\ op[t].call = "read" => host[op[t].kfd] \notin HostDirs

FInv == FileTypes /\ Stages /\ Apart /\ NoLeak /\ Marked

-----------------------------------------------------------------------------
(* The lowest free descriptor. *)

\* fdalloc takes the lowest free slot: a non-empty set of slots has one.
LEMMA LeastIs ==
    ASSUME NEW S \in SUBSET Nat, S # {}
    PROVE  Least(S) \in S /\ \A u \in S : Least(S) <= u
<1> DEFINE R == OpToRel(<, Nat)
<1>1. IsWellFoundedOn(R, Nat)
  BY NatLessThanWellFounded
<1>2. \A u, s \in Nat : u < s => <<u, s>> \in R
  BY DEF OpToRel
<1> HIDE DEF R
<1>3. PICK s \in S : \A u \in S : ~ (<<u, s>> \in R)
  BY <1>1, WFMin
<1>4. \A u \in S : s <= u
  <2>1. \A u \in S : u \in Nat /\ s \in Nat /\ ~(u < s)
    BY <1>2, <1>3
  <2> QED
    BY <2>1
<1> QED
  BY <1>4 DEF Least

\* The host answers with a descriptor that nobody owns.
LEMMA HostAnswers ==
    ASSUME FInv, NEW h \in HostFd, NEW f, HostOpens(h, f)
    PROVE  /\ host[h] = None /\ ~OwnedBy(h)
           /\ host' = [host EXCEPT ![h] = f]
<1>1. FreeHost \subseteq Nat
  BY FileAssumption DEF FreeHost, HostFd
<1>2. host[h] = None /\ host' = [host EXCEPT ![h] = f]
  BY <1>1, LeastIs DEF HostOpens, FreeHost
<1>3. None \notin File /\ host[Embedder] # None
  BY NameAssumption DEF File, FInv, Apart
<1>4. h # -1
  BY FileAssumption DEF HostFd
<1> QED
  BY <1>2, <1>3, <1>4 DEF FInv, Apart, OwnedBy

\* The table gives out a free slot.
LEMMA SlotGiven ==
    ASSUME FreeSlots # {}
    PROVE  Least(FreeSlots) \in Slot /\ fds[Least(FreeSlots)] = -1
<1>1. FreeSlots \subseteq Nat
  BY FileAssumption DEF FreeSlots, Slot
<1>2. Least(FreeSlots) \in FreeSlots
  BY <1>1, LeastIs
<1> QED
  BY <1>2 DEF FreeSlots

\* One thread's call moves on, the others stay where they are.
LEMMA CallMoves ==
    ASSUME FileTypes, NEW t \in Thread, NEW r, r \in OpOf(r.hostPath), op' = [op EXCEPT ![t] = r]
    PROVE  /\ op'[t] = r /\ \A u \in Thread : u # t => op'[u] = op[u]
           /\ op' = [u \in Thread |-> op'[u]]
           /\ \A u \in Thread : op'[u] \in OpOf(op'[u].hostPath)
BY DEF FileTypes

\* A thread between calls owns nothing.
LEMMA NoOpTyped == NoOp \in OpOf(NoOp.hostPath) /\ NoOp.at = "idle" /\ NoOp.kfd = -1
BY FileAssumption DEF NoOp, OpOf, Stage, Slot, Calls, Content

-----------------------------------------------------------------------------
(* Every action keeps the invariant. *)

\* The table as fdinit leaves it, with the standard files.
LEMMA InitInv == FileInit => FInv
<1> SUFFICES ASSUME FileInit PROVE FInv
  OBVIOUS
<1>1. PICK n \in 0..NoFile : n < HostFds /\ DOMAIN Std = 1..n
  BY StdAssumption
<1>2. /\ \A h \in HostFd : host[h] = IF h = 0 THEN <<"embedder">> ELSE IF h \in 1..n THEN Std[h] ELSE None
      /\ \A s \in Slot : fds[s] = IF s + 1 \in 1..n THEN s + 1 ELSE -1
      /\ \A s \in Slot : dirs[s] = NoPath /\ flags[s] = "rw"
      /\ \A t \in Thread : op[t] = NoOp
  BY <1>1 DEF FileInit, Embedder
<1>3. \A i \in 1..n : Std[i] \in File /\ Std[i] \notin HostDirs /\ Std[i] # None
  BY <1>1, StdAssumption, NameAssumption DEF File
<1>4. FileTypes
  <2>1. host \in [HostFd -> Content]
    BY <1>1, <1>3 DEF FileInit, Content
  <2>2. fds \in [Slot -> HostFd \cup {-1}]
    BY <1>1, FileAssumption DEF FileInit, Slot, HostFd
  <2>3. op = [t \in Thread |-> op[t]] /\ \A t \in Thread : op[t] \in OpOf(op[t].hostPath)
    BY <1>2, NoOpTyped DEF FileInit
  <2> QED
    BY <2>1, <2>2, <2>3 DEF FileTypes, FileInit
<1>5. Stages
  BY <1>2, NoOpTyped DEF Stages, Owning
<1>6. Apart
  BY <1>1, <1>2, <1>3, NoOpTyped, FileAssumption DEF Apart, Slot, HostFd, Embedder
<1>7. NoLeak
  <2> SUFFICES ASSUME NEW h \in HostFd, host[h] # None, h # Embedder PROVE \E s \in Slot : fds[s] = h
    BY DEF NoLeak, OwnedBy
  <2>1. h \in 1..n
    BY <1>2 DEF Embedder
  <2>2. h - 1 \in Slot /\ fds[h - 1] = h
    BY <1>1, <1>2, <2>1, FileAssumption DEF Slot
  <2> QED
    BY <2>2
<1>8. Marked
  <2>1. \A s \in Slot : fds[s] # -1 => host[fds[s]] \notin HostDirs
    BY <1>1, <1>2, <1>3, FileAssumption DEF Slot, HostFd
  <2> QED
    BY <2>1, <1>2, NoOpTyped DEF Marked
<1> QED
  BY <1>4, <1>5, <1>6, <1>7, <1>8 DEF FInv

\* A call takes the descriptor that the host answers with.
LEMMA CallTakes ==
    ASSUME FInv, NEW t \in Thread, NEW h \in HostFd, NEW f \in File, HostOpens(h, f),
           op[t].kfd = -1, alive,
           NEW r, r \in OpOf(r.hostPath), op' = [op EXCEPT ![t] = r], r.kfd = h, r.at \in Owning,
           r.at \in {"opened", "full"} => r.hostPath = f /\ r.path # NoPath,
           r.at = "acquired" /\ r.call = "read" => f \notin HostDirs,
           UNCHANGED <<fds, dirs, flags, alive>>
    PROVE  FInv'
<1>1. host[h] = None /\ ~OwnedBy(h) /\ host' = [host EXCEPT ![h] = f]
  BY HostAnswers
<1>2. FileTypes /\ Stages /\ Apart /\ NoLeak /\ Marked
  BY DEF FInv
<1>3. /\ op'[t] = r /\ \A u \in Thread : u # t => op'[u] = op[u]
      /\ op' = [u \in Thread |-> op'[u]] /\ \A u \in Thread : op'[u] \in OpOf(op'[u].hostPath)
  BY CallMoves, <1>2
<1>4. host'[h] = f /\ \A k \in HostFd : k # h => host'[k] = host[k]
  BY <1>1, <1>2 DEF FileTypes
<1>5. h # Embedder /\ h # -1 /\ (\A s \in Slot : fds[s] # h) /\ \A u \in Thread : op[u].kfd # h
  BY <1>1, FileAssumption DEF OwnedBy, HostFd
<1>6. /\ \A s \in Slot : fds[s] \in HostFd \cup {-1}
      /\ \A u \in Thread : op[u].kfd \in HostFd \cup {-1}
  BY <1>2 DEF FileTypes, OpOf
<1>7. FileTypes'
  BY <1>1, <1>2, <1>3 DEF FileTypes, Content
<1>8. Stages'
  BY <1>2, <1>3, <1>5 DEF Stages, Owning
<1>9. Apart'
  BY <1>2, <1>3, <1>4, <1>5, <1>6, FileAssumption DEF Apart, HostFd, Embedder
<1>10. NoLeak'
  <2> SUFFICES ASSUME NEW k \in HostFd, host'[k] # None PROVE OwnedBy(k)'
    BY DEF NoLeak
  <2>1. CASE k = h
    BY <2>1, <1>3 DEF OwnedBy
  <2>2. CASE k # h
    <3>1. OwnedBy(k) /\ op[t].kfd # k
      BY <2>2, <1>2, <1>4, FileAssumption DEF NoLeak, HostFd
    <3> QED
      BY <3>1, <1>3 DEF OwnedBy
  <2> QED
    BY <2>1, <2>2
<1>11. Marked'
  <2>1. \A s \in Slot : fds[s] # -1 => host'[fds[s]] = host[fds[s]]
    BY <1>4, <1>5, <1>6
  <2>2. \A u \in Thread : op[u].kfd # -1 => host'[op[u].kfd] = host[op[u].kfd]
    BY <1>4, <1>5, <1>6
  <2>3. /\ \A s \in Slot : dirs'[s] # NoPath <=> fds'[s] # -1 /\ host'[fds'[s]] \in HostDirs
        /\ \A s \in Slot : fds'[s] = -1 /\ alive' => flags'[s] = "rw"
    BY <2>1, <1>2 DEF Marked
  <2>4. \A u \in Thread : u # t =>
          /\ op'[u].at \in {"resolved", "opened", "full"} => op'[u].path # NoPath
          /\ op'[u].at \in {"opened", "full"} => host'[op'[u].kfd] = op'[u].hostPath
          /\ op'[u].at = "acquired" /\ op'[u].call = "read" => host'[op'[u].kfd] \notin HostDirs
    BY <2>2, <1>2, <1>3 DEF Marked, Stages, Owning
  <2>5. /\ op'[t].at \in {"resolved", "opened", "full"} => op'[t].path # NoPath
        /\ op'[t].at \in {"opened", "full"} => host'[op'[t].kfd] = op'[t].hostPath
        /\ op'[t].at = "acquired" /\ op'[t].call = "read" => host'[op'[t].kfd] \notin HostDirs
    BY <1>3, <1>4 DEF Owning
  <2> QED
    BY <2>3, <2>4, <2>5 DEF Marked
<1> QED
  BY <1>7, <1>8, <1>9, <1>10, <1>11 DEF FInv

\* A call closes the descriptor it owns.
LEMMA CallGives ==
    ASSUME FInv, NEW t \in Thread, op[t].kfd # -1, host' = [host EXCEPT ![op[t].kfd] = None],
           NEW r, r \in OpOf(r.hostPath), op' = [op EXCEPT ![t] = r], r.kfd = -1,
           r.at \in {"idle", "next"}, UNCHANGED <<fds, dirs, flags, alive>>
    PROVE  FInv'
<1>2. FileTypes /\ Stages /\ Apart /\ NoLeak /\ Marked
  BY DEF FInv
<1>3. /\ op'[t] = r /\ \A u \in Thread : u # t => op'[u] = op[u]
      /\ op' = [u \in Thread |-> op'[u]] /\ \A u \in Thread : op'[u] \in OpOf(op'[u].hostPath)
  BY CallMoves, <1>2
<1>6. /\ \A s \in Slot : fds[s] \in HostFd \cup {-1}
      /\ \A u \in Thread : op[u].kfd \in HostFd \cup {-1}
  BY <1>2 DEF FileTypes, OpOf
<1> DEFINE h == op[t].kfd
<1>4. h \in HostFd /\ host'[h] = None /\ \A k \in HostFd : k # h => host'[k] = host[k]
  BY <1>2, <1>6 DEF FileTypes
<1>5. h # Embedder /\ (\A s \in Slot : fds[s] # h) /\ \A u \in Thread : u # t => op[u].kfd # h
  BY <1>2, <1>4, FileAssumption DEF Apart, HostFd
<1>7. FileTypes'
  BY <1>2, <1>3 DEF FileTypes, Content
<1>8. Stages'
  BY <1>2, <1>3 DEF Stages, Owning
<1> HIDE DEF h
<1>9. Apart'
  BY <1>2, <1>3, <1>4, <1>5, <1>6, FileAssumption DEF Apart, HostFd, Embedder
<1>10. NoLeak'
  <2> SUFFICES ASSUME NEW k \in HostFd, host'[k] # None PROVE OwnedBy(k)'
    BY DEF NoLeak
  <2>1. k # h /\ OwnedBy(k)
    BY <1>2, <1>4 DEF NoLeak
  <2> QED
    BY <2>1, <1>3 DEF OwnedBy, h
<1>11. Marked'
  <2>1. \A s \in Slot : fds[s] # -1 => host'[fds[s]] = host[fds[s]]
    BY <1>4, <1>5, <1>6
  <2>2. \A u \in Thread : u # t /\ op[u].kfd # -1 => host'[op[u].kfd] = host[op[u].kfd]
    BY <1>4, <1>5, <1>6
  <2>3. /\ \A s \in Slot : dirs'[s] # NoPath <=> fds'[s] # -1 /\ host'[fds'[s]] \in HostDirs
        /\ \A s \in Slot : fds'[s] = -1 /\ alive' => flags'[s] = "rw"
    BY <2>1, <1>2 DEF Marked
  <2>4. \A u \in Thread : u # t =>
          /\ op'[u].at \in {"resolved", "opened", "full"} => op'[u].path # NoPath
          /\ op'[u].at \in {"opened", "full"} => host'[op'[u].kfd] = op'[u].hostPath
          /\ op'[u].at = "acquired" /\ op'[u].call = "read" => host'[op'[u].kfd] \notin HostDirs
    BY <2>2, <1>2, <1>3 DEF Marked, Stages, Owning
  <2> QED
    BY <2>3, <2>4, <1>3 DEF Marked
<1> QED
  BY <1>7, <1>8, <1>9, <1>10, <1>11 DEF FInv

\* A call moves on without the host.
LEMMA CallWaits ==
    ASSUME FInv, NEW t \in Thread, alive,
           NEW r, r \in OpOf(r.hostPath), op' = [op EXCEPT ![t] = r], r.kfd = op[t].kfd,
           r.kfd # -1 <=> r.at \in Owning, r.at # "acquired",
           r.at \in {"resolved", "opened", "full"} => r.path # NoPath,
           r.at \in {"opened", "full"} => host[r.kfd] = r.hostPath,
           UNCHANGED <<host, fds, dirs, flags, alive>>
    PROVE  FInv'
<1>1. FileTypes /\ Stages /\ Apart /\ NoLeak /\ Marked
  BY DEF FInv
<1>2. /\ op'[t] = r /\ \A u \in Thread : u # t => op'[u] = op[u]
      /\ op' = [u \in Thread |-> op'[u]] /\ \A u \in Thread : op'[u] \in OpOf(op'[u].hostPath)
  BY CallMoves, <1>1
<1>3. \A u \in Thread : op'[u].kfd = op[u].kfd
  BY <1>2
<1>4. FileTypes'
  BY <1>1, <1>2 DEF FileTypes
<1>5. Stages'
  BY <1>1, <1>2 DEF Stages
<1>6. Apart' /\ NoLeak'
  BY <1>1, <1>3 DEF Apart, NoLeak, OwnedBy
<1>7. Marked'
  BY <1>1, <1>2 DEF Marked
<1> QED
  BY <1>4, <1>5, <1>6, <1>7 DEF FInv

\* A call that is over leaves its thread idle.
LEMMA DoneMoves ==
    ASSUME FInv, NEW t \in Thread, Done(t)
    PROVE  op' = [op EXCEPT ![t] = NoOp]
BY DEF Done

\* A call that is in flight has a record whose other fields can be replaced.
LEMMA OpTyped ==
    ASSUME FInv, NEW t \in Thread
    PROVE  op[t] \in OpOf(op[t].hostPath) /\ (op[t].kfd # -1 <=> op[t].at \in Owning)
           /\ (op[t].at # "idle" => alive)
BY DEF FInv, FileTypes, Stages

\* sys_openat resolves the path and owns nothing yet.
LEMMA OpenResolveInv ==
    ASSUME FInv, NEW t \in Thread, NEW p \in PathArg, NEW fl \in {"rw", "path"}, OpenResolve(t, p, fl)
    PROVE  FInv'
<1> DEFINE q == [NoOp EXCEPT !.at = "resolved"]
           r == [q EXCEPT !.path = p, !.hostPath = Resolve(cwd, p), !.flags = fl]
<1>0. q \in OpOf(q.hostPath) /\ q.at = "resolved" /\ q.kfd = -1
  BY NoOpTyped DEF OpOf, Stage
<1>2. op' = [op EXCEPT ![t] = r] /\ alive /\ op[t].at = "idle"
  BY DEF OpenResolve, Idle
<1> HIDE DEF q
<1>1. r \in OpOf(r.hostPath) /\ r.at = "resolved" /\ r.kfd = -1 /\ r.path = p
  BY <1>0 DEF OpOf
<1> HIDE DEF r
<1>3. op[t].kfd = -1
  BY <1>2, OpTyped DEF Owning
<1>4. p # NoPath
  BY NameAssumption
<1> QED
  BY <1>1, <1>2, <1>3, <1>4, CallWaits DEF OpenResolve, Owning

\* The host opens the file: the call owns a new descriptor.
LEMMA OpenHostInv ==
    ASSUME FInv, NEW t \in Thread, OpenHost(t)
    PROVE  FInv'
<1>1. op[t] \in OpOf(op[t].hostPath) /\ op[t].at = "resolved" /\ alive /\ op[t].kfd = -1
  BY OpTyped DEF OpenHost, Owning
<1>2. op[t].path # NoPath
  BY <1>1 DEF FInv, Marked
<1>3. CASE Done(t) /\ UNCHANGED host
  BY <1>1, <1>3, DoneMoves, NoOpTyped, CallWaits DEF OpenHost, Owning
<1>4. CASE \E h \in HostFd : /\ op[t].hostPath \in HostFiles \cup HostDirs
                             /\ HostOpens(h, op[t].hostPath)
                             /\ op' = [op EXCEPT ![t].at = "opened", ![t].kfd = h]
  <2>1. PICK h \in HostFd : /\ op[t].hostPath \in HostFiles \cup HostDirs
                           /\ HostOpens(h, op[t].hostPath)
                           /\ op' = [op EXCEPT ![t].at = "opened", ![t].kfd = h]
    BY <1>4
  <2> DEFINE r == [op[t] EXCEPT !.at = "opened", !.kfd = h]
  <2>2. /\ r \in OpOf(r.hostPath) /\ r.at = "opened" /\ r.kfd = h
        /\ r.path = op[t].path /\ r.hostPath = op[t].hostPath
    BY <1>1 DEF OpOf, Stage
  <2>3. op' = [op EXCEPT ![t] = r]
    BY <2>1
  <2>4. op[t].hostPath \in File
    BY <2>1 DEF File
  <2> HIDE DEF r
  <2> QED
    BY <1>1, <1>2, <2>1, <2>2, <2>3, <2>4, CallTakes DEF OpenHost, Owning
<1> QED
  BY <1>3, <1>4 DEF OpenHost

\* sys_openat closes what it opened when the table is full.
LEMMA OpenUndoInv ==
    ASSUME FInv, NEW t \in Thread, OpenUndo(t)
    PROVE  FInv'
<1>1. op[t].kfd # -1
  BY OpTyped DEF OpenUndo, Owning
<1> QED
  BY <1>1, DoneMoves, NoOpTyped, CallGives DEF OpenUndo

\* fdacquire duplicates the descriptor of a slot: the call owns the copy.
LEMMA AcquireInv ==
    ASSUME FInv, NEW t \in Thread, alive, op[t].at \in {"idle", "next"},
           NEW fd \in Slot, NEW call \in Calls, NEW left \in Int, Acquire(t, fd, call, left)
    PROVE  FInv'
<1>1. PICK h \in HostFd :
          /\ HostOpens(h, host[fds[fd]])
          /\ op' = [op EXCEPT ![t] = [NoOp EXCEPT !.at = "acquired", !.fd = fd, !.kfd = h,
                                                 !.call = call, !.left = left]]
  BY DEF Acquire
<1> DEFINE r == [NoOp EXCEPT !.at = "acquired", !.fd = fd, !.kfd = h, !.call = call, !.left = left]
<1>2. r \in OpOf(r.hostPath) /\ r.at = "acquired" /\ r.kfd = h /\ r.call = call
  BY FileAssumption DEF NoOp, OpOf, Stage, Slot, Calls, Content
<1>3. op' = [op EXCEPT ![t] = r]
  BY <1>1
<1>4. fds[fd] # -1 /\ (call = "read" => dirs[fd] = NoPath)
  BY DEF Acquire, Refused, Open
<1>5. host[fds[fd]] \in File
  BY <1>4 DEF FInv, Apart
<1>6. call = "read" => host[fds[fd]] \notin HostDirs
  BY <1>4 DEF FInv, Marked
<1>7. op[t].kfd = -1
  BY OpTyped DEF Owning
<1>8. HostOpens(h, host[fds[fd]]) /\ UNCHANGED <<fds, dirs, flags, alive>>
  BY <1>1 DEF Acquire
<1> HIDE DEF r
<1> QED
  BY <1>2, <1>3, <1>5, <1>6, <1>7, <1>8, CallTakes DEF Owning

\* fdrelease: the call closes its copy when it is done.
LEMMA ReleaseInv ==
    ASSUME FInv, NEW t \in Thread, Release(t)
    PROVE  FInv'
<1>1. op[t] \in OpOf(op[t].hostPath) /\ op[t].kfd # -1
  BY OpTyped DEF Release, Owning
<1>2. CASE Done(t)
  BY <1>1, <1>2, DoneMoves, NoOpTyped, CallGives DEF Release
<1>3. CASE op' = [op EXCEPT ![t].at = "next", ![t].kfd = -1]
  <2> DEFINE r == [op[t] EXCEPT !.at = "next", !.kfd = -1]
  <2>1. r \in OpOf(r.hostPath) /\ r.at = "next" /\ r.kfd = -1
    BY <1>1 DEF OpOf, Stage
  <2>2. op' = [op EXCEPT ![t] = r]
    BY <1>3
  <2> HIDE DEF r
  <2> QED
    BY <1>1, <2>1, <2>2, CallGives DEF Release
<1> QED
  BY <1>2, <1>3 DEF Release

\* readv and writev acquire the descriptor anew for each buffer.
LEMMA NextBufferInv ==
    ASSUME FInv, NEW t \in Thread, NextBuffer(t)
    PROVE  FInv'
<1>1. op[t] \in OpOf(op[t].hostPath) /\ op[t].at = "next" /\ alive /\ op[t].kfd = -1
  BY OpTyped DEF NextBuffer, Owning
<1>2. op[t].fd \in Slot /\ op[t].call \in Calls /\ op[t].left - 1 \in Int
  BY <1>1 DEF OpOf
<1>3. CASE Acquire(t, op[t].fd, op[t].call, op[t].left - 1)
  BY <1>1, <1>2, <1>3, AcquireInv
<1>4. CASE Done(t) /\ UNCHANGED <<host, fds, dirs, flags, cwd, alive>>
  BY <1>1, <1>4, DoneMoves, NoOpTyped, CallWaits DEF Owning
<1> QED
  BY <1>3, <1>4 DEF NextBuffer

\* The path that fchdir copies and the file behind it.
LEMMA FchdirInv ==
    ASSUME FInv, NEW t \in Thread,
           Fchdir(t) \/ \E fd \in Slot : FchdirCopy(t, fd)
    PROVE  FInv'
<1>1. CASE Fchdir(t)
  <2>1. alive /\ op[t].kfd = -1
    BY <1>1, OpTyped DEF Fchdir, Owning
  <2> QED
    BY <1>1, <2>1, DoneMoves, NoOpTyped, CallWaits DEF Fchdir, Owning
<1>2. CASE \E fd \in Slot : FchdirCopy(t, fd)
  <2>1. PICK fd \in Slot : FchdirCopy(t, fd)
    BY <1>2
  <2> DEFINE q == [NoOp EXCEPT !.at = "fchdir"]
             r == [q EXCEPT !.path = dirs[fd], !.file = host[fds[fd]]]
  <2>2. q \in OpOf(q.hostPath) /\ q.at = "fchdir" /\ q.kfd = -1
    BY NoOpTyped DEF OpOf, Stage
  <2>3. dirs[fd] \in PathArg \cup {NoPath} /\ host[fds[fd]] \in Content
    BY <2>1 DEF FchdirCopy, Open, FInv, FileTypes, Apart, Content
  <2>4. op' = [op EXCEPT ![t] = r] /\ alive /\ op[t].at = "idle"
    BY <2>1 DEF FchdirCopy, Idle
  <2>6. UNCHANGED <<host, fds, dirs, flags, alive>>
    BY <2>1 DEF FchdirCopy
  <2> HIDE DEF q
  <2>7. r \in OpOf(r.hostPath) /\ r.at = "fchdir" /\ r.kfd = -1
    BY <2>2, <2>3 DEF OpOf
  <2> HIDE DEF r
  <2>5. op[t].kfd = -1
    BY <2>4, OpTyped DEF Owning
  <2> QED
    BY <2>4, <2>5, <2>6, <2>7, CallWaits DEF Owning
<1> QED
  BY <1>1, <1>2

\* What is known of a slot and its file.
LEMMA SlotTyped ==
    ASSUME FInv
    PROVE  /\ \A s \in Slot :
                 /\ fds[s] \in HostFd \cup {-1} /\ dirs[s] \in PathArg \cup {NoPath}
                 /\ flags[s] \in {"rw", "path"}
                 /\ fds[s] # -1 =>
                       /\ fds[s] \in HostFd /\ host[fds[s]] \in File
                       /\ dirs[s] # NoPath <=> host[fds[s]] \in HostDirs
           /\ \A t \in Thread : op[t].kfd \in HostFd \cup {-1}
BY DEF FInv, FileTypes, Apart, Marked, OpOf

\* fdalloc hands the opened descriptor over to a slot.
LEMMA InstallInv ==
    ASSUME FInv, NEW t \in Thread, Install(t)
    PROVE  FInv'
<1>1. op[t] \in OpOf(op[t].hostPath) /\ op[t].at = "opened" /\ op[t].kfd # -1 /\ alive
  BY OpTyped DEF Install, Owning
<1>2. FileTypes /\ Stages /\ Apart /\ NoLeak /\ Marked
  BY DEF FInv
<1>3. op[t].path # NoPath /\ host[op[t].kfd] = op[t].hostPath
  BY <1>1, <1>2 DEF Marked
<1>4. CASE FreeSlots = {}
  <2> DEFINE r == [op[t] EXCEPT !.at = "full"]
  <2>1. /\ r \in OpOf(r.hostPath) /\ r.at = "full" /\ r.kfd = op[t].kfd
        /\ r.path = op[t].path /\ r.hostPath = op[t].hostPath
    BY <1>1 DEF OpOf, Stage
  <2>2. op' = [op EXCEPT ![t] = r]
    BY <1>4 DEF Install
  <2>3. UNCHANGED <<host, fds, dirs, flags, alive>>
    BY <1>4 DEF Install
  <2> HIDE DEF r
  <2> QED
    BY <1>1, <1>3, <2>1, <2>2, <2>3, CallWaits DEF Owning
<1>5. CASE FreeSlots # {}
  <2> DEFINE s == Least(FreeSlots)
             h == op[t].kfd
             d == IF op[t].hostPath \in HostDirs THEN op[t].path ELSE NoPath
  <2>1. s \in Slot /\ fds[s] = -1
    BY <1>5, SlotGiven
  <2>2. /\ fds' = [fds EXCEPT ![s] = h] /\ dirs' = [dirs EXCEPT ![s] = d]
        /\ flags' = [flags EXCEPT ![s] = op[t].flags] /\ op' = [op EXCEPT ![t] = NoOp]
        /\ UNCHANGED <<host, alive>>
    BY <1>5 DEF Install, Done
  <2>3. h \in HostFd /\ d \in PathArg \cup {NoPath} /\ op[t].flags \in {"rw", "path"}
    BY <1>1 DEF OpOf
  <2>4. /\ h # Embedder /\ host[h] \in File /\ \A u \in Slot : fds[u] # h
        /\ \A u \in Thread : u # t => op[u].kfd # h
    BY <1>1, <1>2, <2>3, FileAssumption DEF Apart, HostFd
  <2>5. d # NoPath <=> host[h] \in HostDirs
    BY <1>3
  <2>6. /\ op'[t] = NoOp /\ \A u \in Thread : u # t => op'[u] = op[u]
        /\ op' = [u \in Thread |-> op'[u]] /\ \A u \in Thread : op'[u] \in OpOf(op'[u].hostPath)
    BY <1>2, <2>2, NoOpTyped, CallMoves
  <2> HIDE DEF s, h, d
  <2>7. /\ fds'[s] = h /\ dirs'[s] = d
        /\ \A u \in Slot : u # s => fds'[u] = fds[u] /\ dirs'[u] = dirs[u] /\ flags'[u] = flags[u]
    BY <1>2, <2>1, <2>2 DEF FileTypes
  <2>8. FileTypes'
    BY <1>2, <2>1, <2>2, <2>3, <2>6 DEF FileTypes
  <2>9. Stages'
    BY <1>2, <2>2, <2>6, NoOpTyped DEF Stages, Owning
  <2>10. h # -1
    BY <2>3, FileAssumption DEF HostFd
  <2>11. Apart'
    BY <1>2, <2>1, <2>2, <2>4, <2>6, <2>7, <2>10, NoOpTyped DEF Apart
  <2>12. NoLeak'
    <3> SUFFICES ASSUME NEW k \in HostFd, host[k] # None PROVE OwnedBy(k)'
      BY <2>2 DEF NoLeak
    <3>1. OwnedBy(k)
      BY <1>2 DEF NoLeak
    <3>2. CASE \E u \in Slot : fds[u] = k
      <4>1. PICK u \in Slot : fds[u] = k
        BY <3>2
      <4>2. u # s
        BY <2>1, <4>1, FileAssumption DEF HostFd
      <4> QED
        BY <4>1, <4>2, <2>7 DEF OwnedBy
    <3>3. CASE \E u \in Thread : op[u].kfd = k
      <4>1. PICK u \in Thread : op[u].kfd = k
        BY <3>3
      <4> QED
        BY <4>1, <2>1, <2>6, <2>7 DEF OwnedBy, h
    <3> QED
      BY <3>1, <3>2, <3>3 DEF OwnedBy
  <2>13. Marked'
    BY <1>2, <2>1, <2>2, <2>5, <2>6, <2>7, <2>10, NoOpTyped DEF Marked
  <2> QED
    BY <2>8, <2>9, <2>11, <2>12, <2>13 DEF FInv
<1> QED
  BY <1>4, <1>5

\* A free slot takes the descriptor that the host answers with.
LEMMA SlotTakes ==
    ASSUME FInv, NEW s \in Slot, fds[s] = -1, NEW h \in HostFd, NEW f \in File, HostOpens(h, f),
           NEW d \in PathArg \cup {NoPath}, d # NoPath <=> f \in HostDirs, NEW fl \in {"rw", "path"},
           fds' = [fds EXCEPT ![s] = h], dirs' = [dirs EXCEPT ![s] = d],
           flags' = [flags EXCEPT ![s] = fl], UNCHANGED <<op, alive>>
    PROVE  FInv'
<1>1. host[h] = None /\ ~OwnedBy(h) /\ host' = [host EXCEPT ![h] = f]
  BY HostAnswers
<1>2. FileTypes /\ Stages /\ Apart /\ NoLeak /\ Marked
  BY DEF FInv
<1>3. host'[h] = f /\ \A k \in HostFd : k # h => host'[k] = host[k]
  BY <1>1, <1>2 DEF FileTypes
<1>4. h # Embedder /\ h # -1 /\ (\A u \in Slot : fds[u] # h) /\ \A u \in Thread : op[u].kfd # h
  BY <1>1, FileAssumption DEF OwnedBy, HostFd
<1>5. /\ \A u \in Slot : fds[u] \in HostFd \cup {-1}
      /\ \A u \in Thread : op[u].kfd \in HostFd \cup {-1}
  BY SlotTyped
<1>6. /\ fds'[s] = h /\ dirs'[s] = d
      /\ \A u \in Slot : u # s => fds'[u] = fds[u] /\ dirs'[u] = dirs[u] /\ flags'[u] = flags[u]
  BY <1>2 DEF FileTypes
<1>7. FileTypes'
  BY <1>1, <1>2 DEF FileTypes, Content
<1>8. Stages'
  BY <1>2 DEF Stages
<1>9. Apart'
  BY <1>2, <1>3, <1>4, <1>5, <1>6, FileAssumption DEF Apart, HostFd, Embedder
<1>10. NoLeak'
  <2> SUFFICES ASSUME NEW k \in HostFd, host'[k] # None PROVE OwnedBy(k)'
    BY DEF NoLeak
  <2>1. CASE k = h
    BY <2>1, <1>6 DEF OwnedBy
  <2>2. CASE k # h
    <3>1. OwnedBy(k) /\ k # -1
      BY <2>2, <1>2, <1>3, FileAssumption DEF NoLeak, HostFd
    <3> QED
      BY <3>1, <1>6 DEF OwnedBy
  <2> QED
    BY <2>1, <2>2
<1>11. Marked'
  <2>1. \A u \in Slot : u # s /\ fds[u] # -1 => host'[fds[u]] = host[fds[u]]
    BY <1>3, <1>4, <1>5
  <2>2. \A u \in Thread : op[u].kfd # -1 => host'[op[u].kfd] = host[op[u].kfd]
    BY <1>3, <1>4, <1>5
  <2>3. /\ \A u \in Slot : dirs'[u] # NoPath <=> fds'[u] # -1 /\ host'[fds'[u]] \in HostDirs
        /\ \A u \in Slot : fds'[u] = -1 /\ alive' => flags'[u] = "rw"
    BY <2>1, <1>2, <1>3, <1>4, <1>6 DEF Marked
  <2> QED
    BY <2>2, <2>3, <1>2 DEF Marked, Stages, Owning
<1> QED
  BY <1>7, <1>8, <1>9, <1>10, <1>11 DEF FInv

\* dup: the copy belongs to the slot it takes.
LEMMA DupInv ==
    ASSUME FInv, NEW t \in Thread, NEW old \in Slot, Dup(t, old)
    PROVE  FInv'
<1>1. fds[old] # -1 /\ FreeSlots # {} /\ UNCHANGED <<op, alive>>
  BY DEF Dup, Open
<1>2. PICK h \in HostFd : HostOpens(h, host[fds[old]]) /\ CopySlot(old, Least(FreeSlots), h)
  BY DEF Dup
<1>3. Least(FreeSlots) \in Slot /\ fds[Least(FreeSlots)] = -1
  BY <1>1, SlotGiven
<1>4. /\ host[fds[old]] \in File /\ dirs[old] \in PathArg \cup {NoPath} /\ flags[old] \in {"rw", "path"}
      /\ dirs[old] # NoPath <=> host[fds[old]] \in HostDirs
  BY <1>1, SlotTyped
<1> QED
  BY <1>1, <1>2, <1>3, <1>4, SlotTakes DEF CopySlot

\* A taken slot keeps its descriptor and gets the file of another one.
LEMMA SlotReplaced ==
    ASSUME FInv, NEW s \in Slot, fds[s] # -1, NEW old \in Slot, fds[old] # -1, s # old,
           host' = [host EXCEPT ![fds[s]] = host[fds[old]]], CopySlot(old, s, fds[s]),
           UNCHANGED <<op, alive>>
    PROVE  FInv'
<1> DEFINE h == fds[s]
           f == host[fds[old]]
<1>1. FileTypes /\ Stages /\ Apart /\ NoLeak /\ Marked
  BY DEF FInv
<1>2. /\ h \in HostFd /\ f \in File /\ f \in Content /\ dirs[old] \in PathArg \cup {NoPath}
      /\ flags[old] \in {"rw", "path"} /\ (dirs[old] # NoPath <=> f \in HostDirs)
  BY SlotTyped DEF Content
<1>3. host'[h] = f /\ \A k \in HostFd : k # h => host'[k] = host[k]
  BY <1>1, <1>2 DEF FileTypes
<1>4. /\ h # Embedder /\ h # -1 /\ (\A u \in Slot : u # s => fds[u] # h)
      /\ \A u \in Thread : op[u].kfd # h
  BY <1>1 DEF Apart
<1>5. /\ \A u \in Slot : fds[u] \in HostFd \cup {-1}
      /\ \A u \in Thread : op[u].kfd \in HostFd \cup {-1}
  BY SlotTyped
<1>6. /\ fds' = fds /\ dirs'[s] = dirs[old] /\ flags' = [flags EXCEPT ![s] = flags[old]]
      /\ dirs' = [dirs EXCEPT ![s] = dirs[old]]
      /\ \A u \in Slot : u # s => dirs'[u] = dirs[u] /\ flags'[u] = flags[u]
  BY <1>1 DEF FileTypes, CopySlot
<1>7. FileTypes'
  BY <1>1, <1>2, <1>6 DEF FileTypes
<1>8. Stages'
  BY <1>1 DEF Stages
<1> HIDE DEF f
<1>9. Apart'
  BY <1>1, <1>2, <1>3, <1>4, <1>5, <1>6, FileAssumption DEF Apart, HostFd, Embedder
<1>10. NoLeak'
  <2> SUFFICES ASSUME NEW k \in HostFd, host'[k] # None PROVE OwnedBy(k)'
    BY DEF NoLeak
  <2>1. OwnedBy(k)
    BY <1>1, <1>3 DEF NoLeak, OwnedBy
  <2> QED
    BY <2>1, <1>6 DEF OwnedBy
<1>11. Marked'
  <2>1. \A u \in Slot : u # s /\ fds[u] # -1 => host'[fds[u]] = host[fds[u]]
    BY <1>3, <1>4, <1>5
  <2>2. \A u \in Thread : op[u].kfd # -1 => host'[op[u].kfd] = host[op[u].kfd]
    BY <1>3, <1>4, <1>5
  <2>3. /\ \A u \in Slot : dirs'[u] # NoPath <=> fds'[u] # -1 /\ host'[fds'[u]] \in HostDirs
        /\ \A u \in Slot : fds'[u] = -1 /\ alive' => flags'[u] = "rw"
    BY <2>1, <1>1, <1>2, <1>3, <1>4, <1>6 DEF Marked
  <2> QED
    BY <2>2, <2>3, <1>1 DEF Marked, Stages, Owning
<1> QED
  BY <1>7, <1>8, <1>9, <1>10, <1>11 DEF FInv

\* dup3 closes what the slot held and hands it the copy.
LEMMA Dup3Inv ==
    ASSUME FInv, NEW t \in Thread, NEW old \in Slot, NEW new \in Slot, Dup3(t, old, new)
    PROVE  FInv'
<1>1. fds[old] # -1 /\ new # old /\ UNCHANGED <<op, alive>>
  BY DEF Dup3, Open
<1>2. PICK h \in HostFd :
          /\ IF Open(new) THEN h = fds[new] /\ host' = [host EXCEPT ![h] = host[fds[old]]]
                          ELSE HostOpens(h, host[fds[old]])
          /\ CopySlot(old, new, h)
  BY DEF Dup3
<1>3. CASE Open(new)
  BY <1>1, <1>2, <1>3, SlotReplaced DEF Open
<1>4. CASE ~Open(new)
  <2>1. fds[new] = -1
    BY <1>4 DEF Open
  <2>2. /\ host[fds[old]] \in File /\ dirs[old] \in PathArg \cup {NoPath} /\ flags[old] \in {"rw", "path"}
        /\ dirs[old] # NoPath <=> host[fds[old]] \in HostDirs
    BY <1>1, SlotTyped
  <2> QED
    BY <1>1, <1>2, <1>4, <2>1, <2>2, SlotTakes DEF CopySlot
<1> QED
  BY <1>3, <1>4

\* close takes the descriptor from the slot and closes it.
LEMMA CloseInv ==
    ASSUME FInv, NEW t \in Thread, NEW fd \in Slot, Close(t, fd)
    PROVE  FInv'
<1> DEFINE h == fds[fd]
<1>1. FileTypes /\ Stages /\ Apart /\ NoLeak /\ Marked
  BY DEF FInv
<1>2. /\ h # -1 /\ host' = [host EXCEPT ![h] = None] /\ fds' = [fds EXCEPT ![fd] = -1]
      /\ dirs' = [dirs EXCEPT ![fd] = NoPath] /\ flags' = [flags EXCEPT ![fd] = "rw"]
      /\ UNCHANGED <<op, alive>>
  BY DEF Close, Open
<1>3. h \in HostFd
  BY <1>2, SlotTyped
<1>4. /\ host'[h] = None /\ \A k \in HostFd : k # h => host'[k] = host[k]
      /\ fds'[fd] = -1 /\ dirs'[fd] = NoPath /\ flags'[fd] = "rw"
      /\ \A u \in Slot : u # fd => fds'[u] = fds[u] /\ dirs'[u] = dirs[u] /\ flags'[u] = flags[u]
  BY <1>1, <1>2, <1>3 DEF FileTypes
<1>5. /\ h # Embedder /\ (\A u \in Slot : u # fd => fds[u] # h)
      /\ \A u \in Thread : op[u].kfd # h
  BY <1>1, <1>2 DEF Apart
<1>6. /\ \A u \in Slot : fds[u] \in HostFd \cup {-1}
      /\ \A u \in Thread : op[u].kfd \in HostFd \cup {-1}
  BY SlotTyped
<1> HIDE DEF h
<1>7. FileTypes'
  BY <1>1, <1>2, <1>3 DEF FileTypes, Content
<1>8. Stages'
  BY <1>1, <1>2 DEF Stages
<1>9. Apart'
  BY <1>1, <1>2, <1>4, <1>5, <1>6, FileAssumption DEF Apart, HostFd, Embedder
<1>10. NoLeak'
  <2> SUFFICES ASSUME NEW k \in HostFd, host'[k] # None PROVE OwnedBy(k)'
    BY DEF NoLeak
  <2>1. k # h /\ OwnedBy(k)
    BY <1>1, <1>4 DEF NoLeak
  <2> QED
    BY <2>1, <1>2, <1>4 DEF OwnedBy, h
<1>11. Marked'
  <2>1. \A u \in Slot : u # fd /\ fds[u] # -1 => host'[fds[u]] = host[fds[u]]
    BY <1>4, <1>5, <1>6
  <2>2. \A u \in Thread : op[u].kfd # -1 => host'[op[u].kfd] = host[op[u].kfd]
    BY <1>4, <1>5, <1>6
  <2>3. /\ \A u \in Slot : dirs'[u] # NoPath <=> fds'[u] # -1 /\ host'[fds'[u]] \in HostDirs
        /\ \A u \in Slot : fds'[u] = -1 /\ alive' => flags'[u] = "rw"
    BY <2>1, <1>1, <1>2, <1>4 DEF Marked
  <2> QED
    BY <2>2, <2>3, <1>1, <1>2 DEF Marked, Stages, Owning
<1> QED
  BY <1>7, <1>8, <1>9, <1>10, <1>11 DEF FInv

\* fdfree closes what the slots own; no call is in flight.
LEMMA FreeTableInv ==
    ASSUME FInv, FreeTable
    PROVE  FInv'
<1>1. FileTypes /\ Stages /\ Apart /\ NoLeak /\ Marked
  BY DEF FInv
<1>2. /\ alive' = FALSE /\ op' = op /\ flags' = flags
      /\ host' = [h \in HostFd |-> IF \E s \in Slot : fds[s] = h THEN None ELSE host[h]]
      /\ fds' = [s \in Slot |-> -1]
      /\ dirs' = [s \in Slot |-> IF fds[s] = -1 THEN dirs[s] ELSE NoPath]
      /\ \A t \in Thread : op[t].at = "idle"
  BY DEF FreeTable, Idle
<1>3. \A t \in Thread : op[t].kfd = -1
  BY <1>2, OpTyped DEF Owning
<1>4. \A s \in Slot : fds'[s] = -1 /\ dirs'[s] = NoPath
  BY <1>1, <1>2 DEF Marked
<1>5. FileTypes'
  BY <1>1, <1>2, <1>4 DEF FileTypes, Content
<1>6. Stages'
  BY <1>1, <1>2 DEF Stages
<1>7. Apart'
  <2>1. Embedder \in HostFd /\ Embedder # -1
    BY FileAssumption DEF Embedder, HostFd
  <2>2. host'[Embedder] = host[Embedder]
    BY <2>1, <1>1, <1>2 DEF Apart
  <2> QED
    BY <2>2, <1>1, <1>2, <1>3, <1>4 DEF Apart
<1>8. NoLeak'
  <2> SUFFICES ASSUME NEW k \in HostFd, host'[k] # None PROVE OwnedBy(k)'
    BY DEF NoLeak
  <2>1. host[k] # None /\ ~ \E s \in Slot : fds[s] = k
    BY <1>2
  <2>2. k # -1
    BY FileAssumption DEF HostFd
  <2> QED
    BY <2>1, <2>2, <1>1, <1>3 DEF NoLeak, OwnedBy
<1>9. Marked'
  BY <1>1, <1>2, <1>4 DEF Marked
<1> QED
  BY <1>5, <1>6, <1>7, <1>8, <1>9 DEF FInv

\* Every step of the table keeps the invariant.
LEMMA StepInv == FInv /\ [FileNext]_fileVars => FInv'
<1> SUFFICES ASSUME FInv, [FileNext]_fileVars PROVE FInv'
  OBVIOUS
<1>1. ASSUME NEW t \in Thread, NEW p \in PathArg, Chdir(t, p) PROVE FInv'
  BY <1>1 DEF Chdir, FInv, FileTypes, Stages, Apart, NoLeak, OwnedBy, Marked
<1>2. ASSUME NEW t \in Thread, NEW p \in PathArg, NEW fl \in {"rw", "path"}, OpenResolve(t, p, fl)
      PROVE  FInv'
  BY <1>2, OpenResolveInv
<1>3. ASSUME NEW t \in Thread, OpenHost(t) \/ Install(t) \/ OpenUndo(t) PROVE FInv'
  BY <1>3, OpenHostInv, InstallInv, OpenUndoInv
<1>4. ASSUME NEW t \in Thread, NEW fd \in Slot, NEW call \in Calls, NEW n \in 1..MaxIov,
             StartCall(t, fd, call, n)
      PROVE  FInv'
  <2>1. alive /\ op[t].at \in {"idle", "next"} /\ Acquire(t, fd, call, n - 1)
    BY <1>4 DEF StartCall, Idle
  <2> QED
    BY <2>1, AcquireInv
<1>5. ASSUME NEW t \in Thread, NEW fd \in Slot, Dup(t, fd) \/ Close(t, fd) \/ FchdirCopy(t, fd)
      PROVE  FInv'
  BY <1>5, DupInv, CloseInv, FchdirInv
<1>6. ASSUME NEW t \in Thread, NEW fd \in Slot, NEW new \in Slot, Dup3(t, fd, new) PROVE FInv'
  BY <1>6, Dup3Inv
<1>7. ASSUME NEW t \in Thread, Release(t) \/ NextBuffer(t) \/ Fchdir(t) PROVE FInv'
  BY <1>7, ReleaseInv, NextBufferInv, FchdirInv
<1>8. CASE FreeTable
  BY <1>8, FreeTableInv
<1>9. CASE UNCHANGED fileVars
  BY <1>9 DEF fileVars, FInv, FileTypes, Stages, Apart, NoLeak, OwnedBy, Marked
<1> QED
  BY <1>1, <1>2, <1>3, <1>4, <1>5, <1>6, <1>7, <1>8, <1>9 DEF FileNext

-----------------------------------------------------------------------------
(* What follows. *)

\* The inductive invariant of the descriptor table: every descriptor of the
\* host that fdalloc, fdacquire, fddup, fddup2, fdremove and fdfree handle has
\* one owner, and the directory marks follow the files.
THEOREM FilesInvariance == FileSpec => []FInv
<1> QED
  BY InitInv, StepInv, PTL DEF FileSpec

\* The owners of the invariant are those HostOwned asks for.
LEMMA InvOwned == FInv => HostOwned
<1> SUFFICES ASSUME FInv PROVE HostOwned
  OBVIOUS
<1>1. FileTypes /\ Apart /\ NoLeak
  BY DEF FInv
<1> DEFINE inSlot == {s \in Slot : fds[s] # -1}
           inCall == {t \in Thread : op[t].kfd # -1}
           open == {h \in HostFd : host[h] # None}
           owned == {Embedder} \cup {fds[s] : s \in inSlot} \cup {op[t].kfd : t \in inCall}
<1>2. ASSUME NEW h \in open PROVE h \in owned
  <2>1. OwnedBy(h) /\ h # -1
    BY <1>1, FileAssumption DEF NoLeak, HostFd
  <2> QED
    BY <2>1 DEF OwnedBy
<1>3. ASSUME NEW h \in owned PROVE h \in open
  <2>1. None \notin File /\ None # <<"embedder">>
    BY NameAssumption DEF File
  <2>2. Embedder \in open
    BY <2>1, <1>1, FileAssumption DEF Apart, Embedder, HostFd
  <2>3. ASSUME NEW s \in inSlot PROVE fds[s] \in open
    BY <2>1, <1>1 DEF Apart, FileTypes
  <2>4. ASSUME NEW t \in inCall PROVE op[t].kfd \in open
    <3>1. op[t].kfd \in HostFd
      BY SlotTyped
    <3> QED
      BY <3>1, <2>1, <1>1 DEF Apart
  <2> QED
    BY <2>2, <2>3, <2>4
<1>4. open = owned
  BY <1>2, <1>3
<1>5. /\ host[Embedder] = <<"embedder">>
      /\ \A s \in inSlot : fds[s] # Embedder
      /\ \A t \in inCall : op[t].kfd # Embedder
      /\ \A s, u \in inSlot : fds[s] = fds[u] => s = u
      /\ \A t, u \in inCall : op[t].kfd = op[u].kfd => t = u
      /\ \A s \in inSlot, t \in inCall : fds[s] # op[t].kfd
  BY <1>1 DEF Apart
<1> QED
  BY <1>4, <1>5 DEF HostOwned

\* However opens that find the table full, dups onto taken slots, closes and
\* buffers of readv and writev of many threads interleave, each open descriptor
\* of the host has one owner and the embedder's stay untouched.
THEOREM DescriptorsOwned == FileSpec => []HostOwned
<1> QED
  BY FilesInvariance, InvOwned, PTL

\* The directory mark of a slot goes with the file behind it, and no read or
\* write that passed the checks of fdacquire works on a directory.
THEOREM MarksFollow == FileSpec => []MarksSound
<1>1. FInv => MarksSound
  BY DEF FInv, Marked, MarksSound
<1> QED
  BY <1>1, FilesInvariance, PTL

-----------------------------------------------------------------------------
(* The table implements Descriptors. *)

Tab == [s \in Slot |-> IF fds[s] = -1 THEN None ELSE host[fds[s]]]
Using == [t \in Thread |-> IF op[t].at = "acquired" THEN host[op[t].kfd] ELSE None]

\* A slot is empty in Descriptors when it is free here.
LEMMA TabOf ==
    ASSUME FInv
    PROVE  /\ \A s \in Slot : Tab[s] = None <=> fds[s] = -1
           /\ \A s \in Slot : fds[s] # -1 => Tab[s] = host[fds[s]] /\ Tab[s] \in File
BY SlotTyped, NameAssumption DEF Tab, File

\* The files of the slots stay when their descriptors keep theirs.
LEMMA TabKept ==
    ASSUME UNCHANGED fds, \A s \in Slot : fds[s] # -1 => host'[fds[s]] = host[fds[s]]
    PROVE  Tab' = Tab
BY DEF Tab

\* Steps that leave the copies of the calls alone leave the files in use alone.
LEMMA UsingKept ==
    ASSUME \A t \in Thread :
              /\ op'[t].at = "acquired" <=> op[t].at = "acquired"
              /\ op[t].at = "acquired" =>
                    op'[t].kfd = op[t].kfd /\ host'[op[t].kfd] = host[op[t].kfd]
    PROVE  Using' = Using
<1>1. \A t \in Thread : Using'[t] = Using[t]
  BY DEF Using
<1> QED
  BY <1>1 DEF Using

\* One thread's call begins or ends.
LEMMA UsingMoved ==
    ASSUME NEW t \in Thread, NEW f,
           f = IF op'[t].at = "acquired" THEN host'[op'[t].kfd] ELSE None,
           \A u \in Thread : u # t =>
              /\ op'[u] = op[u]
              /\ op[u].at = "acquired" => host'[op[u].kfd] = host[op[u].kfd]
    PROVE  Using' = [Using EXCEPT ![t] = f]
<1>1. Using'[t] = f /\ \A u \in Thread : u # t => Using'[u] = Using[u]
  BY DEF Using
<1>2. Using = [u \in Thread |-> Using[u]] /\ Using' = [u \in Thread |-> Using'[u]]
  BY DEF Using
<1> QED
  BY <1>1, <1>2

\* Slot s gets file f.
LEMMA TabMoved ==
    ASSUME NEW s \in Slot, NEW f, f = IF fds'[s] = -1 THEN None ELSE host'[fds'[s]],
           \A u \in Slot : u # s =>
              /\ fds'[u] = fds[u]
              /\ fds[u] # -1 => host'[fds[u]] = host[fds[u]]
    PROVE  Tab' = [Tab EXCEPT ![s] = f]
BY DEF Tab

\* The abstract table's lowest free descriptor is the one fdalloc takes.
LEMMA LowestIs ==
    ASSUME FInv PROVE Table!Free = FreeSlots /\ Table!Lowest = Least(FreeSlots)
<1>1. Table!Free = FreeSlots
  BY TabOf DEF Table!Free, FreeSlots, Tab
<1> QED
  BY <1>1 DEF Table!Lowest, Least

\* What a fresh descriptor of the host changes for those who own others.
LEMMA FreshApart ==
    ASSUME FInv, NEW h \in HostFd, NEW f, HostOpens(h, f)
    PROVE  /\ host'[h] = f /\ h # -1
           /\ \A s \in Slot : fds[s] # h /\ (fds[s] # -1 => host'[fds[s]] = host[fds[s]])
           /\ \A t \in Thread : op[t].kfd # h /\ (op[t].kfd # -1 => host'[op[t].kfd] = host[op[t].kfd])
<1>1. host[h] = None /\ ~OwnedBy(h) /\ host' = [host EXCEPT ![h] = f]
  BY HostAnswers
<1>2. host'[h] = f /\ h # -1 /\ \A k \in HostFd : k # h => host'[k] = host[k]
  BY <1>1, FileAssumption DEF FInv, FileTypes, HostFd
<1> QED
  BY <1>1, <1>2, SlotTyped DEF OwnedBy

\* What closing an owned descriptor leaves alone.
LEMMA ClosedApart ==
    ASSUME FInv, NEW k \in HostFd, host' = [host EXCEPT ![k] = None]
    PROVE  /\ \A s \in Slot : fds[s] # k /\ fds[s] # -1 => host'[fds[s]] = host[fds[s]]
           /\ \A t \in Thread : op[t].kfd # k /\ op[t].kfd # -1 => host'[op[t].kfd] = host[op[t].kfd]
BY SlotTyped DEF FInv, FileTypes

\* Before a file is installed, the abstract table sees nothing.
LEMMA RefineOpen ==
    ASSUME FInv, NEW t \in Thread,
           \/ \E p \in PathArg : Chdir(t, p) \/ \E fl \in {"rw", "path"} : OpenResolve(t, p, fl)
           \/ OpenHost(t) \/ OpenUndo(t) \/ Fchdir(t) \/ \E fd \in Slot : FchdirCopy(t, fd)
    PROVE  Tab' = Tab /\ Using' = Using
<1>1. op[t].kfd # -1 <=> op[t].at \in Owning
  BY OpTyped
<1>2. \A u \in Thread : op[u].at = "acquired" => op[u].kfd # -1
  BY OpTyped DEF Owning
<1>3. op = [u \in Thread |-> op[u]]
  BY DEF FInv, FileTypes
<1>4. ASSUME UNCHANGED <<host, fds>>, op[t].at # "acquired",
             \A u \in Thread : u # t => op'[u] = op[u], op'[t].at # "acquired"
      PROVE  Tab' = Tab /\ Using' = Using
  BY <1>4, TabKept, UsingKept
<1>5. CASE \E p \in PathArg : Chdir(t, p)
  BY <1>5 DEF Chdir, Tab, Using
<1>6. CASE \E p \in PathArg : \E fl \in {"rw", "path"} : OpenResolve(t, p, fl)
  <2>1. PICK p \in PathArg, fl \in {"rw", "path"} : OpenResolve(t, p, fl)
    BY <1>6
  <2>2. op[t].at # "acquired" /\ UNCHANGED <<host, fds>>
    BY <2>1 DEF OpenResolve, Idle
  <2>3. op'[t].at = "resolved" /\ \A u \in Thread : u # t => op'[u] = op[u]
    BY <1>3, <2>1 DEF OpenResolve, NoOp
  <2> QED
    BY <1>4, <2>2, <2>3
<1>7. CASE OpenHost(t)
  <2>1. CASE Done(t) /\ UNCHANGED host
    BY <1>3, <1>4, <1>7, <2>1, NoOpTyped DEF OpenHost, Done
  <2>2. CASE \E h \in HostFd : /\ HostOpens(h, op[t].hostPath)
                               /\ op' = [op EXCEPT ![t].at = "opened", ![t].kfd = h]
    <3>1. PICK h \in HostFd : /\ HostOpens(h, op[t].hostPath)
                              /\ op' = [op EXCEPT ![t].at = "opened", ![t].kfd = h]
      BY <2>2
    <3>2. op[t] \in OpOf(op[t].hostPath)
      BY OpTyped
    <3>3. op'[t].at = "opened" /\ \A u \in Thread : u # t => op'[u] = op[u]
      BY <1>3, <3>1, <3>2 DEF OpOf
    <3>4. op[t].at = "resolved" /\ UNCHANGED fds
      BY <1>7 DEF OpenHost
    <3> QED
      BY <1>2, <3>1, <3>3, <3>4, FreshApart, TabKept, UsingKept
  <2> QED
    BY <1>7, <2>1, <2>2 DEF OpenHost
<1>8. CASE OpenUndo(t)
  <2>1. op[t].at = "full" /\ op[t].kfd # -1 /\ UNCHANGED fds
    BY <1>1, <1>8 DEF OpenUndo, Owning
  <2>2. op[t].kfd \in HostFd
    BY <2>1, SlotTyped
  <2>3. host' = [host EXCEPT ![op[t].kfd] = None]
    BY <1>8 DEF OpenUndo
  <2>4. op'[t].at = "idle" /\ \A u \in Thread : u # t => op'[u] = op[u]
    BY <1>3, <1>8, NoOpTyped DEF OpenUndo, Done
  <2>5. /\ \A s \in Slot : fds[s] # op[t].kfd
        /\ \A u \in Thread : u # t => op[u].kfd # op[t].kfd
    BY <2>1 DEF FInv, Apart
  <2> QED
    BY <1>2, <2>1, <2>2, <2>3, <2>4, <2>5, ClosedApart, TabKept, UsingKept
<1>9. CASE Fchdir(t)
  BY <1>3, <1>4, <1>9, NoOpTyped DEF Fchdir, Done
<1>10. CASE \E fd \in Slot : FchdirCopy(t, fd)
  <2>1. PICK fd \in Slot : FchdirCopy(t, fd)
    BY <1>10
  <2>2. op[t].at # "acquired" /\ UNCHANGED <<host, fds>>
    BY <2>1 DEF FchdirCopy, Idle
  <2>3. op'[t].at = "fchdir" /\ \A u \in Thread : u # t => op'[u] = op[u]
    BY <1>3, <2>1 DEF FchdirCopy, NoOp
  <2> QED
    BY <1>4, <2>2, <2>3
<1> QED
  BY <1>5, <1>6, <1>7, <1>8, <1>9, <1>10

\* fdalloc is the abstract table's New, or nothing if the table is full.
LEMMA RefineInstall ==
    ASSUME FInv, NEW t \in Thread, Install(t)
    PROVE  Using' = Using /\ (Tab' = Tab \/ \E f \in File : Table!New(f))
<1>1. op[t] \in OpOf(op[t].hostPath) /\ op[t].at = "opened" /\ op[t].kfd # -1
  BY OpTyped DEF Install, Owning
<1>2. op = [u \in Thread |-> op[u]] /\ UNCHANGED host
  BY DEF FInv, FileTypes, Install
<1>3. op'[t].at # "acquired" /\ \A u \in Thread : u # t => op'[u] = op[u]
  BY <1>1, <1>2, NoOpTyped DEF Install, Done, OpOf
<1>4. Using' = Using
  BY <1>1, <1>2, <1>3, UsingKept
<1>5. CASE FreeSlots = {}
  BY <1>2, <1>4, <1>5 DEF Install, Tab
<1>6. CASE FreeSlots # {}
  <2> DEFINE s == Least(FreeSlots)
             h == op[t].kfd
  <2>1. s \in Slot /\ fds[s] = -1
    BY <1>6, SlotGiven
  <2>2. fds' = [fds EXCEPT ![s] = h]
    BY <1>6 DEF Install
  <2>3. h \in HostFd /\ host[h] \in File
    BY <1>1, SlotTyped DEF FInv, Apart
  <2>4. Table!Lowest = s /\ Table!Free # {}
    BY <1>6, LowestIs
  <2> HIDE DEF s, h
  <2>5. fds'[s] = h /\ \A u \in Slot : u # s => fds'[u] = fds[u]
    BY <2>1, <2>2 DEF FInv, FileTypes
  <2>6. h # -1
    BY <2>3, FileAssumption DEF HostFd
  <2>7. Tab' = [Tab EXCEPT ![s] = host[h]]
    BY <1>2, <2>1, <2>5, <2>6, TabMoved
  <2>9. Table!Free # {} /\ Tab' = [Tab EXCEPT ![Table!Lowest] = host[h]]
    BY <2>4, <2>7
  <2>8. PICK f \in File : f = host[h]
    BY <2>3
  <2>10. Table!New(f)
    BY <1>4, <2>8, <2>9 DEF Table!New, Tab, Using
  <2> QED
    BY <1>4, <2>10
<1> QED
  BY <1>5, <1>6

\* fdacquire is where a call on a descriptor begins.
LEMMA RefineAcquire ==
    ASSUME FInv, NEW t \in Thread, op[t].at \in {"idle", "next"},
           NEW fd \in Slot, NEW call \in Calls, NEW left \in Int, Acquire(t, fd, call, left)
    PROVE  Table!Begin(t, fd)
<1>1. fds[fd] # -1 /\ UNCHANGED fds
  BY DEF Acquire, Refused, Open
<1>2. PICK h \in HostFd :
          /\ HostOpens(h, host[fds[fd]])
          /\ op' = [op EXCEPT ![t] = [NoOp EXCEPT !.at = "acquired", !.fd = fd, !.kfd = h,
                                                 !.call = call, !.left = left]]
  BY DEF Acquire
<1> DEFINE r == [NoOp EXCEPT !.at = "acquired", !.fd = fd, !.kfd = h, !.call = call, !.left = left]
<1>3. r.at = "acquired" /\ r.kfd = h
  BY DEF NoOp
<1>4. op' = [op EXCEPT ![t] = r]
  BY <1>2
<1>5. HostOpens(h, host[fds[fd]])
  BY <1>2
<1> HIDE DEF r
<1>6. op'[t] = r /\ \A u \in Thread : u # t => op'[u] = op[u]
  BY <1>4 DEF FInv, FileTypes
<1>7. /\ host'[h] = host[fds[fd]]
      /\ \A s \in Slot : fds[s] # -1 => host'[fds[s]] = host[fds[s]]
      /\ \A u \in Thread : op[u].kfd # -1 => host'[op[u].kfd] = host[op[u].kfd]
  BY <1>5, FreshApart
<1>8. \A u \in Thread : op[u].at = "acquired" => op[u].kfd # -1
  BY OpTyped DEF Owning
<1>9. Using' = [Using EXCEPT ![t] = host[fds[fd]]]
  BY <1>3, <1>6, <1>7, <1>8, UsingMoved
<1>10. Tab' = Tab
  BY <1>1, <1>7, TabKept
<1>11. Tab[fd] # None /\ Tab[fd] = host[fds[fd]] /\ Using[t] = None
  BY <1>1, TabOf DEF Using
<1> QED
  BY <1>9, <1>10, <1>11 DEF Table!Begin, Tab, Using

\* Closing the copy is where it ends.
LEMMA RefineRelease ==
    ASSUME FInv, NEW t \in Thread, Release(t)
    PROVE  Table!End(t)
<1>1. op[t] \in OpOf(op[t].hostPath) /\ op[t].kfd # -1 /\ UNCHANGED fds
  BY OpTyped DEF Release, Owning
<1>2. op[t].kfd \in HostFd /\ host' = [host EXCEPT ![op[t].kfd] = None]
  BY <1>1, SlotTyped DEF Release
<1>3. op'[t].at # "acquired" /\ \A u \in Thread : u # t => op'[u] = op[u]
  BY <1>1, NoOpTyped DEF Release, Done, OpOf, FInv, FileTypes
<1>4. /\ \A s \in Slot : fds[s] # op[t].kfd
      /\ \A u \in Thread : u # t => op[u].kfd # op[t].kfd
  BY <1>1 DEF FInv, Apart
<1>5. Tab' = Tab
  BY <1>1, <1>2, <1>4, ClosedApart, TabKept
<1>6. \A u \in Thread : op[u].at = "acquired" => op[u].kfd # -1
  BY OpTyped DEF Owning
<1>7. Using' = [Using EXCEPT ![t] = None]
  BY <1>2, <1>3, <1>4, <1>6, ClosedApart, UsingMoved
<1> QED
  BY <1>5, <1>7 DEF Table!End, Tab, Using

\* dup and dup3 copy one slot to another.
LEMMA RefineDup ==
    ASSUME FInv, NEW t \in Thread, NEW old \in Slot, NEW new \in Slot,
           (Dup(t, old) /\ new = Least(FreeSlots)) \/ Dup3(t, old, new)
    PROVE  Table!Copy(old, new)
<1>1. fds[old] # -1 /\ UNCHANGED op
  BY DEF Dup, Dup3, Open
<1>2. PICK h \in HostFd :
          /\ \/ HostOpens(h, host[fds[old]]) /\ fds[new] = -1
             \/ /\ h = fds[new] /\ fds[new] # -1 /\ new # old
                /\ host' = [host EXCEPT ![h] = host[fds[old]]]
          /\ CopySlot(old, new, h)
  <2>1. CASE Dup(t, old) /\ new = Least(FreeSlots)
    BY <2>1, SlotGiven DEF Dup
  <2>2. CASE Dup3(t, old, new)
    BY <2>2 DEF Dup3, Open
  <2> QED
    BY <2>1, <2>2
<1>3. fds'[new] = h /\ \A u \in Slot : u # new => fds'[u] = fds[u]
  BY <1>2 DEF CopySlot, FInv, FileTypes
<1>4. /\ host'[h] = host[fds[old]] /\ h # -1
      /\ \A u \in Slot : u # new /\ fds[u] # -1 => host'[fds[u]] = host[fds[u]]
      /\ \A u \in Thread : op[u].kfd # -1 => host'[op[u].kfd] = host[op[u].kfd]
  <2>1. CASE HostOpens(h, host[fds[old]])
    BY <2>1, FreshApart
  <2>2. CASE h = fds[new] /\ fds[new] # -1 /\ host' = [host EXCEPT ![h] = host[fds[old]]]
    <3>1. /\ \A u \in Slot : u # new => fds[u] # h
          /\ \A u \in Thread : op[u].kfd # h
      BY <2>2 DEF FInv, Apart
    <3> QED
      BY <2>2, <3>1, SlotTyped DEF FInv, FileTypes
  <2> QED
    BY <1>2, <2>1, <2>2
<1>5. Tab' = [Tab EXCEPT ![new] = host[fds[old]]]
  BY <1>3, <1>4, TabMoved
<1>6. \A u \in Thread : op[u].at = "acquired" => op[u].kfd # -1
  BY OpTyped DEF Owning
<1>7. Using' = Using
  BY <1>1, <1>4, <1>6, UsingKept
<1>8. Tab[old] # None /\ Tab[old] = host[fds[old]]
  BY <1>1, TabOf
<1> QED
  BY <1>5, <1>7, <1>8 DEF Table!Copy, Tab, Using

\* close is the abstract table's Close.
LEMMA RefineClose ==
    ASSUME FInv, NEW t \in Thread, NEW fd \in Slot, Close(t, fd)
    PROVE  Table!Close(fd)
<1>1. /\ fds[fd] # -1 /\ UNCHANGED op
      /\ host' = [host EXCEPT ![fds[fd]] = None] /\ fds' = [fds EXCEPT ![fd] = -1]
  BY DEF Close, Open
<1>2. fds[fd] \in HostFd
  BY <1>1, SlotTyped
<1>3. fds'[fd] = -1 /\ \A u \in Slot : u # fd => fds'[u] = fds[u]
  BY <1>1 DEF FInv, FileTypes
<1>4. /\ \A u \in Slot : u # fd => fds[u] # fds[fd]
      /\ \A u \in Thread : op[u].kfd # fds[fd]
  BY <1>1 DEF FInv, Apart
<1>5. Tab' = [Tab EXCEPT ![fd] = None]
  BY <1>1, <1>2, <1>3, <1>4, ClosedApart, TabMoved
<1>6. \A u \in Thread : op[u].at = "acquired" => op[u].kfd # -1
  BY OpTyped DEF Owning
<1>7. Using' = Using
  BY <1>1, <1>2, <1>4, <1>6, ClosedApart, UsingKept
<1> QED
  BY <1>5, <1>7 DEF Table!Close, Tab, Using

\* Releasing the table closes all.
LEMMA RefineFree ==
    ASSUME FInv, FreeTable
    PROVE  Table!CloseAll
<1>1. op' = op /\ (\A t \in Thread : op[t].at = "idle") /\ fds' = [s \in Slot |-> -1]
  BY DEF FreeTable, Idle
<1>2. Tab' = [s \in Slot |-> None]
  BY <1>1 DEF Tab
<1>3. Using' = Using /\ \A t \in Thread : Using[t] = None
  BY <1>1 DEF Using
<1> QED
  BY <1>2, <1>3 DEF Table!CloseAll, Tab, Using

\* The tables begin alike.
LEMMA InitRefines == FileInit => Table!Init
<1> SUFFICES ASSUME FileInit PROVE Table!Init
  OBVIOUS
<1>1. FInv
  BY InitInv
<1>2. Tab \in [Slot -> File \cup {None}]
  BY <1>1, TabOf DEF Tab
<1>3. \A t \in Thread : op[t].at = "idle"
  BY NoOpTyped DEF FileInit
<1>4. Using = [t \in Thread |-> None]
  BY <1>3 DEF Using
<1> QED
  BY <1>2, <1>4 DEF Table!Init, Tab, Using

\* Every step is one of the abstract table or none of its business.
LEMMA StepRefines ==
    FInv /\ [FileNext]_fileVars => [Table!Next]_<<Tab, Using>>
<1> SUFFICES ASSUME FInv, [FileNext]_fileVars PROVE Table!Next \/ (Tab' = Tab /\ Using' = Using)
  BY DEF Tab, Using
<1>1. ASSUME NEW t \in Thread,
             \/ \E p \in PathArg : Chdir(t, p) \/ \E fl \in {"rw", "path"} : OpenResolve(t, p, fl)
             \/ OpenHost(t) \/ OpenUndo(t) \/ Fchdir(t) \/ \E fd \in Slot : FchdirCopy(t, fd)
      PROVE  Tab' = Tab /\ Using' = Using
  BY <1>1, RefineOpen
<1>2. ASSUME NEW t \in Thread, Install(t) PROVE Table!Next \/ (Tab' = Tab /\ Using' = Using)
  BY <1>2, RefineInstall DEF Table!Next
<1>3. ASSUME NEW t \in Thread, NEW fd \in Slot, NEW call \in Calls, NEW n \in 1..MaxIov,
             StartCall(t, fd, call, n)
      PROVE  Table!Next
  <2>1. op[t].at \in {"idle", "next"} /\ Acquire(t, fd, call, n - 1)
    BY <1>3 DEF StartCall, Idle
  <2> QED
    BY <2>1, RefineAcquire DEF Table!Next
<1>4. ASSUME NEW t \in Thread, NextBuffer(t) PROVE Table!Next \/ (Tab' = Tab /\ Using' = Using)
  <2>1. op[t] \in OpOf(op[t].hostPath) /\ op[t].at = "next"
    BY <1>4, OpTyped DEF NextBuffer
  <2>2. op[t].fd \in Slot /\ op[t].call \in Calls /\ op[t].left - 1 \in Int
    BY <2>1 DEF OpOf
  <2>3. CASE Acquire(t, op[t].fd, op[t].call, op[t].left - 1)
    BY <2>1, <2>2, <2>3, RefineAcquire DEF Table!Next
  <2>4. CASE Done(t) /\ UNCHANGED <<host, fds, dirs, flags, cwd, alive>>
    <3>1. op'[t].at = "idle" /\ \A u \in Thread : u # t => op'[u] = op[u]
      BY <2>4, NoOpTyped DEF Done, FInv, FileTypes
    <3> QED
      BY <2>1, <2>4, <3>1, TabKept, UsingKept
  <2> QED
    BY <1>4, <2>3, <2>4 DEF NextBuffer
<1>5. ASSUME NEW t \in Thread, Release(t) PROVE Table!Next
  BY <1>5, RefineRelease DEF Table!Next
<1>6. ASSUME NEW t \in Thread, NEW fd \in Slot, Dup(t, fd) PROVE Table!Next
  <2>1. Least(FreeSlots) \in Slot
    BY <1>6, SlotGiven DEF Dup
  <2> QED
    BY <1>6, <2>1, RefineDup DEF Table!Next
<1>7. ASSUME NEW t \in Thread, NEW fd \in Slot, NEW new \in Slot, Dup3(t, fd, new) PROVE Table!Next
  BY <1>7, RefineDup DEF Table!Next
<1>8. ASSUME NEW t \in Thread, NEW fd \in Slot, Close(t, fd) PROVE Table!Next
  BY <1>8, RefineClose DEF Table!Next
<1>9. CASE FreeTable
  BY <1>9, RefineFree DEF Table!Next
<1>10. CASE UNCHANGED fileVars
  BY <1>10 DEF fileVars, Tab, Using
<1> QED
  BY <1>1, <1>2, <1>3, <1>4, <1>5, <1>6, <1>7, <1>8, <1>9, <1>10 DEF FileNext

\* The descriptor table implements Descriptors: a call works on the file that
\* its descriptor meant when fdacquire duplicated it, and a slot changes only by
\* an open, dup, dup3 or close of it.
THEOREM TableImplements == FileSpec => TableSpec
<1>1. FInv /\ [FileNext]_fileVars
        => [Table!Next]_<<[s \in Slot |-> IF fds[s] = -1 THEN None ELSE host[fds[s]]],
                          [t \in Thread |-> IF op[t].at = "acquired" THEN host[op[t].kfd] ELSE None]>>
  BY StepRefines DEF Tab, Using
<1> QED
  BY <1>1, InitRefines, FilesInvariance, PTL DEF FileSpec, TableSpec, Table!Spec

-----------------------------------------------------------------------------
(* Numbers. *)

\* A set of numbers with 0 and every successor is all of them.
LEMMA AllNumbers ==
    ASSUME NEW S \in SUBSET Nat, 0 \in S, \A n \in S : n + 1 \in S
    PROVE  S = Nat
<1> DEFINE R == OpToRel(<, Nat)
           B == Nat \ S
<1>1. IsWellFoundedOn(R, Nat)
  BY NatLessThanWellFounded
<1>2. \A u, s \in Nat : u < s => <<u, s>> \in R
  BY DEF OpToRel
<1> HIDE DEF R
<1>3. SUFFICES ASSUME B # {} PROVE FALSE
  OBVIOUS
<1>4. B \in SUBSET Nat
  OBVIOUS
<1>5. PICK b \in B : \A u \in B : ~ (<<u, b>> \in R)
  BY <1>1, <1>3, <1>4, WFMin
<1>6. b # 0 /\ b \in Nat /\ b - 1 \in Nat /\ b - 1 < b
  BY <1>5
<1>7. b - 1 \in S
  BY <1>2, <1>5, <1>6
<1>8. (b - 1) + 1 \in S
  BY <1>7, Zenon
<1> QED BY <1>5, <1>6, <1>8

\* A set of numbers with a bound has a greatest one.
LEMMA GreatestIn ==
    ASSUME NEW k \in Nat, NEW S \in SUBSET Int, S # {}, \A x \in S : x \in 0..k
    PROVE  \E m \in S : \A x \in S : x <= m
<1> DEFINE U == {k - x : x \in S}
<1>0. \A x \in S : x \in Int /\ x <= k /\ k - x \in Nat
  OBVIOUS
<1>1. U \in SUBSET Nat /\ U # {}
  BY <1>0
<1>2. Least(U) \in U /\ \A u \in U : Least(U) <= u
  <2> HIDE DEF U
  <2> QED BY <1>1, LeastIs
<1>3. PICK m \in S : Least(U) = k - m
  BY <1>2
<1>4. ASSUME NEW x \in S PROVE x <= m
  <2>1. k - x \in U
    OBVIOUS
  <2>2. k - m <= k - x
    BY <1>2, <1>3, <2>1
  <2> QED BY <2>2
<1> QED BY <1>4

-----------------------------------------------------------------------------
(* Counting normal and back segments. *)

\* One more segment.
LEMMA CountOne ==
    ASSUME NEW segs, NEW k, NEW j \in Nat
    PROVE  /\ Count(segs, k, 1, 0) = 0
           /\ Count(segs, k, 1, j) \in Nat
           /\ Count(segs, k, 1, j + 1) =
                 IF Kind(segs[j + 1]) = k THEN Count(segs, k, 1, j) + 1 ELSE Count(segs, k, 1, j)
<1> DEFINE C(n) == {i \in 1..n : Kind(segs[i]) = k}
<1>1. \A n \in Nat : IsFiniteSet(C(n))
  <2> SUFFICES ASSUME NEW n \in Nat PROVE IsFiniteSet(C(n))
    OBVIOUS
  <2>1. IsFiniteSet(1..n) /\ C(n) \in SUBSET (1..n)
    BY FS_Interval
  <2> QED BY <2>1, FS_Subset
<1>2. Cardinality(C(0)) = 0
  <2>1. C(0) = {}
    OBVIOUS
  <2> QED BY <2>1, FS_EmptySet
<1>3. Cardinality(C(j)) \in Nat
  BY <1>1, FS_CardinalityType
<1>4. CASE Kind(segs[j + 1]) = k
  <2>1. C(j + 1) = C(j) \cup {j + 1} /\ j + 1 \notin C(j)
    BY <1>4
  <2>2. Cardinality(C(j + 1)) = Cardinality(C(j)) + 1
    BY <1>1, <2>1, FS_AddElement
  <2> QED BY <1>2, <1>3, <1>4, <2>2 DEF Count
<1>5. CASE Kind(segs[j + 1]) # k
  <2>1. C(j + 1) = C(j)
    BY <1>5
  <2> QED BY <1>2, <1>3, <1>5, <2>1 DEF Count
<1> QED BY <1>4, <1>5

\* A stretch is counted by what is before its ends.
LEMMA CountFrom ==
    ASSUME NEW segs, NEW k, NEW i \in Nat, NEW j \in Nat, i <= j
    PROVE  Count(segs, k, i + 1, j) = Count(segs, k, 1, j) - Count(segs, k, 1, i)
<1> DEFINE A == {x \in 1..i : Kind(segs[x]) = k}
           B == {x \in (i + 1)..j : Kind(segs[x]) = k}
           C == {x \in 1..j : Kind(segs[x]) = k}
<1>1. IsFiniteSet(A) /\ IsFiniteSet(B)
  <2>1. /\ IsFiniteSet(1..i) /\ A \in SUBSET (1..i)
        /\ IsFiniteSet((i + 1)..j) /\ B \in SUBSET ((i + 1)..j)
    BY FS_Interval
  <2> HIDE DEF A, B
  <2> QED BY <2>1, FS_Subset
<1>2. C = A \cup B /\ A \cap B = {}
  OBVIOUS
<1>3. Cardinality(A \cap B) = 0
  BY <1>2, FS_EmptySet
<1>4. Cardinality(C) = Cardinality(A) + Cardinality(B) - Cardinality(A \cap B)
  BY <1>1, <1>2, FS_Union
<1>5. Cardinality(A) \in Nat /\ Cardinality(B) \in Nat
  BY <1>1, FS_CardinalityType
<1> QED BY <1>3, <1>4, <1>5 DEF Count

\* How many directories the first j segments go up on balance.
Depth(segs, j) == Count(segs, "normal", 1, j) - Count(segs, "back", 1, j)

\* One more segment changes the depth by what it is.
LEMMA DepthStep ==
    ASSUME NEW segs, NEW j \in Nat
    PROVE  /\ Depth(segs, j) \in Int
           /\ Depth(segs, j + 1) = IF Kind(segs[j + 1]) = "normal" THEN Depth(segs, j) + 1
                                   ELSE IF Kind(segs[j + 1]) = "back" THEN Depth(segs, j) - 1
                                   ELSE Depth(segs, j)
<1>1. /\ Count(segs, "normal", 1, j) \in Nat /\ Count(segs, "back", 1, j) \in Nat
      /\ Count(segs, "normal", 1, j + 1) =
            IF Kind(segs[j + 1]) = "normal" THEN Count(segs, "normal", 1, j) + 1 ELSE Count(segs, "normal", 1, j)
      /\ Count(segs, "back", 1, j + 1) =
            IF Kind(segs[j + 1]) = "back" THEN Count(segs, "back", 1, j) + 1 ELSE Count(segs, "back", 1, j)
  BY CountOne
<1> QED BY <1>1 DEF Depth

\* Of the first k segments, the normal ones that no later ones take back.
Kept(segs, k) ==
    {i \in 1..k : Kind(segs[i]) = "normal" /\ \A j \in i..k : Depth(segs, i) <= Depth(segs, j)}

\* What cwk_path_segment_will_be_removed leaves of an absolute path.
LEMMA KeptIsVisible ==
    ASSUME NEW T, NEW segs \in Seq(T)
    PROVE  {i \in DOMAIN segs : ~Removed(segs, i, TRUE)} = Kept(segs, Len(segs))
<1> DEFINE n == Len(segs)
<1>1. DOMAIN segs = 1..n /\ n \in Nat
  OBVIOUS
<1>2. ASSUME NEW i \in 1..n
      PROVE  Removed(segs, i, TRUE) <=> i \notin Kept(segs, n)
  <2>1. \A j \in i..n : Count(segs, "back", i + 1, j) > Count(segs, "normal", i + 1, j)
                          <=> Depth(segs, j) < Depth(segs, i)
    <3> SUFFICES ASSUME NEW j \in i..n
                 PROVE  Count(segs, "back", i + 1, j) > Count(segs, "normal", i + 1, j)
                          <=> Depth(segs, j) < Depth(segs, i)
      OBVIOUS
    <3>1. i \in Nat /\ j \in Nat /\ i <= j
      BY <1>1
    <3>2. /\ Count(segs, "back", i + 1, j) = Count(segs, "back", 1, j) - Count(segs, "back", 1, i)
          /\ Count(segs, "normal", i + 1, j) = Count(segs, "normal", 1, j) - Count(segs, "normal", 1, i)
      BY <3>1, CountFrom
    <3>3. /\ Count(segs, "back", 1, j) \in Nat /\ Count(segs, "back", 1, i) \in Nat
          /\ Count(segs, "normal", 1, j) \in Nat /\ Count(segs, "normal", 1, i) \in Nat
      BY <3>1, CountOne
    <3> QED BY <3>2, <3>3 DEF Depth
  <2>2. \A j \in i..n : Depth(segs, j) \in Int
    BY <1>1, DepthStep
  <2>3. NormalRemoved(segs, i) <=> \E j \in i..n : Depth(segs, j) < Depth(segs, i)
    <3>1. \A j \in (i + 1)..n : j \in i..n
      BY <1>1
    <3>2. \A j \in i..n : Depth(segs, j) < Depth(segs, i) => j \in (i + 1)..n
      BY <1>1, <2>2
    <3> QED BY <2>1, <3>1, <3>2 DEF NormalRemoved
  <2>4. Kind(segs[i]) \in {"current", "back", "normal"}
    BY DEF Kind
  <2>5. i \in i..n
    BY <1>1
  <2>6. (\E j \in i..n : Depth(segs, j) < Depth(segs, i)) <=> ~ \A j \in i..n : Depth(segs, i) <= Depth(segs, j)
    BY <2>2, <2>5
  <2>7. i \in Kept(segs, n) <=> Kind(segs[i]) = "normal" /\ ~NormalRemoved(segs, i)
    BY <2>3, <2>6 DEF Kept
  <2> QED BY <2>4, <2>7 DEF Removed
<1> QED BY <1>1, <1>2 DEF Kept

\* Nothing comes of a segment that is kept last: the depth stays.
LEMMA LastKept ==
    ASSUME NEW segs, NEW k \in Nat, NEW m \in Kept(segs, k), \A i \in Kept(segs, k) : i <= m
    PROVE  Depth(segs, k) = Depth(segs, m)
<1>1. m \in 1..k /\ Depth(segs, m) <= Depth(segs, k)
  BY DEF Kept
<1>2. \A j \in Nat : Depth(segs, j) \in Int
  BY DepthStep
<1>3. SUFFICES ASSUME Depth(segs, m) < Depth(segs, k) PROVE FALSE
  BY <1>1, <1>2
<1> DEFINE S == {j \in m..k : Depth(segs, j) <= Depth(segs, m)}
<1>4. m \in S /\ S \in SUBSET Int /\ \A x \in S : x \in 0..k
  BY <1>1, <1>2
<1>5. PICK j \in S : \A x \in S : x <= j
  <2> HIDE DEF S
  <2> QED BY <1>4, GreatestIn
<1>6. j \in m..k /\ j # k /\ j + 1 \in 1..k /\ j + 1 > m /\ j \in Nat
  BY <1>1, <1>2, <1>3, <1>5
<1>7. \A x \in (j + 1)..k : Depth(segs, m) < Depth(segs, x)
  <2>0. \A x \in (j + 1)..k : x \in Nat /\ x \in m..k /\ j < x
    BY <1>1, <1>6
  <2> SUFFICES ASSUME NEW x \in (j + 1)..k, ~(Depth(segs, m) < Depth(segs, x)) PROVE FALSE
    OBVIOUS
  <2>1. x \in S
    BY <1>1, <1>2, <2>0
  <2> QED BY <1>5, <1>6, <2>0, <2>1
<1>8. Depth(segs, j) <= Depth(segs, m) /\ Depth(segs, m) < Depth(segs, j + 1)
  BY <1>5, <1>6, <1>7
<1>9. Kind(segs[j + 1]) = "normal" /\ Depth(segs, j + 1) = Depth(segs, m) + 1
  BY <1>2, <1>6, <1>8, DepthStep, <1>1
<1>10. \A x \in (j + 1)..k : Depth(segs, j + 1) <= Depth(segs, x)
  BY <1>1, <1>2, <1>6, <1>7, <1>9
<1>11. j + 1 \in Kept(segs, k)
  BY <1>6, <1>9, <1>10 DEF Kept
<1>12. j + 1 <= m /\ m \in Nat /\ j \in Nat /\ j + 1 > m
  BY <1>1, <1>6, <1>11
<1> QED BY <1>12

\* One more segment: a normal one is kept, "." changes nothing and ".." takes
\* the last one that was kept, if there is one.
LEMMA KeptStep ==
    ASSUME NEW segs, NEW k \in Nat
    PROVE  /\ Kind(segs[k + 1]) = "current" => Kept(segs, k + 1) = Kept(segs, k)
           /\ Kind(segs[k + 1]) = "normal" => Kept(segs, k + 1) = Kept(segs, k) \cup {k + 1}
           /\ Kind(segs[k + 1]) = "back" /\ Kept(segs, k) = {} => Kept(segs, k + 1) = {}
           /\ \A m \in Kept(segs, k) :
                 Kind(segs[k + 1]) = "back" /\ (\A i \in Kept(segs, k) : i <= m)
                    => Kept(segs, k + 1) = Kept(segs, k) \ {m}
<1>1. \A j \in Nat : Depth(segs, j) \in Int
  BY DepthStep
<1>2. /\ Kind(segs[k + 1]) = "normal" => Depth(segs, k + 1) = Depth(segs, k) + 1
      /\ Kind(segs[k + 1]) = "back" => Depth(segs, k + 1) = Depth(segs, k) - 1
      /\ Kind(segs[k + 1]) = "current" => Depth(segs, k + 1) = Depth(segs, k)
  BY DepthStep
<1>3. \A i \in 1..k : i \in Kept(segs, k + 1)
                        <=> i \in Kept(segs, k) /\ Depth(segs, i) <= Depth(segs, k + 1)
  <2>1. \A i \in 1..k : i..(k + 1) = (i..k) \cup {k + 1}
    OBVIOUS
  <2> QED BY <2>1 DEF Kept
<1>4. k + 1 \in Kept(segs, k + 1) <=> Kind(segs[k + 1]) = "normal"
  <2>1. (k + 1)..(k + 1) = {k + 1} /\ Depth(segs, k + 1) \in Int
    BY <1>1
  <2> QED BY <2>1 DEF Kept
<1>5. \A i \in Kept(segs, k) : i \in 1..k /\ Depth(segs, i) <= Depth(segs, k)
  BY DEF Kept
<1>6. \A i \in Kept(segs, k + 1) : i \in 1..k \/ i = k + 1
  BY DEF Kept
<1>7. Kind(segs[k + 1]) \in {"current", "normal"} =>
         \A i \in 1..k : i \in Kept(segs, k + 1) <=> i \in Kept(segs, k)
  BY <1>1, <1>2, <1>3, <1>5
<1>8. ASSUME NEW m \in Kept(segs, k), Kind(segs[k + 1]) = "back", \A i \in Kept(segs, k) : i <= m
      PROVE  Kept(segs, k + 1) = Kept(segs, k) \ {m}
  <2>1. Depth(segs, k) = Depth(segs, m)
    BY <1>8, LastKept
  <2>2. m \notin Kept(segs, k + 1)
    BY <1>1, <1>2, <1>3, <1>5, <1>8, <2>1
  <2>3. ASSUME NEW i \in Kept(segs, k), i # m
        PROVE  i \in Kept(segs, k + 1)
    <3>1. i \in 1..k /\ m \in 1..k /\ i < m /\ m - 1 \in i..k /\ m - 1 \in Nat
      BY <1>5, <1>8, <2>3
    <3>2. Depth(segs, i) <= Depth(segs, m - 1)
      BY <3>1 DEF Kept
    <3>3. Depth(segs, (m - 1) + 1) = Depth(segs, m - 1) + 1
      <4>1. Kind(segs[m]) = "normal" /\ (m - 1) + 1 = m
        BY <3>1 DEF Kept
      <4> QED BY <3>1, <4>1, DepthStep
    <3>4. (m - 1) + 1 = m
      BY <3>1
    <3>5. Depth(segs, i) <= Depth(segs, k + 1)
      BY <1>1, <1>2, <1>8, <2>1, <3>1, <3>2, <3>3, <3>4
    <3> QED BY <1>3, <3>1, <3>5
  <2> QED BY <1>3, <1>4, <1>6, <1>8, <2>2, <2>3
<1> QED BY <1>3, <1>4, <1>5, <1>6, <1>7, <1>8
-----------------------------------------------------------------------------
(* Walking over some of the positions, in order. *)

\* q has the elements of S, the lower ones first.
Lists(q, S) ==
    /\ q \in Seq(Nat)
    /\ \A i \in 1..Len(q) : q[i] \in S
    /\ \A i, j \in 1..Len(q) : i < j => q[i] < q[j]
    /\ \A x \in S : \E i \in 1..Len(q) : q[i] = x

\* There is one such sequence, and InOrder is it.
LEMMA InOrderIs ==
    ASSUME NEW S \in SUBSET Nat, NEW q, Lists(q, S)
    PROVE  InOrder(S) = q /\ IsFiniteSet(S)
<1>0. /\ q \in Seq(Nat) /\ Len(q) \in Nat
      /\ \A i \in 1..Len(q) : q[i] \in S /\ q[i] \in Nat
      /\ \A i, j \in 1..Len(q) : i < j => q[i] < q[j]
      /\ \A x \in S : \E i \in 1..Len(q) : q[i] = x
  BY DEF Lists
<1>1. \A i, j \in 1..Len(q) : (q[i] < q[j] <=> i < j) /\ (q[i] = q[j] => i = j)
  <2> SUFFICES ASSUME NEW i \in 1..Len(q), NEW j \in 1..Len(q)
               PROVE  (q[i] < q[j] <=> i < j) /\ (q[i] = q[j] => i = j)
    OBVIOUS
  <2>1. (i < j => q[i] < q[j]) /\ (j < i => q[j] < q[i]) /\ q[i] \in Nat /\ q[j] \in Nat
    BY <1>0
  <2> QED BY <1>0, <2>1
<1>2. ASSUME NEW i \in 1..(Len(q) + 1), NEW U, \A x \in U : \E a \in 1..(i - 1) : q[a] = x,
             \A a \in 1..(i - 1) : q[a] \in U
      PROVE  IsFiniteSet(U) /\ Cardinality(U) = i - 1
  <2> DEFINE f == [a \in 1..(i - 1) |-> q[a]]
  <2>1. \A a \in 1..(i - 1) : a \in 1..Len(q)
    BY <1>0
  <2>2. f \in Bijection(1..(i - 1), U)
    <3>1. f \in [1..(i - 1) -> U]
      BY <1>2
    <3>2. \A a, b \in 1..(i - 1) : f[a] = f[b] => a = b
      BY <1>1, <2>1
    <3>3. \A x \in U : \E a \in 1..(i - 1) : f[a] = x
      BY <1>2
    <3> HIDE DEF f
    <3> QED BY <3>1, <3>2, <3>3 DEF Bijection, Injection, Surjection, IsInjective
  <2>3. IsFiniteSet(1..(i - 1)) /\ Cardinality(1..(i - 1)) = i - 1
    <3>1. i - 1 \in Nat
      BY <1>0
    <3> QED BY <3>1, FS_Interval
  <2> HIDE DEF f
  <2>4. ExistsBijection(1..(i - 1), U)
    BY <2>2 DEF ExistsBijection
  <2> QED BY <2>3, <2>4, FS_Bijection
<1>3. IsFiniteSet(S) /\ Cardinality(S) = Len(q)
  <2>1. Len(q) + 1 \in 1..(Len(q) + 1) /\ (Len(q) + 1) - 1 = Len(q)
    BY <1>0
  <2> QED BY <1>0, <1>2, <2>1
<1>4. \A i \in 1..Len(q) : Cardinality({j \in S : j < q[i]}) = i - 1
  <2> SUFFICES ASSUME NEW i \in 1..Len(q) PROVE Cardinality({j \in S : j < q[i]}) = i - 1
    OBVIOUS
  <2> DEFINE U == {j \in S : j < q[i]}
  <2>0. i \in 1..(Len(q) + 1) /\ \A a \in 1..(i - 1) : a \in 1..Len(q) /\ a < i
    BY <1>0
  <2>1. \A x \in U : \E a \in 1..(i - 1) : q[a] = x
    <3> SUFFICES ASSUME NEW x \in U PROVE \E a \in 1..(i - 1) : q[a] = x
      OBVIOUS
    <3>1. PICK a \in 1..Len(q) : q[a] = x
      BY <1>0
    <3>2. a < i
      BY <1>1, <3>1
    <3> QED BY <1>0, <3>1, <3>2
  <2>2. \A a \in 1..(i - 1) : q[a] \in U
    BY <1>0, <1>1, <2>0
  <2> HIDE DEF U
  <2>3. Cardinality(U) = i - 1
    BY <1>2, <2>0, <2>1, <2>2
  <2> QED BY <2>3 DEF U
<1>5. \A n \in 1..Len(q) : (CHOOSE i \in S : Cardinality({j \in S : j < i}) = n - 1) = q[n]
  <2> SUFFICES ASSUME NEW n \in 1..Len(q)
               PROVE  (CHOOSE i \in S : Cardinality({j \in S : j < i}) = n - 1) = q[n]
    OBVIOUS
  <2> DEFINE C(i) == Cardinality({j \in S : j < i})
  <2>1. q[n] \in S /\ C(q[n]) = n - 1
    BY <1>0, <1>4
  <2>2. \A i \in S : C(i) = n - 1 => i = q[n]
    <3> SUFFICES ASSUME NEW i \in S, C(i) = n - 1 PROVE i = q[n]
      OBVIOUS
    <3>1. PICK a \in 1..Len(q) : q[a] = i
      BY <1>0
    <3>2. C(i) = a - 1
      BY <1>4, <3>1
    <3> QED BY <1>0, <3>1, <3>2
  <2> HIDE DEF C
  <2>3. (CHOOSE i \in S : C(i) = n - 1) = q[n]
    BY <2>1, <2>2
  <2> QED BY <2>3 DEF C
<1>6. InOrder(S) = [n \in 1..Len(q) |-> q[n]]
  BY <1>3, <1>5 DEF InOrder
<1>7. q = [n \in 1..Len(q) |-> q[n]]
  BY <1>0
<1> QED BY <1>3, <1>6, <1>7

\* The empty set has one list.
LEMMA ListsNone == Lists(<<>>, {}) /\ \A q : Lists(q, {}) => q = <<>>
<1>1. Lists(<<>>, {})
  BY DEF Lists
<1>2. ASSUME NEW q, Lists(q, {}) PROVE q = <<>>
  <2>1. q \in Seq(Nat) /\ \A i \in 1..Len(q) : FALSE
    BY <1>2 DEF Lists
  <2>2. Len(q) \in Nat /\ (Len(q) # 0 => 1 \in 1..Len(q))
    BY <2>1
  <2> QED BY <2>1, <2>2
<1> QED BY <1>1, <1>2

\* One more, above the others.
LEMMA ListsMore ==
    ASSUME NEW S \in SUBSET Nat, NEW q, Lists(q, S), NEW x \in Nat, \A y \in S : y < x
    PROVE  Lists(Append(q, x), S \cup {x})
<1> DEFINE r == Append(q, x)
<1>0. /\ q \in Seq(Nat) /\ Len(q) \in Nat
      /\ \A i \in 1..Len(q) : q[i] \in S /\ q[i] \in Nat
      /\ \A i, j \in 1..Len(q) : i < j => q[i] < q[j]
      /\ \A y \in S : \E i \in 1..Len(q) : q[i] = y
  BY DEF Lists
<1>1. /\ r \in Seq(Nat) /\ Len(r) = Len(q) + 1 /\ r[Len(q) + 1] = x
      /\ \A i \in 1..Len(q) : r[i] = q[i]
  BY <1>0, AppendProperties
<1>2. \A i \in 1..Len(r) : i \in 1..Len(q) \/ i = Len(q) + 1
  BY <1>0, <1>1
<1> HIDE DEF r
<1>3. \A i \in 1..Len(r) : r[i] \in S \cup {x}
  BY <1>0, <1>1, <1>2
<1>4. \A i, j \in 1..Len(r) : i < j => r[i] < r[j]
  <2> SUFFICES ASSUME NEW i \in 1..Len(r), NEW j \in 1..Len(r), i < j PROVE r[i] < r[j]
    OBVIOUS
  <2>1. i \in 1..Len(q)
    BY <1>0, <1>1
  <2>2. CASE j \in 1..Len(q)
    BY <1>0, <1>1, <2>1, <2>2
  <2>3. CASE j = Len(q) + 1
    BY <1>0, <1>1, <2>1, <2>3
  <2> QED BY <1>2, <2>2, <2>3
<1>5. \A y \in S \cup {x} : \E i \in 1..Len(r) : r[i] = y
  <2> SUFFICES ASSUME NEW y \in S \cup {x} PROVE \E i \in 1..Len(r) : r[i] = y
    OBVIOUS
  <2>1. Len(q) + 1 \in 1..Len(r) /\ \A i \in 1..Len(q) : i \in 1..Len(r)
    BY <1>0, <1>1
  <2>2. CASE y = x
    BY <1>1, <2>1, <2>2
  <2>3. CASE y \in S
    <3>1. PICK i \in 1..Len(q) : q[i] = y
      BY <1>0, <2>3
    <3> QED BY <1>1, <2>1, <3>1
  <2> QED BY <2>2, <2>3
<1> QED BY <1>1, <1>3, <1>4, <1>5 DEF Lists, r

\* A sequence without its last element.
LEMMA FrontIs ==
    ASSUME NEW T, NEW q \in Seq(T), q # <<>>
    PROVE  /\ Front(q) \in Seq(T) /\ Len(Front(q)) = Len(q) - 1 /\ Len(q) \in Nat \ {0}
           /\ \A i \in 1..(Len(q) - 1) : Front(q)[i] = q[i]
<1> DEFINE n == Len(q)
<1>1. n \in Nat /\ n # 0 /\ \A i \in 1..(n - 1) : q[i] \in T
  <2>1. n \in Nat /\ n # 0
    OBVIOUS
  <2>2. \A i \in 1..(n - 1) : i \in 1..n
    BY <2>1
  <2> QED BY <2>1, <2>2
<1>2. n - 1 \in Int /\ 1 \in Int /\ Front(q) = SubSeq(q, 1, n - 1)
  BY <1>1 DEF Front
<1>3. /\ SubSeq(q, 1, n - 1) \in Seq(T)
      /\ Len(SubSeq(q, 1, n - 1)) = IF 1 <= n - 1 THEN (n - 1) - 1 + 1 ELSE 0
      /\ \A i \in 1..((n - 1) - 1 + 1) : SubSeq(q, 1, n - 1)[i] = q[1 + i - 1]
  BY <1>1, <1>2, SubSeqProperties
<1> HIDE DEF n
<1>4. (IF 1 <= n - 1 THEN (n - 1) - 1 + 1 ELSE 0) = n - 1
  BY <1>1
<1>5. \A i \in 1..(n - 1) : i \in 1..((n - 1) - 1 + 1) /\ 1 + i - 1 = i
  BY <1>1
<1> QED BY <1>1, <1>2, <1>3, <1>4, <1>5 DEF n

\* One less, the last.
LEMMA ListsLess ==
    ASSUME NEW S \in SUBSET Nat, NEW q, Lists(q, S), q # <<>>
    PROVE  /\ q[Len(q)] \in S /\ \A y \in S : y <= q[Len(q)]
           /\ Lists(Front(q), S \ {q[Len(q)]})
<1> DEFINE r == Front(q)
           n == Len(q)
<1>0. /\ q \in Seq(Nat) /\ n \in Nat /\ n # 0 /\ n \in 1..n
      /\ \A i \in 1..n : q[i] \in S /\ q[i] \in Nat
      /\ \A i, j \in 1..n : i < j => q[i] < q[j]
      /\ \A y \in S : \E i \in 1..n : q[i] = y
  <2>1. q \in Seq(Nat) /\ n \in Nat /\ n # 0
    BY DEF Lists
  <2> QED BY <2>1 DEF Lists
<1>1. r \in Seq(Nat) /\ Len(r) = n - 1 /\ \A i \in 1..(n - 1) : r[i] = q[i]
  BY <1>0, FrontIs
<1>2. \A i \in 1..(n - 1) : i \in 1..n /\ i < n
  BY <1>0
<1> HIDE DEF r, n
<1>3. \A i \in 1..(n - 1) : q[i] < q[n]
  BY <1>0, <1>2
<1>4. \A y \in S : y = q[n] \/ \E i \in 1..(n - 1) : q[i] = y
  <2> SUFFICES ASSUME NEW y \in S, y # q[n] PROVE \E i \in 1..(n - 1) : q[i] = y
    OBVIOUS
  <2>1. PICK i \in 1..n : q[i] = y
    BY <1>0
  <2>2. i # n
    BY <2>1
  <2> QED BY <1>0, <2>1, <2>2
<1>5. q[n] \in S /\ \A y \in S : y <= q[n]
  BY <1>0, <1>3, <1>4
<1>6. \A i \in 1..Len(r) : r[i] \in S \ {q[n]}
  BY <1>0, <1>1, <1>2, <1>3
<1>7. \A i, j \in 1..Len(r) : i < j => r[i] < r[j]
  BY <1>0, <1>1, <1>2
<1>8. \A y \in S \ {q[n]} : \E i \in 1..Len(r) : r[i] = y
  BY <1>1, <1>4
<1> QED BY <1>1, <1>5, <1>6, <1>7, <1>8 DEF Lists, r, n

\* Any positions can be listed.
LEMMA Listed ==
    ASSUME NEW n \in Nat, NEW S \in SUBSET (1..n)
    PROVE  Lists(InOrder(S), S)
<1> DEFINE Ok == {k \in Nat : \E q : Lists(q, S \cap (1..k))}
<1>1. 0 \in Ok
  <2>1. S \cap (1..0) = {}
    OBVIOUS
  <2> QED BY <2>1, ListsNone
<1>2. ASSUME NEW k \in Ok PROVE k + 1 \in Ok
  <2>1. PICK q : Lists(q, S \cap (1..k))
    BY <1>2
  <2>2. S \cap (1..k) \in SUBSET Nat /\ k \in Nat /\ k + 1 \in Nat /\ \A y \in S \cap (1..k) : y < k + 1
    OBVIOUS
  <2>3. CASE k + 1 \in S
    <3>1. S \cap (1..(k + 1)) = (S \cap (1..k)) \cup {k + 1}
      BY <2>2, <2>3
    <3>2. Lists(Append(q, k + 1), (S \cap (1..k)) \cup {k + 1})
      BY <2>1, <2>2, ListsMore
    <3> QED BY <2>2, <3>1, <3>2
  <2>4. CASE k + 1 \notin S
    <3>1. S \cap (1..(k + 1)) = S \cap (1..k)
      BY <2>2, <2>4
    <3> QED BY <2>1, <2>2, <3>1
  <2> QED BY <2>3, <2>4
<1>3. Ok = Nat
  <2>1. Ok \in SUBSET Nat
    OBVIOUS
  <2> HIDE DEF Ok
  <2> QED BY <1>1, <1>2, <2>1, AllNumbers
<1>4. PICK q : Lists(q, S \cap (1..n))
  BY <1>3
<1>5. S \cap (1..n) = S /\ S \in SUBSET Nat
  <2>1. \A x \in S : x \in 1..n /\ x \in Nat
    OBVIOUS
  <2> QED BY <2>1
<1> QED BY <1>4, <1>5, InOrderIs
-----------------------------------------------------------------------------
(* What a walk comes to. *)

\* One segment of a walk.
Step(at, s) ==
    IF s = "." THEN at
    ELSE IF s # ".." THEN Append(at, s)
    ELSE IF at = <<>> THEN at ELSE Front(at)

\* Walk is a fold: f has its value on sets of positions, the last one first.
Follows(f, D, from, segs) ==
    f = [s \in D |-> IF s = {} THEN from ELSE Step(f[s \ {Max(s)}], segs[Max(s)])]

\* The fold of Walk is a function on sets of positions.
LEMMA Unfold ==
    ASSUME NEW from, NEW segs
    PROVE  Walk(from, segs) = (CHOOSE f : Follows(f, SUBSET DOMAIN segs, from, segs))[DOMAIN segs]
BY DEF Walk, FoldLeft, MapThenFoldSet, Follows, Step

\* The fold takes the last position first.
LEMMA MaxIs ==
    ASSUME NEW S \in SUBSET Int, NEW m \in S, \A x \in S : x <= m
    PROVE  Max(S) = m
<1>1. \A y \in S : (\A x \in S : y >= x) => y = m
  <2> SUFFICES ASSUME NEW y \in S, \A x \in S : y >= x PROVE y = m
    OBVIOUS
  <2>1. y \in Int /\ m \in Int /\ y >= m /\ y <= m
    OBVIOUS
  <2> QED BY <2>1
<1>2. \A x \in S : m >= x
  OBVIOUS
<1> QED BY <1>1, <1>2 DEF Max

\* The recursion has a solution.
LEMMA Solvable ==
    ASSUME NEW from, NEW segs, NEW n \in Nat
    PROVE  \E f : Follows(f, SUBSET (1..n), from, segs)
<1> DEFINE Ok == {k \in Nat : \E f : Follows(f, SUBSET (1..k), from, segs)}
<1>1. 0 \in Ok
  <2> DEFINE f == [s \in SUBSET (1..0) |-> from]
  <2>1. \A s \in SUBSET (1..0) : s = {}
    OBVIOUS
  <2>2. Follows(f, SUBSET (1..0), from, segs)
    BY <2>1 DEF Follows
  <2> QED BY <2>2
<1>2. ASSUME NEW k \in Ok PROVE k + 1 \in Ok
  <2>1. PICK f : Follows(f, SUBSET (1..k), from, segs)
    BY <1>2
  <2> DEFINE D == SUBSET (1..(k + 1))
             g == [s \in D |-> IF k + 1 \in s THEN Step(f[s \ {k + 1}], segs[k + 1]) ELSE f[s]]
             V(h, s) == IF s = {} THEN from ELSE Step(h[s \ {Max(s)}], segs[Max(s)])
  <2>2. k \in Nat /\ k + 1 \notin 1..k /\ 1..(k + 1) = (1..k) \cup {k + 1}
    OBVIOUS
  <2>3. \A s \in SUBSET (1..k) : s \in D /\ g[s] = f[s]
    <3>1. \A s \in SUBSET (1..k) : s \in D /\ k + 1 \notin s
      BY <2>2
    <3> HIDE DEF D
    <3> QED BY <3>1
  <2>4. \A s \in SUBSET (1..k) : f[s] = V(f, s)
    BY <2>1 DEF Follows
  <2>5. ASSUME NEW s \in D, k + 1 \in s
        PROVE  Max(s) = k + 1 /\ s \ {k + 1} \in SUBSET (1..k) /\ s # {}
    <3>1. s \in SUBSET Int /\ \A x \in s : x <= k + 1
      <4>1. \A x \in s : x \in 1..(k + 1)
        OBVIOUS
      <4>2. \A x \in 1..(k + 1) : x \in Int /\ x <= k + 1
        BY <2>2
      <4> QED BY <4>1, <4>2
    <3>2. s \ {k + 1} \in SUBSET (1..k)
      BY <2>2
    <3> QED BY <2>5, <3>1, <3>2, MaxIs
  <2>6. ASSUME NEW s \in D, k + 1 \notin s, s # {}
        PROVE  s \in SUBSET (1..k) /\ s \ {Max(s)} \in SUBSET (1..k)
    BY <2>2, <2>6
  <2>7. \A s \in D : g[s] = V(g, s)
    <3> SUFFICES ASSUME NEW s \in D PROVE g[s] = V(g, s)
      OBVIOUS
    <3>1. CASE k + 1 \in s
      <4>1. g[s] = Step(f[s \ {k + 1}], segs[k + 1])
        BY <3>1
      <4>2. g[s \ {k + 1}] = f[s \ {k + 1}]
        BY <2>3, <2>5, <3>1
      <4> HIDE DEF g
      <4> QED BY <2>5, <3>1, <4>1, <4>2
    <3>2. CASE k + 1 \notin s
      <4>1. g[s] = f[s] /\ s \in SUBSET (1..k)
        BY <2>2, <3>2
      <4>2. CASE s = {}
        <5> HIDE DEF g
        <5> QED BY <2>4, <4>1, <4>2
      <4>3. CASE s # {}
        <5>1. g[s \ {Max(s)}] = f[s \ {Max(s)}]
          BY <2>3, <2>6, <3>2, <4>3
        <5> HIDE DEF g
        <5> QED BY <2>4, <4>1, <4>3, <5>1
      <4> QED BY <4>2, <4>3
    <3> QED BY <3>1, <3>2
  <2>8. Follows(g, D, from, segs)
    <3>1. g = [s \in D |-> g[s]]
      OBVIOUS
    <3> HIDE DEF g, D
    <3> QED BY <2>7, <3>1 DEF Follows
  <2> QED BY <2>2, <2>8
<1>3. Ok = Nat
  <2>1. Ok \in SUBSET Nat
    OBVIOUS
  <2> HIDE DEF Ok
  <2> QED BY <1>1, <1>2, <2>1, AllNumbers
<1> QED BY <1>3

\* Whatever takes the same steps comes to the same place.
LEMMA WalkIs ==
    ASSUME NEW T, NEW segs \in Seq(T), NEW from, NEW g, g[0] = from,
           \A i \in 1..Len(segs) : g[i] = Step(g[i - 1], segs[i])
    PROVE  Walk(from, segs) = g[Len(segs)]
<1> DEFINE n == Len(segs)
<1>1. n \in Nat /\ DOMAIN segs = 1..n
  OBVIOUS
<1>2. PICK f : Follows(f, SUBSET (1..n), from, segs) /\ Walk(from, segs) = f[1..n]
  <2>1. \E f : Follows(f, SUBSET (1..n), from, segs)
    BY <1>1, Solvable
  <2>2. Walk(from, segs) = (CHOOSE f : Follows(f, SUBSET (1..n), from, segs))[1..n]
    BY <1>1, Unfold
  <2> QED BY <2>1, <2>2
<1>3. \A s \in SUBSET (1..n) : f[s] = IF s = {} THEN from ELSE Step(f[s \ {Max(s)}], segs[Max(s)])
  BY <1>2 DEF Follows
<1> HIDE DEF n
<1> DEFINE Ok == {k \in Nat : k <= n => f[1..k] = g[k]}
<1>4. 0 \in Ok
  <2>1. 1..0 = {} /\ {} \in SUBSET (1..n)
    OBVIOUS
  <2> QED BY <1>3, <2>1
<1>5. ASSUME NEW k \in Ok PROVE k + 1 \in Ok
  <2>1. k \in Nat /\ (k <= n => f[1..k] = g[k])
    OBVIOUS
  <2> SUFFICES ASSUME k + 1 <= n PROVE f[1..(k + 1)] = g[k + 1]
    BY <2>1
  <2>2. /\ 1..(k + 1) \in SUBSET (1..n) /\ 1..(k + 1) # {} /\ k <= n
        /\ (1..(k + 1)) \ {k + 1} = 1..k /\ k + 1 \in 1..n /\ (k + 1) - 1 = k
    <3>1. k + 1 \in 1..n /\ k <= n /\ (k + 1) - 1 = k
      BY <1>1, <2>1
    <3>2. \A x : x \in 1..(k + 1) <=> x \in 1..k \/ x = k + 1
      BY <2>1
    <3>3. k + 1 \notin 1..k
      BY <2>1
    <3>4. \A x \in 1..(k + 1) : x \in 1..n
      BY <1>1, <3>1
    <3> QED BY <3>1, <3>2, <3>3, <3>4
  <2>3. Max(1..(k + 1)) = k + 1
    <3>1. 1..(k + 1) \in SUBSET Int /\ k + 1 \in 1..(k + 1) /\ \A x \in 1..(k + 1) : x <= k + 1
      BY <2>1
    <3> QED BY <3>1, MaxIs
  <2>4. f[1..(k + 1)] = Step(f[1..k], segs[k + 1])
    BY <1>3, <2>2, <2>3
  <2>5. g[k + 1] = Step(g[k], segs[k + 1])
    <3>1. g[k + 1] = Step(g[(k + 1) - 1], segs[k + 1])
      BY <2>2 DEF n
    <3> QED BY <2>2, <3>1
  <2> QED BY <2>1, <2>2, <2>4, <2>5
<1>6. Ok = Nat
  <2>1. Ok \in SUBSET Nat
    OBVIOUS
  <2> HIDE DEF Ok
  <2> QED BY <1>4, <1>5, <2>1, AllNumbers
<1>7. f[1..n] = g[n]
  BY <1>1, <1>6
<1> QED BY <1>2, <1>7 DEF n

\* The segments at the positions q.
Named(q, segs) == [i \in 1..Len(q) |-> segs[q[i]]]

\* They are as many as the positions, and each is the segment there.
LEMMA NamedIs ==
    ASSUME NEW T, NEW segs \in Seq(T), NEW S \in SUBSET (1..Len(segs)), NEW q, Lists(q, S)
    PROVE  /\ Named(q, segs) \in Seq(T) /\ Len(Named(q, segs)) = Len(q) /\ Len(q) \in Nat
           /\ \A i \in 1..Len(q) : q[i] \in 1..Len(segs) /\ Named(q, segs)[i] = segs[q[i]]
           /\ Named(q, segs) = <<>> <=> q = <<>>
<1>1. q \in Seq(Nat) /\ Len(q) \in Nat /\ \A i \in 1..Len(q) : q[i] \in 1..Len(segs)
  BY DEF Lists
<1>2. \A i \in 1..Len(q) : segs[q[i]] \in T
  BY <1>1
<1> DEFINE r == Named(q, segs)
<1>3. r = [i \in 1..Len(q) |-> segs[q[i]]]
  BY DEF Named
<1> HIDE DEF r
<1>4. r \in Seq(T) /\ Len(r) = Len(q)
  BY <1>1, <1>2, <1>3
<1>5. r = <<>> <=> q = <<>>
  BY <1>1, <1>4
<1> QED BY <1>1, <1>3, <1>4, <1>5 DEF r

\* The segments that are kept, in the order of the path.
LEMMA KeptNamed ==
    ASSUME NEW T, NEW segs \in Seq(T), NEW q, Lists(q, Kept(segs, Len(segs)))
    PROVE  Len(Named(q, segs)) = Len(q) /\ \A i \in 1..Len(q) : Named(q, segs)[i] = segs[q[i]]
<1>1. Kept(segs, Len(segs)) \in SUBSET (1..Len(segs))
  BY DEF Kept
<1> QED BY <1>1, NamedIs

\* What is kept of the first segments, each walk of cwk_path_normalize step by
\* step, is where the directories lead.
LEMMA KeptNames ==
    ASSUME NEW T, NEW segs \in Seq(T), NEW k \in Nat, k + 1 <= Len(segs)
    PROVE  Named(InOrder(Kept(segs, k + 1)), segs)
             = Step(Named(InOrder(Kept(segs, k)), segs), segs[k + 1])
<1> DEFINE K == Kept(segs, k)
           L == Kept(segs, k + 1)
           q == InOrder(K)
           r == InOrder(L)
           x == segs[k + 1]
           n == Len(segs)
<1>1. /\ n \in Nat /\ k + 1 \in 1..n /\ K \in SUBSET (1..k) /\ L \in SUBSET (1..(k + 1))
      /\ K \in SUBSET (1..n) /\ L \in SUBSET (1..n) /\ x \in T
  <2>1. n \in Nat /\ k + 1 \in 1..n /\ x \in T
    OBVIOUS
  <2>2. \A y \in 1..(k + 1) : y \in 1..n
    BY <2>1
  <2>3. \A y \in 1..k : y \in 1..n
    BY <2>1
  <2>4. K \in SUBSET (1..k) /\ L \in SUBSET (1..(k + 1))
    BY DEF Kept
  <2> QED BY <2>1, <2>2, <2>3, <2>4
<1>2. Lists(q, K) /\ Lists(r, L) /\ k + 1 \in Nat
  <2> HIDE DEF K, L, n
  <2>1. Lists(InOrder(K), K)
    BY <1>1, Listed
  <2>2. Lists(InOrder(L), L)
    BY <1>1, Listed
  <2> QED BY <2>1, <2>2
<1>3. K \in SUBSET Nat /\ L \in SUBSET Nat /\ \A y \in K : y < k + 1
  BY <1>1
<1>4. /\ Kind(x) = "current" => L = K
      /\ Kind(x) = "normal" => L = K \cup {k + 1}
      /\ Kind(x) = "back" /\ K = {} => L = {}
      /\ \A m \in K : Kind(x) = "back" /\ (\A i \in K : i <= m) => L = K \ {m}
  BY KeptStep
<1>5. /\ Kind(x) = "current" <=> x = "."
      /\ Kind(x) = "back" <=> x = ".."
      /\ Kind(x) = "normal" <=> x # "." /\ x # ".."
  BY DEF Kind
<1>6. /\ Named(q, segs) \in Seq(T) /\ Len(Named(q, segs)) = Len(q) /\ Len(q) \in Nat
      /\ \A i \in 1..Len(q) : q[i] \in 1..n /\ Named(q, segs)[i] = segs[q[i]]
      /\ Named(q, segs) = <<>> <=> q = <<>>
  <2>1. K \in SUBSET (1..Len(segs)) /\ Lists(q, K)
    BY <1>1, <1>2
  <2> HIDE DEF q, K
  <2> QED BY <2>1, NamedIs
<1>7. /\ Named(r, segs) \in Seq(T) /\ Len(Named(r, segs)) = Len(r) /\ Len(r) \in Nat
      /\ \A i \in 1..Len(r) : r[i] \in 1..n /\ Named(r, segs)[i] = segs[r[i]]
      /\ Named(r, segs) = <<>> <=> r = <<>>
  <2>1. L \in SUBSET (1..Len(segs)) /\ Lists(r, L)
    BY <1>1, <1>2
  <2> HIDE DEF r, L
  <2> QED BY <2>1, NamedIs
<1>8. q \in Seq(Nat) /\ r \in Seq(Nat)
  BY <1>2 DEF Lists
<1>9. CASE x = "."
  <2>1. r = q
    BY <1>4, <1>5, <1>9
  <2>2. Step(Named(q, segs), x) = Named(q, segs)
    <3> HIDE DEF q, x
    <3> QED BY <1>9 DEF Step
  <2> HIDE DEF q, r, x, K, L
  <2>3. Named(r, segs) = Step(Named(q, segs), x)
    BY <2>1, <2>2
  <2> QED BY <2>3 DEF q, r, x, K, L
<1>10. CASE x # "." /\ x # ".."
  <2>1. L = K \cup {k + 1}
    BY <1>4, <1>5, <1>10
  <2>2. Lists(Append(q, k + 1), L)
    <3> HIDE DEF q, K, L
    <3> QED BY <1>2, <1>3, <2>1, ListsMore
  <2>3. r = Append(q, k + 1)
    <3> HIDE DEF q, L
    <3> QED BY <1>3, <2>2, InOrderIs
  <2> DEFINE a == Append(Named(q, segs), x)
  <2> HIDE DEF q, r, K, L, x, n
  <2>4. /\ Len(r) = Len(q) + 1 /\ r[Len(q) + 1] = k + 1
        /\ \A i \in 1..Len(q) : r[i] = q[i]
    BY <1>8, <2>3, <1>2, AppendProperties
  <2>5. /\ a \in Seq(T) /\ Len(a) = Len(q) + 1 /\ a[Len(q) + 1] = x
        /\ \A i \in 1..Len(q) : a[i] = segs[q[i]]
    BY <1>1, <1>6, AppendProperties
  <2>6. \A i \in 1..Len(r) : Named(r, segs)[i] = a[i]
    <3> SUFFICES ASSUME NEW i \in 1..Len(r) PROVE Named(r, segs)[i] = a[i]
      OBVIOUS
    <3>1. Named(r, segs)[i] = segs[r[i]]
      BY <1>7
    <3>2. CASE i \in 1..Len(q)
      BY <2>4, <2>5, <3>1, <3>2
    <3>3. CASE i = Len(q) + 1
      BY <2>4, <2>5, <3>1, <3>3 DEF x
    <3> QED BY <1>6, <2>4, <3>2, <3>3
  <2>7. Named(r, segs) = a
    <3> HIDE DEF a
    <3> QED BY <1>7, <2>4, <2>5, <2>6, SeqEqual
  <2>8. Step(Named(q, segs), x) = a
    BY <1>10 DEF Step, a
  <2> QED BY <2>7, <2>8 DEF x, q, r, K, L
<1>11. CASE x = ".."
  <2>0. Kind(x) = "back"
    BY <1>5, <1>11
  <2>1. CASE q = <<>>
    <3>1. K = {}
      BY <1>2, <2>1 DEF Lists
    <3>2. r = <<>>
      BY <1>2, <1>4, <2>0, <3>1, ListsNone
    <3>3. Named(q, segs) = <<>> /\ Named(r, segs) = <<>>
      BY <1>6, <1>7, <2>1, <3>2
    <3> HIDE DEF q, r, K, L, x, n
    <3>4. Step(Named(q, segs), x) = <<>>
      BY <1>11, <3>3 DEF Step
    <3> QED BY <3>3, <3>4 DEF x, q, r, K, L
  <2>2. CASE q # <<>>
    <3> DEFINE m == q[Len(q)]
    <3>1. m \in K /\ (\A y \in K : y <= m) /\ Lists(Front(q), K \ {m})
      <4> HIDE DEF q, K
      <4> QED BY <1>2, <1>3, <2>2, ListsLess
    <3>2. L = K \ {m}
      <4> HIDE DEF m, K, L
      <4> QED BY <1>4, <2>0, <3>1
    <3>3. r = Front(q)
      <4> HIDE DEF q, L, K, m
      <4> QED BY <1>3, <3>1, <3>2, InOrderIs
    <3> DEFINE a == Front(Named(q, segs))
    <3> HIDE DEF q, r, K, L, x, n, m
    <3>4. Len(q) \in Nat \ {0} /\ Len(q) - 1 \in Nat /\ \A i \in 1..(Len(q) - 1) : i \in 1..Len(q)
      BY <1>8, <2>2
    <3>5. Len(r) = Len(q) - 1 /\ \A i \in 1..(Len(q) - 1) : r[i] = q[i]
      BY <1>8, <2>2, <3>3, FrontIs
    <3>9. Named(q, segs) # <<>>
      BY <1>6, <2>2
    <3>6. /\ a \in Seq(T) /\ Len(a) = Len(q) - 1
          /\ \A i \in 1..(Len(q) - 1) : a[i] = Named(q, segs)[i]
      BY <1>6, <3>9, FrontIs
    <3>7. \A i \in 1..Len(r) : Named(r, segs)[i] = a[i]
      BY <1>6, <1>7, <3>4, <3>5, <3>6
    <3>8. Named(r, segs) = a
      <4> HIDE DEF a
      <4> QED BY <1>7, <3>5, <3>6, <3>7, SeqEqual
    <3>10. Step(Named(q, segs), x) = a
      BY <1>11, <3>9 DEF Step
    <3> QED BY <3>8, <3>10 DEF x, q, r, K, L
  <2> QED BY <2>1, <2>2
<1> QED BY <1>9, <1>10, <1>11

\* What cwk_path_normalize leaves of an absolute path is where a walk along it
\* leads.
LEMMA NormalForm ==
    ASSUME NEW T, NEW segs \in Seq(T)
    PROVE  /\ Lists(Visible(segs, TRUE), Kept(segs, Len(segs)))
           /\ Walk(<<>>, segs) = Named(Visible(segs, TRUE), segs)
<1> DEFINE n == Len(segs)
           g == [k \in 0..n |-> Named(InOrder(Kept(segs, k)), segs)]
<1>1. n \in Nat /\ Kept(segs, n) \in SUBSET (1..n)
  BY DEF Kept
<1>2. Visible(segs, TRUE) = InOrder(Kept(segs, n))
  BY KeptIsVisible DEF Visible
<1>3. Lists(Visible(segs, TRUE), Kept(segs, n))
  BY <1>1, <1>2, Listed
<1>4. g[0] = <<>>
  <2>1. Kept(segs, 0) = {}
    BY DEF Kept
  <2>2. InOrder({}) = <<>>
    BY ListsNone, InOrderIs
  <2>3. Named(<<>>, segs) = <<>>
    BY DEF Named
  <2>4. 0 \in 0..n
    BY <1>1
  <2> QED BY <2>1, <2>2, <2>3, <2>4
<1>5. \A i \in 1..n : g[i] = Step(g[i - 1], segs[i])
  <2> SUFFICES ASSUME NEW i \in 1..n PROVE g[i] = Step(g[i - 1], segs[i])
    OBVIOUS
  <2>1. i - 1 \in Nat /\ (i - 1) + 1 <= n /\ (i - 1) + 1 = i /\ i \in 0..n /\ i - 1 \in 0..n
    BY <1>1
  <2>2. Named(InOrder(Kept(segs, (i - 1) + 1)), segs)
          = Step(Named(InOrder(Kept(segs, i - 1)), segs), segs[(i - 1) + 1])
    BY <2>1, KeptNames
  <2> QED BY <2>1, <2>2
<1>6. Walk(<<>>, segs) = g[n]
  <2> HIDE DEF g
  <2> QED BY <1>4, <1>5, WalkIs
<1>7. g[n] = Named(InOrder(Kept(segs, n)), segs)
  BY <1>1
<1> QED BY <1>2, <1>3, <1>6, <1>7

\* The segments of a path, none of which is a separator.
LEMMA SegmentsAre ==
    ASSUME NEW T, NEW p \in Seq(T)
    PROVE  /\ Lists(Positions(p), {i \in 1..Len(p) : p[i] # "/"})
           /\ Positions(p) \in Seq(Nat)
           /\ Segments(p) = Named(Positions(p), p)
           /\ Segments(p) \in Seq(T \ {"/"})
           /\ Len(Segments(p)) = Len(Positions(p))
<1> DEFINE S == {i \in 1..Len(p) : p[i] # "/"}
           q == Positions(p)
<1>1. S = {i \in DOMAIN p : ~IsSeparator(p[i])} /\ S \in SUBSET (1..Len(p)) /\ Len(p) \in Nat
  BY DEF IsSeparator
<1>2. Lists(q, S)
  <2>1. Lists(InOrder(S), S)
    <3> HIDE DEF S
    <3> QED BY <1>1, Listed
  <2> QED BY <1>1, <2>1 DEF Positions
<1> HIDE DEF q
<1>3. q \in Seq(Nat) /\ DOMAIN q = 1..Len(q) /\ Len(q) \in Nat /\ \A i \in 1..Len(q) : q[i] \in S
  BY <1>2 DEF Lists
<1>4. Segments(p) = Named(q, p)
  BY <1>3 DEF Segments, Named, q
<1>5. \A i \in 1..Len(q) : p[q[i]] \in T \ {"/"}
  <2>1. \A i \in S : p[i] \in T \ {"/"}
    OBVIOUS
  <2> QED BY <1>3, <2>1
<1>6. Named(q, p) \in Seq(T \ {"/"}) /\ Len(Named(q, p)) = Len(q)
  <2> DEFINE r == [i \in 1..Len(q) |-> p[q[i]]]
  <2>1. r \in Seq(T \ {"/"}) /\ Len(r) = Len(q)
    BY <1>3, <1>5
  <2> QED BY <2>1 DEF Named
<1> QED BY <1>2, <1>3, <1>4, <1>6 DEF q

\* The places on a walk.
LEMMA WalkSteps ==
    ASSUME NEW T, NEW segs \in Seq(T), NEW from
    PROVE  \E g : /\ g[0] = from /\ Walk(from, segs) = g[Len(segs)]
                  /\ \A i \in 1..Len(segs) : g[i] = Step(g[i - 1], segs[i])
<1> DEFINE n == Len(segs)
<1>1. n \in Nat
  OBVIOUS
<1>2. PICK f : Follows(f, SUBSET (1..n), from, segs)
  BY <1>1, Solvable
<1> DEFINE g == [k \in 0..n |-> f[1..k]]
<1>3. \A s \in SUBSET (1..n) : f[s] = IF s = {} THEN from ELSE Step(f[s \ {Max(s)}], segs[Max(s)])
  BY <1>2 DEF Follows
<1>4. g[0] = from
  <2>1. 1..0 = {} /\ {} \in SUBSET (1..n) /\ 0 \in 0..n
    BY <1>1
  <2>2. g[0] = f[1..0]
    BY <2>1
  <2> QED BY <1>3, <2>1, <2>2
<1>5. ASSUME NEW i \in 1..n PROVE g[i] = Step(g[i - 1], segs[i])
  <2>1. i \in Nat /\ i \in 0..n /\ i - 1 \in 0..n /\ i \in 1..i
    BY <1>1
  <2>2. 1..i \in SUBSET (1..n) /\ 1..i # {} /\ (1..i) \ {i} = 1..(i - 1)
    <3>1. \A x \in 1..i : x \in 1..n
      BY <1>1
    <3>2. \A x : x \in (1..i) \ {i} <=> x \in 1..(i - 1)
      BY <2>1
    <3> QED BY <2>1, <3>1, <3>2
  <2>3. Max(1..i) = i
    <3>1. 1..i \in SUBSET Int /\ \A x \in 1..i : x <= i
      BY <2>1
    <3> QED BY <2>1, <3>1, MaxIs
  <2>4. f[1..i] = Step(f[1..(i - 1)], segs[i])
    <3> HIDE DEF n
    <3> QED BY <1>3, <2>2, <2>3
  <2> QED BY <2>1, <2>4
<1>6. Walk(from, segs) = g[n]
  <2> HIDE DEF g
  <2> QED BY <1>4, <1>5, WalkIs
<1> HIDE DEF g
<1> QED BY <1>4, <1>5, <1>6

\* One path after another.
LEMMA WalkThen ==
    ASSUME NEW T, NEW a \in Seq(T), NEW b \in Seq(T), NEW from
    PROVE  Walk(Walk(from, a), b) = Walk(from, a \o b)
<1>1. PICK g : /\ g[0] = from /\ Walk(from, a) = g[Len(a)]
               /\ \A i \in 1..Len(a) : g[i] = Step(g[i - 1], a[i])
  BY WalkSteps
<1> DEFINE mid == Walk(from, a)
<1>2. PICK h : /\ h[0] = mid /\ Walk(mid, b) = h[Len(b)]
               /\ \A i \in 1..Len(b) : h[i] = Step(h[i - 1], b[i])
  <2> HIDE DEF mid
  <2> QED BY WalkSteps
<1> HIDE DEF mid
<1> DEFINE la == Len(a)
           lb == Len(b)
           c == a \o b
           k == [i \in 0..(la + lb) |-> IF i <= la THEN g[i] ELSE h[i - la]]
<1>3. /\ c \in Seq(T) /\ Len(c) = la + lb /\ la \in Nat /\ lb \in Nat
      /\ \A i \in 1..(la + lb) : c[i] = IF i <= la THEN a[i] ELSE b[i - la]
  BY ConcatProperties
<1> HIDE DEF la, lb, c
<1>4. k[0] = from
  BY <1>1, <1>3
<1>5. ASSUME NEW i \in 1..(la + lb) PROVE k[i] = Step(k[i - 1], c[i])
  <2>1. i \in 0..(la + lb) /\ i - 1 \in 0..(la + lb) /\ i \in Int
    BY <1>3
  <2>2. CASE i <= la
    <3>1. k[i] = g[i] /\ k[i - 1] = g[i - 1] /\ c[i] = a[i] /\ i \in 1..la
      BY <1>3, <2>1, <2>2
    <3> QED BY <1>1, <3>1 DEF la
  <2>3. CASE i = la + 1
    <3>1. k[i] = h[1] /\ k[i - 1] = g[la] /\ c[i] = b[1] /\ 1 \in 1..lb /\ 1 - 1 = 0
      <4>1. i - la = 1 /\ ~(i <= la) /\ i - 1 = la /\ i - 1 <= la /\ 1 \in 1..lb
        BY <1>3, <2>1, <2>3
      <4> QED BY <1>3, <2>1, <4>1
    <3>2. h[1] = Step(h[1 - 1], b[1])
      BY <1>2, <3>1 DEF lb
    <3> QED BY <1>1, <1>2, <3>1, <3>2 DEF la, mid
  <2>4. CASE i > la + 1
    <3>1. k[i] = h[i - la] /\ k[i - 1] = h[(i - la) - 1] /\ c[i] = b[i - la] /\ i - la \in 1..lb
      <4>1. ~(i <= la) /\ ~(i - 1 <= la) /\ (i - 1) - la = (i - la) - 1 /\ i - la \in 1..lb
        BY <1>3, <2>1, <2>4
      <4> QED BY <1>3, <2>1, <4>1
    <3>2. h[i - la] = Step(h[(i - la) - 1], b[i - la])
      BY <1>2, <3>1 DEF lb
    <3> QED BY <3>1, <3>2
  <2> QED BY <1>3, <2>1, <2>2, <2>3, <2>4
<1>6. Walk(from, c) = k[la + lb]
  <2> HIDE DEF k
  <2> QED BY <1>3, <1>4, <1>5, WalkIs
<1>7. k[la + lb] = h[lb]
  <2>1. la + lb \in 0..(la + lb)
    BY <1>3
  <2>2. CASE lb = 0
    <3>1. k[la + lb] = g[la]
      BY <1>3, <2>1, <2>2
    <3> QED BY <1>1, <1>2, <2>2, <3>1 DEF la, mid
  <2>3. CASE lb # 0
    <3>1. ~(la + lb <= la) /\ (la + lb) - la = lb
      BY <1>3, <2>3
    <3> QED BY <2>1, <3>1
  <2> QED BY <2>2, <2>3
<1> HIDE DEF k
<1> QED BY <1>2, <1>6, <1>7 DEF lb, mid, c

\* Where a walk leads is spelt with names alone.
LEMMA WalkNames ==
    ASSUME NEW T, NEW segs \in Seq(T)
    PROVE  Walk(<<>>, segs) \in Seq(T \ {".", ".."})
<1> DEFINE q == Visible(segs, TRUE)
           K == Kept(segs, Len(segs))
<1>1. Lists(q, K) /\ Walk(<<>>, segs) = Named(q, segs)
  BY NormalForm
<1>2. K \in SUBSET (1..Len(segs)) /\ \A i \in K : segs[i] \in T \ {".", ".."}
  <2>1. \A i \in K : i \in 1..Len(segs) /\ Kind(segs[i]) = "normal"
    BY DEF Kept
  <2>2. \A i \in 1..Len(segs) : segs[i] \in T
    OBVIOUS
  <2> QED BY <2>1, <2>2 DEF Kind
<1> HIDE DEF q, K
<1>3. /\ Named(q, segs) \in Seq(T) /\ Len(Named(q, segs)) = Len(q)
      /\ \A i \in 1..Len(q) : Named(q, segs)[i] = segs[q[i]] /\ q[i] \in K
  <2>1. \A i \in 1..Len(q) : q[i] \in K
    BY <1>1 DEF Lists
  <2> QED BY <1>1, <1>2, <2>1, NamedIs
<1> DEFINE r == Named(q, segs)
<1> HIDE DEF r
<1>4. r \in Seq(T) /\ \A i \in 1..Len(r) : r[i] \in T \ {".", ".."}
  BY <1>2, <1>3 DEF r
<1>5. r \in Seq(T \ {".", ".."})
  BY <1>4
<1> QED BY <1>1, <1>5 DEF r

\* A walk along names alone takes them all.
LEMMA WalkPlain ==
    ASSUME NEW T, NEW segs \in Seq(T \ {".", ".."})
    PROVE  Walk(<<>>, segs) = segs
<1> DEFINE n == Len(segs)
           U == T \ {".", ".."}
           g == [k \in 0..n |-> SubSeq(segs, 1, k)]
<1>1. n \in Nat
  OBVIOUS
<1>2. g[0] = <<>> /\ g[n] = segs
  <2>1. SubSeq(segs, 1, 0) = <<>> /\ SubSeq(segs, 1, Len(segs)) = segs
    BY SubSeqEmpty, SubSeqFull
  <2>2. 0 \in 0..n /\ n \in 0..n
    BY <1>1
  <2> QED BY <2>1, <2>2
<1>3. ASSUME NEW i \in 1..n PROVE g[i] = Step(g[i - 1], segs[i])
  <2>1. i \in 0..n /\ i - 1 \in 0..n /\ segs[i] \in U /\ segs[i] # "." /\ segs[i] # ".."
    BY <1>1
  <2>2. SubSeq(segs, 1, i) = SubSeq(segs, 1, i - 1) \o <<segs[i]>>
    <3>1. 1 \in 1..Len(segs) /\ i \in 1..Len(segs)
      BY <1>1
    <3> QED BY <3>1, SubSeqRecursiveSecond
  <2>3. SubSeq(segs, 1, i - 1) \in Seq(U)
    <3>1. \A j \in 1..(i - 1) : segs[j] \in U
      <4>1. \A j \in 1..(i - 1) : j \in 1..n
        BY <1>1
      <4> QED BY <4>1
    <3> HIDE DEF U
    <3> QED BY <1>1, <3>1, SubSeqProperties
  <2>4. Append(SubSeq(segs, 1, i - 1), segs[i]) = SubSeq(segs, 1, i)
    <3> HIDE DEF U
    <3> QED BY <2>1, <2>2, <2>3, AppendIsConcat
  <2> QED BY <2>1, <2>4 DEF Step
<1>4. Walk(<<>>, segs) = g[n]
  <2> HIDE DEF g
  <2> QED BY <1>2, <1>3, WalkIs
<1> QED BY <1>2, <1>4

-----------------------------------------------------------------------------
(* Absolute paths. *)

\* cwk_path_get_next_segment: a path's segments are its tokens that are no slash.
LEMMA SegmentsBy ==
    ASSUME NEW T, NEW p \in Seq(T), NEW q, Lists(q, {i \in 1..Len(p) : p[i] # "/"})
    PROVE  Positions(p) = q /\ Segments(p) = Named(q, p)
<1> DEFINE S == {i \in 1..Len(p) : p[i] # "/"}
<1>1. S = {i \in DOMAIN p : ~IsSeparator(p[i])} /\ S \in SUBSET Nat
  BY DEF IsSeparator
<1>0. Lists(q, S)
  OBVIOUS
<1>2. InOrder(S) = q
  <2> HIDE DEF S
  <2> QED BY <1>0, <1>1, InOrderIs
<1>3. Positions(p) = q
  BY <1>1, <1>2 DEF Positions
<1> QED BY <1>3, SegmentsAre

\* An absolute path with the segments s.
LEMMA SpellIs ==
    ASSUME NEW T, "/" \in T, NEW s \in Seq(T)
    PROVE  /\ Spell(TRUE, s) \in Seq(T)
           /\ Len(Spell(TRUE, s)) = IF Len(s) = 0 THEN 1 ELSE 2 * Len(s)
           /\ Spell(TRUE, s)[1] = "/" /\ IsAbsolute(Spell(TRUE, s)) /\ Spell(TRUE, s) # <<>>
           /\ \A i \in 1..Len(s) : Spell(TRUE, s)[2 * i] = s[i] /\ Spell(TRUE, s)[2 * i - 1] = "/"
<1> DEFINE n == Len(s)
           F(i) == IF i % 2 = 1 THEN s[(i + 1) \div 2] ELSE "/"
           u == [i \in 1..(2 * n - 1) |-> F(i)]
           lu == IF n = 0 THEN 0 ELSE 2 * n - 1
           v == <<"/">> \o u
<1>1. n \in Nat /\ lu \in Nat /\ 1..(2 * n - 1) = 1..lu
  OBVIOUS
<1>2. \A i \in 1..lu : F(i) \in T
  <2> SUFFICES ASSUME NEW i \in 1..lu, i % 2 = 1 PROVE s[(i + 1) \div 2] \in T
    OBVIOUS
  <2>1. (i + 1) \div 2 \in 1..n
    BY <1>1
  <2> QED BY <2>1
<1>3. u \in Seq(T) /\ Len(u) = lu /\ \A i \in 1..lu : u[i] = F(i)
  <2> HIDE DEF lu
  <2>1. u = [i \in 1..lu |-> F(i)]
    BY <1>1
  <2> HIDE DEF F, u
  <2> QED BY <1>1, <1>2, <2>1
<1>4. /\ v \in Seq(T) /\ Len(v) = 1 + lu /\ v[1] = "/"
      /\ \A i \in 1..lu : v[i + 1] = F(i)
  <2> HIDE DEF F, lu, u
  <2>1. <<"/">> \in Seq(T) /\ Len(<<"/">>) = 1 /\ <<"/">>[1] = "/"
    OBVIOUS
  <2>2. /\ v \in Seq(T) /\ Len(v) = 1 + lu
        /\ \A i \in 1..(1 + lu) : v[i] = IF i <= 1 THEN <<"/">>[i] ELSE u[i - 1]
    BY <1>3, <2>1, ConcatProperties
  <2>3. \A i \in 1..lu : i + 1 \in 1..(1 + lu) /\ ~(i + 1 <= 1) /\ (i + 1) - 1 = i
    BY <1>1
  <2>4. 1 \in 1..(1 + lu)
    BY <1>1
  <2> QED BY <1>3, <2>1, <2>2, <2>3, <2>4
<1>5. Spell(TRUE, s) = v
  BY DEF Spell
<1> HIDE DEF v, u
<1>6. \A i \in 1..n : v[2 * i] = s[i]
  <2> SUFFICES ASSUME NEW i \in 1..n PROVE v[2 * i] = s[i]
    OBVIOUS
  <2>1. 2 * i - 1 \in 1..lu /\ (2 * i - 1) + 1 = 2 * i /\ (2 * i - 1) % 2 = 1 /\ (2 * i) \div 2 = i
    BY <1>1
  <2>2. F(2 * i - 1) = s[i]
    BY <2>1
  <2> HIDE DEF F, lu
  <2> QED BY <1>4, <2>1, <2>2
<1>7. \A i \in 1..n : v[2 * i - 1] = "/"
  <2> SUFFICES ASSUME NEW i \in 1..n PROVE v[2 * i - 1] = "/"
    OBVIOUS
  <2>1. CASE i = 1
    BY <1>4, <2>1
  <2>2. CASE i > 1
    <3>1. 2 * i - 2 \in 1..lu /\ (2 * i - 2) + 1 = 2 * i - 1 /\ (2 * i - 2) % 2 = 0
      BY <1>1, <2>2
    <3>2. F(2 * i - 2) = "/"
      BY <3>1
    <3> HIDE DEF F, lu
    <3> QED BY <1>4, <3>1, <3>2
  <2> QED BY <2>1, <2>2
<1>8. IsAbsolute(v) /\ v # <<>>
  <2>1. v # <<>>
    BY <1>1, <1>4
  <2> HIDE DEF lu
  <2> QED BY <1>4, <2>1 DEF IsAbsolute, Root, IsSeparator
<1>9. Len(v) = IF n = 0 THEN 1 ELSE 2 * n
  BY <1>1, <1>4
<1> HIDE DEF F, lu
<1> QED BY <1>4, <1>5, <1>6, <1>7, <1>8, <1>9

\* Its segments are found where they were put.
LEMMA SpellSegments ==
    ASSUME NEW T, "/" \in T, NEW s \in Seq(T \ {"/"})
    PROVE  /\ Segments(Spell(TRUE, s)) = s
           /\ Positions(Spell(TRUE, s)) = [i \in 1..Len(s) |-> 2 * i]
<1> DEFINE n == Len(s)
           v == Spell(TRUE, s)
           q == [i \in 1..n |-> 2 * i]
           U == T \ {"/"}
<1>1. n \in Nat /\ s \in Seq(T) /\ \A i \in 1..n : s[i] \in U
  OBVIOUS
<1>2. /\ v \in Seq(T) /\ Len(v) = (IF n = 0 THEN 1 ELSE 2 * n) /\ v[1] = "/"
      /\ \A i \in 1..n : v[2 * i] = s[i] /\ v[2 * i - 1] = "/"
  BY <1>1, SpellIs
<1> HIDE DEF v
<1> DEFINE S == {i \in 1..Len(v) : v[i] # "/"}
<1>3. q \in Seq(Nat) /\ Len(q) = n /\ \A i \in 1..n : q[i] = 2 * i
  <2>1. \A i \in 1..n : 2 * i \in Nat
    BY <1>1
  <2> QED BY <1>1, <2>1
<1>4. \A i \in 1..n : 2 * i \in S
  BY <1>1, <1>2
<1>5. ASSUME NEW x \in S PROVE \E i \in 1..n : 2 * i = x
  <2>1. x \in 1..Len(v) /\ v[x] # "/"
    OBVIOUS
  <2>2. n # 0
    BY <1>2, <2>1
  <2>3. x \in 1..(2 * n)
    BY <1>1, <1>2, <2>1, <2>2
  <2>4. CASE x % 2 = 1
    <3>1. (x + 1) \div 2 \in 1..n /\ 2 * ((x + 1) \div 2) - 1 = x
      BY <1>1, <2>3, <2>4
    <3> QED BY <1>2, <2>1, <3>1
  <2>5. CASE x % 2 = 0
    <3>1. x \div 2 \in 1..n /\ 2 * (x \div 2) = x
      BY <1>1, <2>3, <2>5
    <3> QED BY <3>1
  <2>6. x % 2 \in {0, 1}
    BY <2>3
  <2> QED BY <2>4, <2>5, <2>6
<1>6. Lists(q, S)
  <2> HIDE DEF q, S
  <2>1. \A i, j \in 1..n : i < j => q[i] < q[j]
    BY <1>1, <1>3
  <2>2. \A i \in 1..n : q[i] \in S
    BY <1>3, <1>4
  <2>3. \A x \in S : \E i \in 1..n : q[i] = x
    BY <1>3, <1>5
  <2> QED BY <1>3, <2>1, <2>2, <2>3 DEF Lists
<1>7. Positions(v) = q /\ Segments(v) = Named(q, v)
  BY <1>2, <1>6, SegmentsBy
<1>8. Named(q, v) = s
  <2> DEFINE r == [i \in 1..Len(q) |-> v[q[i]]]
  <2>1. r = [i \in 1..n |-> s[i]]
    <3> HIDE DEF q
    <3> QED BY <1>2, <1>3
  <2>2. s = [i \in 1..n |-> s[i]]
    OBVIOUS
  <2> QED BY <2>1, <2>2 DEF Named
<1> QED BY <1>7, <1>8 DEF v

\* The list of one path, and of two.
LEMMA JoinedIs ==
    ASSUME NEW a, NEW b
    PROVE  /\ Joined(<<a>>) = Segments(a)
           /\ Joined(<<a, b>>) = Segments(a) \o Segments(b)
<1>1. Joined(<<a>>) = Segments(a)
  <2> DEFINE x == <<Segments(a)>>
             R(f) == [i \in 1..1 |-> IF i = 1 THEN x[i] ELSE f[i - 1] \o x[i]]
  <2>1. [i \in DOMAIN <<a>> |-> Segments(<<a>>[i])] = x
    <3>1. DOMAIN <<a>> = 1..1 /\ <<a>>[1] = a
      OBVIOUS
    <3> QED BY <3>1
  <2>2. Len(x) = 1 /\ x[1] = Segments(a)
    OBVIOUS
  <2>3. FlattenSeq(x) = (CHOOSE f : f = R(f))[1]
    BY <2>2 DEF FlattenSeq
  <2>4. \E f : f = R(f)
    <3> DEFINE h == [i \in 1..1 |-> x[1]]
    <3>1. h = R(h)
      OBVIOUS
    <3> QED BY <3>1
  <2> QED BY <2>1, <2>2, <2>3, <2>4 DEF Joined
<1>2. Joined(<<a, b>>) = Segments(a) \o Segments(b)
  <2> DEFINE x == <<Segments(a), Segments(b)>>
             R(f) == [i \in 1..2 |-> IF i = 1 THEN x[i] ELSE f[i - 1] \o x[i]]
  <2>1. [i \in DOMAIN <<a, b>> |-> Segments(<<a, b>>[i])] = x
    <3>1. DOMAIN <<a, b>> = 1..2 /\ <<a, b>>[1] = a /\ <<a, b>>[2] = b
      OBVIOUS
    <3> QED BY <3>1
  <2>2. Len(x) = 2 /\ x[1] = Segments(a) /\ x[2] = Segments(b)
    OBVIOUS
  <2>3. FlattenSeq(x) = (CHOOSE f : f = R(f))[2]
    BY <2>2 DEF FlattenSeq
  <2>4. \E f : f = R(f)
    <3> DEFINE h == [i \in 1..2 |-> IF i = 1 THEN x[1] ELSE x[1] \o x[2]]
    <3>1. h = R(h)
      OBVIOUS
    <3> QED BY <3>1
  <2>5. PICK f : f = R(f) /\ FlattenSeq(x) = f[2]
    BY <2>3, <2>4
  <2>6. f[1] = x[1] /\ f[2] = f[1] \o x[2]
    <3> DEFINE r == R(f)
    <3>1. r[1] = x[1] /\ r[2] = f[1] \o x[2]
      <4>1. 1 \in 1..2 /\ 2 \in 1..2 /\ 2 # 1 /\ 2 - 1 = 1
        OBVIOUS
      <4> HIDE DEF x
      <4> QED BY <4>1
    <3> HIDE DEF r
    <3>2. f = r
      BY <2>5 DEF r
    <3> QED BY <3>1, <3>2
  <2> QED BY <2>1, <2>2, <2>5, <2>6 DEF Joined
<1> QED BY <1>1, <1>2

\* What cwk_path_normalize writes is never empty and begins as the path does.
LEMMA OutputIs ==
    ASSUME NEW T, NEW p \in Seq(T), p # <<>>
    PROVE  /\ Output(p) \in Seq(T) /\ Output(p) # <<>> /\ Output(p)[1] = p[1]
           /\ IsAbsolute(p) => IsAbsolute(Output(p))
           /\ Len(p) <= MaxPath => Output(p) = p
<1> DEFINE k == IF Len(p) < MaxPath THEN Len(p) ELSE MaxPath
           o == SubSeq(p, 1, k)
<1>1. Len(p) \in Nat \ {0} /\ MaxPath \in Nat \ {0} /\ k \in Nat \ {0} /\ k <= Len(p)
  BY PathAssumption
<1>2. \A i \in 1..k : p[i] \in T
  <2>1. \A i \in 1..k : i \in 1..Len(p)
    BY <1>1
  <2> QED BY <2>1
<1>3. o \in Seq(T) /\ Len(o) = k /\ o[1] = p[1]
  <2> HIDE DEF k
  <2>1. /\ SubSeq(p, 1, k) \in Seq(T) /\ Len(SubSeq(p, 1, k)) = (IF 1 <= k THEN k - 1 + 1 ELSE 0)
        /\ \A i \in 1..(k - 1 + 1) : SubSeq(p, 1, k)[i] = p[1 + i - 1]
    BY <1>1, <1>2, SubSeqProperties
  <2>2. 1 \in 1..(k - 1 + 1) /\ 1 + 1 - 1 = 1 /\ 1 <= k /\ k - 1 + 1 = k
    BY <1>1
  <2> QED BY <2>1, <2>2
<1>4. Len(p) <= MaxPath => o = p
  <2>1. Len(p) <= MaxPath => k = Len(p)
    BY <1>1
  <2>2. SubSeq(p, 1, Len(p)) = p
    BY SubSeqFull
  <2> HIDE DEF k
  <2> QED BY <2>1, <2>2
<1>5. Output(p) = o
  BY DEF Output
<1> HIDE DEF o, k
<1>6. o # <<>>
  BY <1>1, <1>3
<1> QED BY <1>3, <1>4, <1>5, <1>6 DEF IsAbsolute, Root, IsSeparator

\* What is left of the segments of an absolute path.
LEMMA Left ==
    ASSUME NEW T, "/" \in T, NEW segs \in Seq(T)
    PROVE  /\ Walk(<<>>, segs) \in Seq(T \ {".", ".."}) /\ Walk(<<>>, segs) \in Seq(T)
           /\ [i \in DOMAIN Visible(segs, TRUE) |-> segs[Visible(segs, TRUE)[i]]] = Walk(<<>>, segs)
           /\ Spell(TRUE, Walk(<<>>, segs)) # <<>>
<1> DEFINE kept == Visible(segs, TRUE)
           w == Walk(<<>>, segs)
<1>1. Lists(kept, Kept(segs, Len(segs))) /\ w = Named(kept, segs)
  BY NormalForm
<1>2. w \in Seq(T \ {".", ".."})
  BY WalkNames
<1> HIDE DEF kept, w
<1>3. w \in Seq(T)
  BY <1>2
<1>4. [i \in DOMAIN kept |-> segs[kept[i]]] = w
  <2>1. kept \in Seq(Nat)
    BY <1>1 DEF Lists
  <2>2. DOMAIN kept = 1..Len(kept)
    BY <2>1
  <2> QED BY <1>1, <2>2 DEF Named
<1>5. Spell(TRUE, w) # <<>>
  BY <1>3, SpellIs
<1> QED BY <1>2, <1>3, <1>4, <1>5 DEF kept, w

\* cwk_path_normalize and cwk_path_join make of an absolute path the one that
\* spells where it leads.
LEMMA NormalizeIs ==
    ASSUME NEW T, "/" \in T, NEW a \in Seq(T), IsAbsolute(a)
    PROVE  Normalize(a) = Output(Spell(TRUE, Walk(<<>>, Segments(a))))
<1>1. Segments(a) \in Seq(T)
  <2>1. Segments(a) \in Seq(T \ {"/"})
    BY SegmentsAre
  <2> QED BY <2>1
<1> DEFINE segs == Segments(a)
           x == [i \in DOMAIN Visible(segs, TRUE) |-> segs[Visible(segs, TRUE)[i]]]
<1>2. Joined(<<a>>) = segs /\ <<a>>[1] = a /\ IsAbsolute(<<a>>[1]) = TRUE
  BY JoinedIs DEF IsAbsolute
<1> HIDE DEF segs
<1>3. JoinAndNormalize(<<a>>) = IF segs # <<>> /\ Spell(TRUE, x) = <<>> THEN <<".">> ELSE Output(Spell(TRUE, x))
  BY <1>2 DEF JoinAndNormalize
<1>4. x = Walk(<<>>, segs) /\ Spell(TRUE, Walk(<<>>, segs)) # <<>>
  BY <1>1, Left DEF segs
<1> HIDE DEF x
<1> QED BY <1>3, <1>4 DEF Normalize, segs

\* cwk_path_join normalizes the segments of both paths.
LEMMA JoinIs ==
    ASSUME NEW T, "/" \in T, NEW a \in Seq(T), IsAbsolute(a), NEW b \in Seq(T)
    PROVE  /\ Join(a, b) = Output(Spell(TRUE, Walk(<<>>, Segments(a) \o Segments(b))))
           /\ Segments(a) \in Seq(T) /\ Segments(b) \in Seq(T)
           /\ Segments(a) \o Segments(b) \in Seq(T)
<1> DEFINE segs == Segments(a) \o Segments(b)
           x == [i \in DOMAIN Visible(segs, TRUE) |-> segs[Visible(segs, TRUE)[i]]]
<1>1. Segments(a) \in Seq(T) /\ Segments(b) \in Seq(T) /\ segs \in Seq(T)
  <2>1. Segments(a) \in Seq(T \ {"/"}) /\ Segments(b) \in Seq(T \ {"/"})
    BY SegmentsAre
  <2>2. Segments(a) \in Seq(T) /\ Segments(b) \in Seq(T)
    BY <2>1
  <2> QED BY <2>2, ConcatProperties
<1>2. Joined(<<a, b>>) = segs /\ <<a, b>>[1] = a /\ IsAbsolute(<<a, b>>[1]) = TRUE
  BY JoinedIs DEF IsAbsolute
<1> HIDE DEF segs
<1>3. JoinAndNormalize(<<a, b>>) = IF segs # <<>> /\ Spell(TRUE, x) = <<>> THEN <<".">> ELSE Output(Spell(TRUE, x))
  BY <1>2 DEF JoinAndNormalize
<1>4. x = Walk(<<>>, segs) /\ Spell(TRUE, Walk(<<>>, segs)) # <<>>
  BY <1>1, Left
<1> HIDE DEF x
<1> QED BY <1>1, <1>3, <1>4 DEF Join, segs

-----------------------------------------------------------------------------
(* What two paths have in common. *)

\* A path without "." and ".." has all its segments visible to cwk_path_get_intersection.
LEMMA VisiblePlain ==
    ASSUME NEW T, NEW s \in Seq(T \ {".", ".."})
    PROVE  Visible(s, TRUE) = [i \in 1..Len(s) |-> i]
<1> DEFINE n == Len(s)
           q == [i \in 1..n |-> i]
<1>1. n \in Nat /\ DOMAIN s = 1..n /\ \A i \in 1..n : Kind(s[i]) = "normal"
  <2>1. \A i \in 1..n : s[i] \in T \ {".", ".."}
    OBVIOUS
  <2> QED BY <2>1 DEF Kind
<1>2. \A i \in 1..n : ~Removed(s, i, TRUE)
  <2> SUFFICES ASSUME NEW i \in 1..n, NormalRemoved(s, i) PROVE FALSE
    BY <1>1 DEF Removed
  <2>1. PICK j \in (i + 1)..n : Count(s, "back", i + 1, j) > Count(s, "normal", i + 1, j)
    BY DEF NormalRemoved
  <2>2. i \in Nat /\ j \in Nat /\ i <= j
    BY <1>1
  <2>3. {x \in (i + 1)..j : Kind(s[x]) = "back"} = {}
    <3>1. \A x \in (i + 1)..j : x \in 1..n
      BY <1>1, <2>2
    <3> QED BY <1>1, <3>1
  <2>4. Count(s, "back", i + 1, j) = 0
    BY <2>3, FS_EmptySet DEF Count
  <2>5. Count(s, "normal", i + 1, j) \in Nat
    <3>1. IsFiniteSet((i + 1)..j)
      BY <2>2, FS_Interval
    <3>2. IsFiniteSet({x \in (i + 1)..j : Kind(s[x]) = "normal"})
      BY <3>1, FS_Subset
    <3> QED BY <3>2, FS_CardinalityType DEF Count
  <2> QED BY <2>1, <2>4, <2>5
<1>3. {i \in DOMAIN s : ~Removed(s, i, TRUE)} = 1..n
  BY <1>1, <1>2
<1>4. Lists(q, 1..n)
  <2>1. q \in Seq(Nat) /\ Len(q) = n /\ \A i \in 1..n : q[i] = i
    BY <1>1
  <2> HIDE DEF q
  <2> QED BY <1>1, <2>1 DEF Lists
<1>5. InOrder(1..n) = q
  <2> HIDE DEF q
  <2>1. 1..n \in SUBSET Nat
    BY <1>1
  <2> QED BY <1>4, <2>1, InOrderIs
<1> QED BY <1>3, <1>5 DEF Visible

\* s and d lead the same way for c segments and no more.
Common(s, d, c) ==
    /\ c \in Nat /\ c <= Len(s) /\ c <= Len(d)
    /\ \A i \in 1..c : s[i] = d[i]
    /\ c < Len(s) /\ c < Len(d) => s[c + 1] # d[c + 1]

\* Two paths have a longest common beginning.
LEMMA CommonExists ==
    ASSUME NEW T, NEW s \in Seq(T), NEW d \in Seq(T)
    PROVE  \E c : Common(s, d, c)
<1> DEFINE S == {c \in 0..Len(s) : c <= Len(d) /\ \A i \in 1..c : s[i] = d[i]}
<1>1. Len(s) \in Nat /\ Len(d) \in Nat /\ 0 \in S
  <2>1. Len(s) \in Nat /\ Len(d) \in Nat
    OBVIOUS
  <2> QED BY <2>1
<1>2. S \in SUBSET Int /\ \A x \in S : x \in 0..Len(s)
  BY <1>1
<1>3. PICK c \in S : \A x \in S : x <= c
  <2> HIDE DEF S
  <2> QED BY <1>1, <1>2, GreatestIn
<1>4. c \in Nat /\ c <= Len(s) /\ c <= Len(d) /\ \A i \in 1..c : s[i] = d[i]
  BY <1>1
<1>5. ASSUME c < Len(s), c < Len(d), s[c + 1] = d[c + 1] PROVE FALSE
  <2>1. \A i \in 1..(c + 1) : i \in 1..c \/ i = c + 1
    BY <1>4
  <2>2. c + 1 \in S
    BY <1>1, <1>4, <1>5, <2>1
  <2>3. c + 1 <= c
    BY <1>3, <2>2
  <2> QED BY <1>4, <2>3
<1> QED BY <1>4, <1>5 DEF Common

\* cwk_path_get_intersection of a normal path.
LEMMA IntersectionIs ==
    ASSUME NEW T, "/" \in T, NEW s \in Seq(T \ {"/", ".", ".."}),
           NEW o \in Seq(T), IsAbsolute(o), NEW c, Common(s, Walk(<<>>, Segments(o)), c)
    PROVE  Intersection(Spell(TRUE, s), o) = IF c = 0 THEN 1 ELSE 2 * c
<1> DEFINE base == Spell(TRUE, s)
           d == Walk(<<>>, Segments(o))
           bv == Visible(s, TRUE)
           os == Segments(o)
           ov == Visible(os, TRUE)
           n == Len(s)
           same == {k \in 1..Len(bv) : k <= Len(ov) /\ \A i \in 1..k : s[bv[i]] = os[ov[i]]}
<1>1. s \in Seq(T \ {".", ".."}) /\ s \in Seq(T \ {"/"}) /\ s \in Seq(T) /\ n \in Nat
  OBVIOUS
<1>2. IsAbsolute(base) = TRUE /\ IsAbsolute(o) = TRUE /\ Root(base) = 1
  <2>1. IsAbsolute(base)
    BY <1>1, SpellIs
  <2> HIDE DEF base
  <2> QED BY <2>1 DEF IsAbsolute, Root
<1>3. Segments(base) = s /\ Positions(base) = [i \in 1..n |-> 2 * i]
  BY <1>1, SpellSegments
<1>4. Len(bv) = n /\ \A i \in 1..n : bv[i] = i
  <2>1. bv = [i \in 1..n |-> i]
    BY <1>1, VisiblePlain
  <2> HIDE DEF bv
  <2> QED BY <1>1, <2>1
<1>5. Len(ov) = Len(d) /\ \A i \in 1..Len(d) : os[ov[i]] = d[i]
  <2>1. os \in Seq(T \ {"/"})
    BY SegmentsAre
  <2>2. os \in Seq(T)
    <3> HIDE DEF os
    <3> QED BY <2>1
  <2> HIDE DEF os
  <2>3. Lists(ov, Kept(os, Len(os))) /\ Walk(<<>>, os) = Named(ov, os)
    BY <2>2, NormalForm
  <2> HIDE DEF ov
  <2>4. Len(Named(ov, os)) = Len(ov) /\ \A i \in 1..Len(ov) : Named(ov, os)[i] = os[ov[i]]
    BY <2>2, <2>3, KeptNamed
  <2> QED BY <2>3, <2>4 DEF os
<1> HIDE DEF bv, ov, os, d, base
<1>6. c \in 0..n /\ c <= Len(d) /\ c \in Nat /\ (\A i \in 1..c : s[i] = d[i]) /\ (c < n /\ c < Len(d) => s[c + 1] # d[c + 1])
  BY <1>1 DEF Common, d
<1>7. same = 1..c
  <2>1. Len(d) \in Nat
    BY <1>5, <1>6 DEF d
  <2>2. ASSUME NEW k \in 1..c PROVE k \in same
    <3>1. k \in 1..n /\ k <= Len(d) /\ \A i \in 1..k : i \in 1..n /\ i \in 1..Len(d) /\ i \in 1..c
      BY <1>1, <1>6, <2>1
    <3> QED BY <1>4, <1>5, <1>6, <3>1
  <2>3. ASSUME NEW k \in same PROVE k \in 1..c
    <3>1. k \in 1..n /\ k <= Len(d) /\ \A i \in 1..k : s[bv[i]] = os[ov[i]]
      BY <1>4, <1>5
    <3>2. SUFFICES ASSUME c < k PROVE FALSE
      BY <1>1, <1>6, <3>1
    <3>3. c + 1 \in 1..k /\ c + 1 \in 1..n /\ c + 1 \in 1..Len(d) /\ c < n /\ c < Len(d)
      BY <1>1, <1>6, <2>1, <3>1, <3>2
    <3>4. s[c + 1] = d[c + 1]
      BY <1>4, <1>5, <3>1, <3>3
    <3> QED BY <1>6, <3>3, <3>4
  <2> QED BY <2>2, <2>3
<1>8. Cardinality(same) = c
  <2>1. Cardinality(1..c) = c
    BY <1>6, FS_Interval
  <2> HIDE DEF same
  <2> QED BY <1>7, <2>1
<1>9. Intersection(base, o) = IF same = {} THEN Root(base) ELSE Positions(base)[bv[Cardinality(same)]]
  <2> HIDE DEF n
  <2>1. Intersection(base, o) = IF IsAbsolute(base) # IsAbsolute(o) THEN 0
                     ELSE IF same = {} THEN Root(base) ELSE Positions(base)[bv[Cardinality(same)]]
    BY <1>2, <1>3 DEF Intersection, bv, os, ov
  <2> QED BY <1>2, <2>1
<1> HIDE DEF same
<1>10. CASE c = 0
  <2>1. same = {}
    BY <1>7, <1>10
  <2> QED BY <1>2, <1>9, <1>10, <2>1 DEF base
<1>11. CASE c # 0
  <2>1. c \in 1..n /\ c \in same
    BY <1>6, <1>7, <1>11
  <2>2. bv[c] = c /\ [i \in 1..n |-> 2 * i][c] = 2 * c
    BY <1>4, <2>1
  <2> QED BY <1>3, <1>8, <1>9, <1>11, <2>1, <2>2 DEF base
<1> QED BY <1>10, <1>11

\* What follows the first c segments of an absolute path, with the separator
\* before it unless c is 0.
LEMMA RestIs ==
    ASSUME NEW T, "/" \in T, NEW s \in Seq(T \ {"/"}), NEW c \in 0..Len(s), NEW k, k = IF c = 0 THEN 1 ELSE 2 * c
    PROVE  /\ SubSeq(Spell(TRUE, s), k + 1, Len(Spell(TRUE, s))) \in Seq(T)
           /\ Segments(SubSeq(Spell(TRUE, s), k + 1, Len(Spell(TRUE, s)))) = SubSeq(s, c + 1, Len(s))
<1> DEFINE n == Len(s)
           m == n - c
           e == IF c = 0 THEN 1 ELSE 0
           v == Spell(TRUE, s)
           r == SubSeq(v, k + 1, Len(v))
           lr == IF m = 0 THEN 0 ELSE 2 * m - e
           q == [i \in 1..m |-> 2 * i - e]
           U == T \ {"/"}
           S == {i \in 1..Len(r) : r[i] # "/"}
           rest == SubSeq(s, c + 1, Len(s))
<1>1. /\ n \in Nat /\ c \in Nat /\ m \in Nat /\ e \in {0, 1} /\ k = 2 * c + e /\ s \in Seq(T)
      /\ m + c = n /\ c <= n /\ lr \in Nat /\ n = Len(s)
      /\ (m = 0 => lr = 0) /\ (m # 0 => lr = 2 * m - e) /\ (c = 0 <=> e = 1)
      /\ \A i \in 1..n : s[i] \in U
  <2>1. s \in Seq(U) /\ s \in Seq(T) /\ n = Len(s) /\ n \in Nat /\ c \in 0..n
    OBVIOUS
  <2>2. \A i \in 1..n : s[i] \in U
    <3> HIDE DEF U
    <3> QED BY <2>1
  <2> HIDE DEF n, U
  <2>3. c \in Nat /\ m \in Nat /\ m + c = n /\ c <= n
    BY <2>1
  <2> HIDE DEF m
  <2>4. e \in {0, 1} /\ k = 2 * c + e /\ (c = 0 <=> e = 1)
    BY <2>3
  <2> HIDE DEF e
  <2>5. lr \in Nat /\ (m = 0 => lr = 0) /\ (m # 0 => lr = 2 * m - e)
    BY <2>3, <2>4
  <2> HIDE DEF lr
  <2> QED BY <2>1, <2>2, <2>3, <2>4, <2>5
<1> HIDE DEF n, m, e, lr
<1>2. /\ v \in Seq(T) /\ Len(v) = (IF n = 0 THEN 1 ELSE 2 * n) /\ v[1] = "/"
      /\ \A i \in 1..n : v[2 * i] = s[i] /\ v[2 * i - 1] = "/"
  BY <1>1, SpellIs
<1> DEFINE lv == Len(v)
<1>3. /\ lv \in Nat /\ k + 1 \in Nat
      /\ (IF k + 1 <= lv THEN lv - (k + 1) + 1 ELSE 0) = lr
      /\ (lr # 0 => lv - (k + 1) + 1 = lr)
      /\ k + 1 \in Int /\ lv \in Int /\ k \in Nat /\ 1 <= k + 1
  <2>0. lv = IF n = 0 THEN 1 ELSE 2 * n
    BY <1>2
  <2> HIDE DEF lv
  <2>1. CASE n = 0
    BY <1>1, <2>0, <2>1
  <2>2. CASE n # 0 /\ c = 0
    BY <1>1, <2>0, <2>2
  <2>3. CASE n # 0 /\ c # 0
    BY <1>1, <2>0, <2>3
  <2> QED BY <1>1, <2>1, <2>2, <2>3
<1> HIDE DEF v
<1>4. \A i \in (k + 1)..Len(v) : v[i] \in T
  <2>1. \A i \in (k + 1)..Len(v) : i \in 1..Len(v)
    BY <1>3
  <2> QED BY <1>2, <2>1
<1>5. r \in Seq(T) /\ Len(r) = lr /\ \A i \in 1..lr : r[i] = v[k + i]
  <2>0. k + 1 \in Int /\ Len(v) \in Int
    BY <1>3
  <2>1. /\ r \in Seq(T) /\ Len(r) = (IF k + 1 <= Len(v) THEN Len(v) - (k + 1) + 1 ELSE 0)
        /\ \A i \in 1..(Len(v) - (k + 1) + 1) : r[i] = v[(k + 1) + i - 1]
    BY <2>0, <1>4, SubSeqProperties
  <2>2. \A i \in 1..lr : (k + 1) + i - 1 = k + i /\ i \in 1..(lv - (k + 1) + 1)
    BY <1>1, <1>3
  <2> QED BY <1>3, <2>1, <2>2
<1> HIDE DEF r
<1>6. /\ q \in Seq(Nat) /\ Len(q) = m /\ \A i \in 1..m : q[i] = 2 * i - e
  <2>1. \A i \in 1..m : 2 * i - e \in Nat
    BY <1>1
  <2> QED BY <1>1, <2>1
<1>7. ASSUME NEW i \in 1..m
      PROVE  2 * i - e \in S /\ r[2 * i - e] = s[c + i]
  <2>0. i \in Nat /\ 1 <= i /\ i <= m /\ m # 0 /\ lr = 2 * m - e
    BY <1>1
  <2>1. 2 * i - e \in 1..lr /\ k + (2 * i - e) = 2 * (c + i) /\ c + i \in 1..n
    BY <1>1, <2>0
  <2>2. r[2 * i - e] = s[c + i] /\ s[c + i] \in U
    <3>1. s[c + i] \in U
      BY <1>1, <2>1
    <3>2. r[2 * i - e] = v[2 * (c + i)]
      BY <1>5, <2>1
    <3> QED BY <1>2, <2>1, <3>1, <3>2
  <2> QED BY <1>5, <2>1, <2>2
<1>8. ASSUME NEW x \in S PROVE \E i \in 1..m : 2 * i - e = x
  <2>1. x \in 1..lr /\ v[k + x] # "/" /\ x \in Nat
    <3> QED BY <1>1, <1>5
  <2>2. m # 0 /\ lr = 2 * m - e
    BY <1>1, <2>1
  <2>3. PICK y \in Nat : x + e = 2 * y \/ x + e = 2 * y + 1
    <3>1. x + e \in Nat
      BY <1>1, <2>1
    <3> DEFINE z == x + e
    <3> HIDE DEF z
    <3>2. z \in Nat => z \div 2 \in Nat /\ (z = 2 * (z \div 2) \/ z = 2 * (z \div 2) + 1)
      OBVIOUS
    <3> QED BY <3>1, <3>2 DEF z
  <2>4. CASE x + e = 2 * y
    <3>1. y \in 1..m /\ 2 * y - e = x
      BY <1>1, <2>1, <2>2, <2>4
    <3> QED BY <3>1
  <2>5. CASE x + e = 2 * y + 1
    <3>1. c + y + 1 \in 1..n /\ k + x = 2 * (c + y + 1) - 1
      BY <1>1, <2>1, <2>2, <2>5
    <3> QED BY <1>2, <2>1, <3>1
  <2> QED BY <2>3, <2>4, <2>5
<1>9. Lists(q, S)
  <2> HIDE DEF q, S
  <2>1. \A i, j \in 1..m : i < j => q[i] < q[j]
    BY <1>1, <1>6
  <2>2. \A i \in 1..m : q[i] \in S
    BY <1>6, <1>7
  <2>3. \A x \in S : \E i \in 1..m : q[i] = x
    BY <1>6, <1>8
  <2> QED BY <1>6, <2>1, <2>2, <2>3 DEF Lists
<1>10. Segments(r) = Named(q, r)
  BY <1>5, <1>9, SegmentsBy
<1>11. rest \in Seq(U) /\ Len(rest) = m /\ \A i \in 1..m : rest[i] = s[c + i]
  <2>1. /\ c + 1 \in Int /\ n \in Int /\ n - (c + 1) + 1 = m /\ c + 1 <= n <=> m # 0
        /\ \A i \in 1..m : (c + 1) + i - 1 = c + i
    BY <1>1
  <2>2. \A i \in (c + 1)..n : s[i] \in U
    <3>1. \A i \in (c + 1)..n : i \in 1..n
      BY <1>1
    <3> QED BY <1>1, <3>1
  <2>3. /\ rest \in Seq(U) /\ Len(rest) = (IF c + 1 <= n THEN n - (c + 1) + 1 ELSE 0)
        /\ \A i \in 1..(n - (c + 1) + 1) : rest[i] = s[(c + 1) + i - 1]
    <3> HIDE DEF U
    <3> QED BY <1>1, <2>1, <2>2, SubSeqProperties
  <2> HIDE DEF rest
  <2> QED BY <1>1, <2>1, <2>3
<1>12. Named(q, r) = rest
  <2> DEFINE u == [i \in 1..Len(q) |-> r[q[i]]]
  <2>1. u = [i \in 1..m |-> s[c + i]]
    <3> HIDE DEF q
    <3> QED BY <1>6, <1>7
  <2>2. rest = [i \in 1..m |-> s[c + i]]
    <3> HIDE DEF rest
    <3> QED BY <1>11
  <2> QED BY <2>1, <2>2 DEF Named
<1> QED BY <1>5, <1>10, <1>12 DEF r, v

-----------------------------------------------------------------------------
(* path_resolve. *)

Plain == Token \ {"/", ".", ".."}

\* Sequences of plain names are paths and are closed under joining.
LEMMA Plains ==
    /\ "/" \in Token
    /\ \A s \in Seq(Plain) : /\ s \in Path /\ s \in Seq(Token \ {"/"}) /\ s \in Seq(Token \ {".", ".."})
                             /\ s \in Seq(Token \ {"/", ".", ".."})
    /\ \A s, r \in Seq(Plain) : s \o r \in Seq(Plain)
<1>1. "/" \in Token
  BY DEF Token
<1>2. Plain \subseteq Token /\ Plain \subseteq Token \ {"/"} /\ Plain \subseteq Token \ {".", ".."}
  BY DEF Plain
<1>3. \A s \in Seq(Plain) : s \in Seq(Token) /\ s \in Seq(Token \ {"/"}) /\ s \in Seq(Token \ {".", ".."})
  BY <1>2, SeqMonotonic
<1>4. \A s, r \in Seq(Plain) : s \o r \in Seq(Plain)
  BY ConcatProperties
<1> QED BY <1>1, <1>3, <1>4 DEF Path, Plain

\* A walk along the segments of a path leads to plain names.
LEMMA PlainWalk ==
    ASSUME NEW p \in Path
    PROVE  Walk(<<>>, Segments(p)) \in Seq(Plain) /\ Segments(p) \in Path /\ Segments(p) \in Seq(Token \ {"/"})
<1>1. Segments(p) \in Seq(Token \ {"/"})
  BY SegmentsAre DEF Path
<1>2. Walk(<<>>, Segments(p)) \in Seq((Token \ {"/"}) \ {".", ".."})
  BY <1>1, WalkNames
<1>3. (Token \ {"/"}) \ {".", ".."} = Plain
  BY DEF Plain
<1>4. Segments(p) \in Path
  <2>1. Token \ {"/"} \subseteq Token
    OBVIOUS
  <2> QED BY <1>1, <2>1, SeqMonotonic DEF Path
<1> QED BY <1>1, <1>2, <1>3, <1>4

\* What path_resolve looks up is the place that the path means.
LEMMA LooksUp ==
    ASSUME NEW at \in Path, IsAbsolute(at), NEW p \in Path, 2 * Len(Place(at, p)) <= MaxPath
    PROVE  /\ Place(at, p) \in Seq(Plain)
           /\ Normalize(IF IsAbsolute(p) THEN p ELSE Join(at, p)) = Spell(TRUE, Place(at, p))
<1> DEFINE s == Place(at, p)
<1>1. ASSUME s \in Seq(Plain)
      PROVE  /\ Spell(TRUE, s) \in Path /\ IsAbsolute(Spell(TRUE, s))
             /\ Output(Spell(TRUE, s)) = Spell(TRUE, s)
             /\ Segments(Spell(TRUE, s)) = s /\ Walk(<<>>, s) = s
  <2>0. 2 * Len(s) <= MaxPath
    OBVIOUS
  <2> HIDE DEF s
  <2>1. s \in Seq(Token) /\ s \in Seq(Token \ {"/"}) /\ s \in Seq(Token \ {".", ".."}) /\ "/" \in Token
    BY <1>1, Plains DEF Path
  <2>2. /\ Spell(TRUE, s) \in Seq(Token) /\ IsAbsolute(Spell(TRUE, s)) /\ Spell(TRUE, s) # <<>>
        /\ Len(Spell(TRUE, s)) = IF Len(s) = 0 THEN 1 ELSE 2 * Len(s)
    BY <2>1, SpellIs
  <2>3. Len(Spell(TRUE, s)) <= MaxPath
    <3>1. Len(s) \in Nat /\ MaxPath \in Nat \ {0}
      BY <2>1, PathAssumption
    <3> DEFINE l == Len(Spell(TRUE, s))
    <3>2. l = IF Len(s) = 0 THEN 1 ELSE 2 * Len(s)
      BY <2>2
    <3> HIDE DEF l
    <3>3. l <= MaxPath
      BY <2>0, <3>1, <3>2
    <3> QED BY <3>3 DEF l
  <2>4. Output(Spell(TRUE, s)) = Spell(TRUE, s)
    BY <2>2, <2>3, OutputIs
  <2>5. Segments(Spell(TRUE, s)) = s
    BY <2>1, SpellSegments
  <2>6. Walk(<<>>, s) = s
    BY <2>1, WalkPlain
  <2> QED BY <2>2, <2>4, <2>5, <2>6 DEF Path
<1>2. CASE IsAbsolute(p)
  <2>1. s = Walk(<<>>, Segments(p))
    BY <1>2 DEF Place
  <2>2. s \in Seq(Plain)
    BY <2>1, PlainWalk
  <2>3. Normalize(p) = Output(Spell(TRUE, Walk(<<>>, Segments(p))))
    BY <1>2, Plains, NormalizeIs DEF Path
  <2> HIDE DEF s
  <2>4. Normalize(p) = Spell(TRUE, s)
    BY <1>1, <2>1, <2>2, <2>3
  <2> QED BY <1>2, <2>2, <2>4 DEF s
<1>3. CASE ~IsAbsolute(p)
  <2>1. /\ Join(at, p) = Output(Spell(TRUE, Walk(<<>>, Segments(at) \o Segments(p))))
        /\ Segments(at) \in Path /\ Segments(p) \in Path /\ Segments(at) \o Segments(p) \in Path
    BY Plains, JoinIs DEF Path
  <2>2. s = Walk(Walk(<<>>, Segments(at)), Segments(p))
    BY <1>3 DEF Place
  <2>3. s = Walk(<<>>, Segments(at) \o Segments(p))
    BY <2>1, <2>2, WalkThen DEF Path
  <2>4. s \in Seq(Plain)
    <3>1. Segments(at) \in Seq(Token \ {"/"}) /\ Segments(p) \in Seq(Token \ {"/"})
      BY PlainWalk
    <3>2. Segments(at) \o Segments(p) \in Seq(Token \ {"/"})
      BY <3>1, ConcatProperties
    <3>3. Walk(<<>>, Segments(at) \o Segments(p)) \in Seq((Token \ {"/"}) \ {".", ".."})
      BY <3>2, WalkNames
    <3>4. (Token \ {"/"}) \ {".", ".."} = Plain
      BY DEF Plain
    <3> QED BY <2>3, <3>3, <3>4
  <2> HIDE DEF s
  <2>5. Join(at, p) = Spell(TRUE, s)
    BY <1>1, <2>1, <2>3, <2>4
  <2>6. Normalize(Join(at, p)) = Output(Spell(TRUE, Walk(<<>>, Segments(Join(at, p)))))
    BY <1>1, <2>4, <2>5, Plains, NormalizeIs DEF Path
  <2>7. Normalize(Join(at, p)) = Spell(TRUE, s)
    BY <1>1, <2>4, <2>5, <2>6
  <2> QED BY <1>3, <2>4, <2>7 DEF s
<1> QED BY <1>2, <1>3

\* A prefix, by its elements.
LEMMA PrefixIs ==
    ASSUME NEW T, NEW d \in Seq(T), NEW s \in Seq(T), NEW c, Common(s, d, c)
    PROVE  IsPrefix(d, s) <=> c = Len(d)
<1>1. /\ Len(d) \in Nat /\ Len(s) \in Nat /\ c \in Nat /\ c <= Len(s) /\ c <= Len(d)
      /\ (\A i \in 1..c : s[i] = d[i]) /\ (c < Len(s) /\ c < Len(d) => s[c + 1] # d[c + 1])
  BY DEF Common
<1>2. SubSeq(d, 1, Len(d)) = d
  BY SubSeqFull
<1>3. ASSUME Len(d) <= Len(s)
      PROVE  /\ SubSeq(s, 1, Len(d)) \in Seq(T) /\ Len(SubSeq(s, 1, Len(d))) = Len(d)
             /\ \A i \in 1..Len(d) : SubSeq(s, 1, Len(d))[i] = s[i]
  <2> DEFINE n == Len(d)
             r == SubSeq(s, 1, n)
  <2>1. 1 \in Int /\ n \in Int /\ n \in Nat
    BY <1>1
  <2>2. \A i \in 1..n : s[i] \in T
    <3>1. \A i \in 1..n : i \in 1..Len(s)
      BY <1>1, <1>3
    <3> QED BY <3>1
  <2> HIDE DEF n
  <2>3. /\ r \in Seq(T) /\ Len(r) = (IF 1 <= n THEN n - 1 + 1 ELSE 0)
        /\ \A i \in 1..(n - 1 + 1) : r[i] = s[1 + i - 1]
    BY <2>1, <2>2, SubSeqProperties
  <2> HIDE DEF r
  <2>4. Len(r) = n /\ \A i \in 1..n : i \in 1..(n - 1 + 1) /\ 1 + i - 1 = i
    BY <2>1, <2>3
  <2> QED BY <2>3, <2>4 DEF n, r
<1>4. ASSUME c = Len(d) PROVE IsPrefix(d, s)
  <2>1. Len(d) <= Len(s)
    BY <1>1, <1>4
  <2>2. SubSeq(s, 1, Len(d)) = d
    BY <1>1, <1>3, <1>4, <2>1, SeqEqual
  <2> QED BY <1>2, <2>1, <2>2 DEF IsPrefix
<1>5. ASSUME IsPrefix(d, s) PROVE c = Len(d)
  <2>1. Len(d) <= Len(s) /\ SubSeq(s, 1, Len(d)) = d
    BY <1>2, <1>5 DEF IsPrefix
  <2>2. \A i \in 1..Len(d) : s[i] = d[i]
    BY <1>3, <2>1
  <2>3. SUFFICES ASSUME c < Len(d) PROVE FALSE
    BY <1>1
  <2>4. c < Len(s) /\ c + 1 \in 1..Len(d)
    BY <1>1, <2>1, <2>3
  <2> QED BY <1>1, <2>2, <2>3, <2>4
<1> QED BY <1>4, <1>5

\* There is one longest common beginning.
LEMMA CommonOnce ==
    ASSUME NEW s, NEW d, Len(s) \in Nat, Len(d) \in Nat, NEW b, NEW c, Common(s, d, b), Common(s, d, c)
    PROVE  b = c
<1>1. /\ b \in Nat /\ b <= Len(s) /\ b <= Len(d) /\ \A i \in 1..b : s[i] = d[i]
      /\ b < Len(s) /\ b < Len(d) => s[b + 1] # d[b + 1]
      /\ c \in Nat /\ c <= Len(s) /\ c <= Len(d) /\ \A i \in 1..c : s[i] = d[i]
      /\ c < Len(s) /\ c < Len(d) => s[c + 1] # d[c + 1]
  BY DEF Common
<1>2. CASE b < c
  <2>1. b + 1 \in 1..c /\ b < Len(s) /\ b < Len(d)
    BY <1>1, <1>2
  <2> QED BY <1>1, <2>1
<1>3. CASE c < b
  <2>1. c + 1 \in 1..b /\ c < Len(s) /\ c < Len(d)
    BY <1>1, <1>3
  <2> QED BY <1>1, <2>1
<1> QED BY <1>1, <1>2, <1>3

\* A directory mapping is two paths.
LEMMA MapIs ==
    ASSUME NEW i \in DOMAIN Maps
    PROVE  /\ Maps[i].box \in Path /\ Maps[i].host \in Path /\ Dir(Maps[i]) \in Seq(Plain)
           /\ DOMAIN Maps = 1..Len(Maps) /\ Len(Maps) \in Nat
<1>1. DOMAIN Maps = 1..Len(Maps) /\ Len(Maps) \in Nat
  BY MapAssumption
<1> DEFINE M == [box : Path, host : Path]
<1>2. Maps[i] \in M
  <2>1. Maps \in Seq(M)
    BY MapAssumption
  <2> HIDE DEF M
  <2> QED BY <2>1
<1>3. Maps[i].box \in Path /\ Maps[i].host \in Path
  BY <1>2
<1> QED BY <1>1, <1>3, PlainWalk DEF Dir

\* The mapping that path_resolve takes is that of the closest directory around.
LEMMA ChoiceIs ==
    ASSUME MapsNested, NEW s \in Seq(Plain), DOMAIN Maps # {}
    PROVE  \E b \in DOMAIN Maps :
              /\ BestMap(Spell(TRUE, s)) = b /\ Holds(Maps[b], s)
              /\ Intersection(Spell(TRUE, s), Maps[b].box)
                    = IF Len(Dir(Maps[b])) = 0 THEN 1 ELSE 2 * Len(Dir(Maps[b]))
              /\ \A i \in DOMAIN Maps : Holds(Maps[i], s) => Len(Dir(Maps[i])) <= Len(Dir(Maps[b]))
<1> DEFINE D == DOMAIN Maps
           dir(i) == Dir(Maps[i])
           c(i) == CHOOSE k : Common(s, dir(i), k)
           path == Spell(TRUE, s)
           common(i) == Intersection(path, Maps[i].box)
<1>1. /\ D \in SUBSET Nat /\ 0 \notin D /\ Len(s) \in Nat
      /\ \A i \in D : /\ dir(i) \in Seq(Plain) /\ Len(dir(i)) \in Nat
                      /\ \A j \in 1..(i - 1) : j \in D /\ j < i
                      /\ Maps[i].box \in Seq(Token) /\ IsAbsolute(Maps[i].box)
                      /\ \A n \in 0..(Len(dir(i)) - 1) : \E j \in 1..(i - 1) : dir(j) = SubSeq(dir(i), 1, n)
  <2>1. D = 1..Len(Maps) /\ Len(Maps) \in Nat
    BY MapIs
  <2>2. \A i \in D : dir(i) \in Seq(Plain) /\ Maps[i].box \in Seq(Token)
    BY MapIs DEF Path
  <2>3. \A i \in D : /\ IsAbsolute(Maps[i].box)
                     /\ \A n \in 0..(Len(dir(i)) - 1) : \E j \in 1..(i - 1) : dir(j) = SubSeq(dir(i), 1, n)
    BY DEF MapsNested
  <2> HIDE DEF dir
  <2>4. \A i \in D : Len(dir(i)) \in Nat
    BY <2>2
  <2>5. Len(s) \in Nat
    OBVIOUS
  <2> HIDE DEF D
  <2>6. D \in SUBSET Nat /\ 0 \notin D /\ \A i \in D : \A j \in 1..(i - 1) : j \in D /\ j < i
    BY <2>1
  <2> QED BY <2>2, <2>3, <2>4, <2>5, <2>6
<1>2. D # {}
  OBVIOUS
<1>3. \A i \in D : Common(s, dir(i), c(i))
  <2> SUFFICES ASSUME NEW i \in D PROVE \E k : Common(s, dir(i), k)
    OBVIOUS
  <2> HIDE DEF dir, D
  <2> QED BY <1>1, CommonExists
<1>4. \A i \in D : common(i) = IF c(i) = 0 THEN 1 ELSE 2 * c(i)
  <2> SUFFICES ASSUME NEW i \in D PROVE common(i) = IF c(i) = 0 THEN 1 ELSE 2 * c(i)
    OBVIOUS
  <2>1. /\ s \in Seq(Token \ {"/", ".", ".."}) /\ "/" \in Token
        /\ Maps[i].box \in Seq(Token) /\ IsAbsolute(Maps[i].box)
    BY <1>1, Plains
  <2>2. Common(s, Walk(<<>>, Segments(Maps[i].box)), c(i))
    <3> HIDE DEF c
    <3>1. Common(s, dir(i), c(i))
      BY <1>3
    <3> QED BY <3>1 DEF Dir
  <2> DEFINE k == c(i)
  <2> HIDE DEF c
  <2> QED BY <2>1, <2>2, IntersectionIs
<1> HIDE DEF c
<1>5. \A i \in D : c(i) \in Nat /\ c(i) <= Len(s) /\ c(i) <= Len(dir(i)) /\ c(i) \in 0..Len(s)
  <2>1. \A i \in D : c(i) \in Nat /\ c(i) <= Len(s) /\ c(i) <= Len(dir(i))
    BY <1>3 DEF Common
  <2> QED BY <1>1, <2>1
<1> HIDE DEF D, dir, common
<1> DEFINE C == {c(i) : i \in D}
<1>6. PICK m \in C : \A x \in C : x <= m
  <2>1. C \in SUBSET Int /\ C # {} /\ \A x \in C : x \in 0..Len(s)
    BY <1>2, <1>5
  <2> HIDE DEF C
  <2> QED BY <1>1, <2>1, GreatestIn
<1> DEFINE I == {i \in D : c(i) = m}
           b == Least(I)
<1>7. b \in I /\ \A i \in I : b <= i
  <2>1. I \in SUBSET Nat /\ I # {}
    BY <1>1
  <2> HIDE DEF I
  <2> QED BY <2>1, LeastIs
<1> HIDE DEF b
<1>8. b \in D /\ c(b) = m /\ b \in Nat /\ m \in Nat /\ \A i \in D : c(i) <= m /\ (c(i) = m => b <= i)
  BY <1>1, <1>5, <1>6, <1>7
<1>9. BestMap(path) = b
  <2> DEFINE best == {i \in D : common(i) > 0 /\ \A j \in D :
                          common(j) < common(i) \/ (common(j) = common(i) /\ j >= i)}
  <2>1. BestMap(path) = IF best = {} THEN 0 ELSE CHOOSE i \in best : TRUE
    BY DEF BestMap, common, D, path
  <2>2. b \in best
    <3>1. common(b) > 0
      BY <1>4, <1>8
    <3>2. ASSUME NEW j \in D PROVE common(j) < common(b) \/ (common(j) = common(b) /\ j >= b)
      <4>1. /\ common(j) = (IF c(j) = 0 THEN 1 ELSE 2 * c(j)) /\ c(j) \in Nat /\ c(j) <= m
            /\ common(b) = (IF m = 0 THEN 1 ELSE 2 * m) /\ (c(j) = m => b <= j) /\ j \in Nat
        BY <1>1, <1>4, <1>5, <1>8
      <4>2. CASE c(j) = m
        BY <1>8, <4>1, <4>2
      <4>3. CASE c(j) # m
        BY <1>8, <4>1, <4>3
      <4> QED BY <4>2, <4>3
    <3> QED BY <1>8, <3>1, <3>2
  <2>3. ASSUME NEW i \in best PROVE i = b
    <3>1. common(b) < common(i) \/ (common(b) = common(i) /\ b >= i)
      BY <1>8
    <3>2. common(i) < common(b) \/ (common(i) = common(b) /\ i >= b)
      BY <2>2
    <3>3. i \in D /\ i \in Nat
      BY <1>1
    <3>4. common(i) \in Nat /\ common(b) \in Nat
      <4>1. \A j \in D : common(j) \in Nat
        BY <1>4, <1>5
      <4> QED BY <1>8, <3>3, <4>1
    <3> QED BY <1>8, <3>1, <3>2, <3>3, <3>4
  <2> HIDE DEF best
  <2> QED BY <2>1, <2>2, <2>3
<1>10. m = Len(dir(b))
  <2> SUFFICES ASSUME m # Len(dir(b)) PROVE FALSE
    OBVIOUS
  <2>1. m \in 0..(Len(dir(b)) - 1) /\ m <= Len(s) /\ m < Len(dir(b))
    BY <1>1, <1>5, <1>8
  <2>2. PICK j \in 1..(b - 1) : dir(j) = SubSeq(dir(b), 1, m)
    BY <1>1, <1>8, <2>1
  <2>3. j \in D /\ j < b /\ j \in Nat
    BY <1>1, <1>8
  <2>4. Len(dir(j)) = m /\ \A i \in 1..m : dir(j)[i] = dir(b)[i]
    <3> DEFINE d == dir(b)
               r == SubSeq(d, 1, m)
    <3>1. d \in Seq(Plain) /\ m \in Int /\ 1 \in Int /\ \A i \in 1..m : i \in 1..Len(d)
      BY <1>1, <1>8, <2>1
    <3> HIDE DEF d
    <3>2. \A i \in 1..m : d[i] \in Plain
      BY <3>1
    <3>3. /\ r \in Seq(Plain) /\ Len(r) = (IF 1 <= m THEN m - 1 + 1 ELSE 0)
          /\ \A i \in 1..(m - 1 + 1) : r[i] = d[1 + i - 1]
      BY <3>1, <3>2, SubSeqProperties
    <3> HIDE DEF r
    <3>4. Len(r) = m /\ \A i \in 1..m : i \in 1..(m - 1 + 1) /\ 1 + i - 1 = i
      BY <1>8, <3>3
    <3>5. Len(r) = m /\ \A i \in 1..m : r[i] = d[i]
      BY <3>3, <3>4
    <3> QED BY <2>2, <3>5 DEF r, d
  <2>5. Common(s, dir(b), m)
    BY <1>3, <1>8
  <2>6. Common(s, dir(j), m)
    <3>1. \A i \in 1..m : s[i] = dir(b)[i]
      BY <2>5 DEF Common
    <3> QED BY <1>8, <2>1, <2>4, <3>1 DEF Common
  <2>7. c(j) = m
    <3>1. Common(s, dir(j), c(j)) /\ Len(dir(j)) \in Nat
      BY <1>1, <1>3, <2>3
    <3> QED BY <1>1, <2>6, <3>1, CommonOnce
  <2> QED BY <1>8, <2>3, <2>7
<1>11. ASSUME NEW i \in D PROVE Holds(Maps[i], s) <=> c(i) = Len(dir(i))
  <2>1. dir(i) \in Seq(Plain) /\ Common(s, dir(i), c(i))
    BY <1>1, <1>3
  <2>2. IsPrefix(dir(i), s) <=> c(i) = Len(dir(i))
    BY <2>1, PrefixIs
  <2> QED BY <2>2 DEF Holds, dir
<1>12. Holds(Maps[b], s)
  BY <1>8, <1>10, <1>11
<1>13. \A i \in D : Holds(Maps[i], s) => Len(dir(i)) <= Len(dir(b))
  BY <1>8, <1>10, <1>11
<1>14. common(b) = IF Len(dir(b)) = 0 THEN 1 ELSE 2 * Len(dir(b))
  BY <1>4, <1>8, <1>10
<1> QED BY <1>8, <1>9, <1>12, <1>13, <1>14 DEF D, dir, common

\* path_resolve finds what the path means.
LEMMA ResolveIs ==
    ASSUME MapsNested, NEW at \in Path, IsAbsolute(at), NEW p \in Path,
           2 * Len(Place(at, p)) <= MaxPath, Len(Located(at, p)) <= MaxPath
    PROVE  Resolve(at, p) = Located(at, p)
<1> DEFINE s == Place(at, p)
           path == Spell(TRUE, s)
           fit == {m \in {Maps[i] : i \in DOMAIN Maps} : Holds(m, s)}
           best == CHOOSE m \in fit : \A n \in fit : Len(Dir(n)) <= Len(Dir(m))
           m0 == BestMap(path)
<1>1. s \in Seq(Plain) /\ Normalize(IF IsAbsolute(p) THEN p ELSE Join(at, p)) = path
  BY LooksUp
<1>2. Resolve(at, p) = IF m0 = 0 THEN NoPath
                       ELSE Join(Maps[m0].host, SubSeq(path, Intersection(path, Maps[m0].box) + 1, Len(path)))
  <2> HIDE DEF path
  <2> QED BY <1>1 DEF Resolve
<1>3. Located(at, p) = IF fit = {} THEN NoPath
        ELSE Spell(TRUE, Walk(<<>>, Segments(best.host)) \o SubSeq(s, Len(Dir(best)) + 1, Len(s)))
  BY DEF Located
<1> HIDE DEF s
<1>4. CASE DOMAIN Maps = {}
  <2>1. m0 = 0
    BY <1>4 DEF BestMap
  <2>2. fit = {}
    BY <1>4
  <2> HIDE DEF m0, fit
  <2> QED BY <1>2, <1>3, <2>1, <2>2
<1>5. CASE DOMAIN Maps # {}
  <2>1. PICK b \in DOMAIN Maps :
              /\ m0 = b /\ Holds(Maps[b], s)
              /\ Intersection(path, Maps[b].box) = IF Len(Dir(Maps[b])) = 0 THEN 1 ELSE 2 * Len(Dir(Maps[b]))
              /\ \A i \in DOMAIN Maps : Holds(Maps[i], s) => Len(Dir(Maps[i])) <= Len(Dir(Maps[b]))
    BY <1>1, <1>5, ChoiceIs
  <2> DEFINE d == Dir(Maps[b])
             c == Len(d)
             k == Intersection(path, Maps[b].box)
             r == SubSeq(path, k + 1, Len(path))
             rest == SubSeq(s, c + 1, Len(s))
             h == Segments(Maps[b].host)
             w == Walk(<<>>, h)
             out == Spell(TRUE, w \o rest)
  <2>2. /\ b # 0 /\ Maps[b].host \in Path /\ IsAbsolute(Maps[b].host)
        /\ \A i \in DOMAIN Maps : Dir(Maps[i]) \in Seq(Plain)
        /\ d \in Seq(Plain) /\ c \in Nat /\ Len(s) \in Nat
    <3>1. \A i \in DOMAIN Maps : Dir(Maps[i]) \in Seq(Plain)
      BY MapIs
    <3>2. b # 0 /\ Maps[b].host \in Path
      <4>1. DOMAIN Maps = 1..Len(Maps) /\ Len(Maps) \in Nat /\ Maps[b].host \in Path
        BY MapIs
      <4> QED BY <4>1
    <3>3. IsAbsolute(Maps[b].host)
      BY DEF MapsNested
    <3>4. d \in Seq(Plain)
      BY <3>1
    <3> HIDE DEF d
    <3>5. c \in Nat /\ Len(s) \in Nat
      BY <1>1, <3>4
    <3> QED BY <3>1, <3>2, <3>3, <3>4, <3>5
  <2>3. c <= Len(s) /\ c \in 0..Len(s)
    <3>1. Len(d) <= Len(s)
      BY <2>1 DEF Holds, IsPrefix
    <3> HIDE DEF d
    <3> QED BY <2>2, <3>1
  <2>4. k = IF c = 0 THEN 1 ELSE 2 * c
    BY <2>1
  <2>5. r \in Path /\ Segments(r) = rest
    <3>1. s \in Seq(Token \ {"/"}) /\ "/" \in Token
      BY <1>1, Plains
    <3> HIDE DEF d, k
    <3> QED BY <2>3, <2>4, <3>1, RestIs DEF Path
  <2>6. rest \in Seq(Plain)
    <3>1. \A i \in (c + 1)..Len(s) : s[i] \in Plain
      <4>1. \A i \in (c + 1)..Len(s) : i \in 1..Len(s)
        BY <2>2
      <4> HIDE DEF c
      <4> QED BY <1>1, <4>1
    <3> HIDE DEF c
    <3>2. c + 1 \in Int /\ Len(s) \in Int
      BY <2>2
    <3> QED BY <3>1, <3>2, SubSeqProperties
  <2>7. h \in Path /\ w \in Seq(Plain)
    BY <2>2, PlainWalk
  <2> HIDE DEF d, c, k, r, rest, h, w, path
  <2>8. /\ w \o rest \in Seq(Plain) /\ w \o rest \in Path /\ w \o rest \in Seq(Token \ {".", ".."})
        /\ w \in Path /\ w \in Seq(Token \ {".", ".."}) /\ rest \in Path /\ h \o rest \in Path
    <3>1. w \o rest \in Seq(Plain)
      BY <2>6, <2>7, Plains
    <3>2. w \in Path /\ rest \in Path /\ w \in Seq(Token \ {".", ".."})
      BY <2>6, <2>7, Plains
    <3>3. w \o rest \in Path /\ w \o rest \in Seq(Token \ {".", ".."})
      BY <3>1, Plains
    <3>4. h \o rest \in Path
      BY <2>7, <3>2, ConcatProperties DEF Path
    <3> QED BY <3>1, <3>2, <3>3, <3>4
  <2>9. Walk(<<>>, h \o rest) = w \o rest
    <3>1. Walk(<<>>, h \o rest) = Walk(w, rest)
      BY <2>7, <2>8, WalkThen DEF Path, w
    <3>2. Walk(<<>>, w) = w
      BY <2>8, WalkPlain
    <3>3. Walk(Walk(<<>>, w), rest) = Walk(<<>>, w \o rest)
      BY <2>8, WalkThen DEF Path
    <3>4. Walk(<<>>, w \o rest) = w \o rest
      BY <2>8, WalkPlain
    <3> QED BY <3>1, <3>2, <3>3, <3>4
  <2>10. Resolve(at, p) = Output(out)
    <3>1. Join(Maps[b].host, r) = Output(Spell(TRUE, Walk(<<>>, h \o rest)))
      BY <2>2, <2>5, Plains, JoinIs DEF Path, h
    <3>2. Resolve(at, p) = Join(Maps[b].host, r)
      <4> HIDE DEF m0
      <4> QED BY <1>2, <2>1, <2>2 DEF r, k
    <3> QED BY <2>9, <3>1, <3>2
  <2>11. fit # {} /\ best = Maps[b]
    <3>1. Maps[b] \in fit /\ \A n \in fit : Len(Dir(n)) <= Len(Dir(Maps[b]))
      BY <2>1
    <3>2. ASSUME NEW m \in fit, \A n \in fit : Len(Dir(n)) <= Len(Dir(m))
          PROVE  m = Maps[b]
      <4>1. PICK i \in DOMAIN Maps : m = Maps[i] /\ Holds(Maps[i], s)
        OBVIOUS
      <4> HIDE DEF fit
      <4>2. Len(Dir(Maps[i])) = Len(Dir(Maps[b]))
        <5> DEFINE x == Len(Dir(Maps[i]))
                   y == Len(Dir(Maps[b]))
        <5>1. x <= y /\ y <= x
          BY <3>1, <3>2, <4>1
        <5>2. x \in Nat /\ y \in Nat
          BY <2>2
        <5> HIDE DEF x, y
        <5>3. x = y
          BY <5>1, <5>2
        <5> QED BY <5>3 DEF x, y
      <4>3. \A j \in DOMAIN Maps : Holds(Maps[j], s) => Dir(Maps[j]) = SubSeq(s, 1, Len(Dir(Maps[j])))
        <5> SUFFICES ASSUME NEW j \in DOMAIN Maps, Holds(Maps[j], s)
                     PROVE  Dir(Maps[j]) = SubSeq(s, 1, Len(Dir(Maps[j])))
          OBVIOUS
        <5>1. SubSeq(Dir(Maps[j]), 1, Len(Dir(Maps[j]))) = SubSeq(s, 1, Len(Dir(Maps[j])))
          BY DEF Holds, IsPrefix
        <5>2. SubSeq(Dir(Maps[j]), 1, Len(Dir(Maps[j]))) = Dir(Maps[j])
          BY <2>2, SubSeqFull
        <5> QED BY <5>1, <5>2
      <4>4. Dir(Maps[i]) = Dir(Maps[b])
        BY <2>1, <4>1, <4>2, <4>3
      <4> QED BY <4>1, <4>4 DEF MapsNested
    <3> HIDE DEF fit
    <3> QED BY <3>1, <3>2
  <2>12. Located(at, p) = out
    <3> HIDE DEF fit, best
    <3> QED BY <1>3, <2>11 DEF w, h, rest, c, d
  <2>13. out \in Path /\ out # <<>>
    BY <2>8, Plains, SpellIs DEF Path
  <2> HIDE DEF out
  <2>14. Output(out) = out
    BY <2>12, <2>13, OutputIs DEF Path
  <2> QED BY <2>10, <2>12, <2>14
<1> QED BY <1>4, <1>5

-----------------------------------------------------------------------------
(* The working directory. *)

CwdInv ==
    /\ cwd \in Path /\ (cwd = <<>> \/ IsAbsolute(cwd))
    /\ \A t \in Thread : op[t].at = "fchdir" => op[t].path \in PathArg

\* chdir and fchdir leave an absolute path, or none.
LEMMA NewCwdIs ==
    ASSUME CwdInv, NEW p \in Path, ProcChdir(p)
    PROVE  cwd' \in Path /\ (cwd' = <<>> \/ IsAbsolute(cwd'))
<1>1. cwd \in Path /\ (cwd = <<>> \/ IsAbsolute(cwd))
  BY DEF CwdInv
<1>2. CASE IsAbsolute(p)
  BY <1>1, <1>2 DEF ProcChdir, NewCwd
<1>3. CASE ~IsAbsolute(p) /\ cwd # <<>>
  <2>1. /\ Join(cwd, p) = Output(Spell(TRUE, Walk(<<>>, Segments(cwd) \o Segments(p))))
        /\ Segments(cwd) \o Segments(p) \in Path
    BY <1>1, <1>3, Plains, JoinIs DEF Path
  <2>2. Walk(<<>>, Segments(cwd) \o Segments(p)) \in Path
    BY <2>1, Plains, Left DEF Path
  <2> DEFINE x == Walk(<<>>, Segments(cwd) \o Segments(p))
  <2> HIDE DEF x
  <2>3. Spell(TRUE, x) \in Path /\ Spell(TRUE, x) # <<>> /\ IsAbsolute(Spell(TRUE, x))
    BY <2>2, Plains, SpellIs DEF Path, x
  <2>4. Join(cwd, p) \in Path /\ IsAbsolute(Join(cwd, p))
    BY <2>1, <2>3, OutputIs DEF Path, x
  <2> QED BY <1>1, <1>3, <2>4 DEF ProcChdir, NewCwd
<1>4. CASE ~IsAbsolute(p) /\ cwd = <<>>
  BY <1>1, <1>4 DEF ProcChdir
<1> QED BY <1>2, <1>3, <1>4

\* A process starts with no working directory or an absolute one.
LEMMA CwdInit == FileInit => CwdInv
<1> SUFFICES ASSUME FileInit PROVE CwdInv
  OBVIOUS
<1>1. cwd \in {<<"/">>, <<>>} /\ \A t \in Thread : op[t].at = "idle"
  BY DEF FileInit, NoOp
<1>2. <<"/">> \in Path /\ <<>> \in Path /\ IsAbsolute(<<"/">>)
  BY DEF Path, Token, IsAbsolute, Root, IsSeparator
<1> QED BY <1>1, <1>2 DEF CwdInv

\* Every step keeps the working directory and the marks of slots paths.
LEMMA CwdStep == FInv /\ CwdInv /\ [FileNext]_fileVars => CwdInv'
<1> SUFFICES ASSUME FInv, CwdInv, [FileNext]_fileVars PROVE CwdInv'
  OBVIOUS
<1>0. /\ cwd \in Path /\ (cwd = <<>> \/ IsAbsolute(cwd))
      /\ \A t \in Thread : op[t].at = "fchdir" => op[t].path \in PathArg
      /\ PathArg \in SUBSET Path
  BY NameAssumption DEF CwdInv
<1>1. ASSUME UNCHANGED <<cwd, op>> PROVE CwdInv'
  BY <1>0, <1>1 DEF CwdInv
\* A call that is not an fchdir is left alone by another.
<1>2. ASSUME NEW t \in Thread, cwd' = cwd, NEW r, op' = [op EXCEPT ![t] = r],
             r.at = "fchdir" => r.path \in PathArg
      PROVE  CwdInv'
  <2>1. op = [u \in Thread |-> op[u]]
    BY DEF FInv, FileTypes
  <2>2. \A u \in Thread : op'[u] = IF u = t THEN r ELSE op[u]
    BY <1>2, <2>1
  <2> QED BY <1>0, <1>2, <2>2 DEF CwdInv
<1>3. ASSUME NEW t \in Thread, NEW p \in PathArg, Chdir(t, p) PROVE CwdInv'
  <2>1. cwd' \in Path /\ (cwd' = <<>> \/ IsAbsolute(cwd')) /\ op' = op
    BY <1>0, <1>3, NewCwdIs DEF Chdir
  <2> QED BY <1>0, <2>1 DEF CwdInv
<1>4. ASSUME NEW t \in Thread, Fchdir(t) PROVE CwdInv'
  <2>1. cwd' \in Path /\ (cwd' = <<>> \/ IsAbsolute(cwd'))
    <3>1. op[t].path \in Path /\ ProcChdir(op[t].path)
      BY <1>0, <1>4 DEF Fchdir
    <3> QED BY <3>1, NewCwdIs
  <2>2. op = [u \in Thread |-> op[u]]
    BY DEF FInv, FileTypes
  <2>3. op' = [op EXCEPT ![t] = NoOp] /\ NoOp.at = "idle"
    BY <1>4 DEF Fchdir, Done, NoOp
  <2>4. \A u \in Thread : op'[u].at = "fchdir" => op'[u].path \in PathArg
    BY <1>0, <2>2, <2>3
  <2> QED BY <2>1, <2>4 DEF CwdInv
<1>5. ASSUME NEW t \in Thread, NEW fd \in Slot, FchdirCopy(t, fd) PROVE CwdInv'
  <2>1. dirs[fd] \in PathArg
    BY <1>5 DEF FchdirCopy, FInv, FileTypes
  <2> DEFINE r == [NoOp EXCEPT !.at = "fchdir", !.path = dirs[fd], !.file = host[fds[fd]]]
  <2>2. r.path = dirs[fd]
    BY DEF NoOp
  <2> HIDE DEF r
  <2> QED BY <1>2, <1>5, <2>1, <2>2 DEF FchdirCopy, r
<1>6. ASSUME NEW t \in Thread, NEW p, NEW fl, OpenResolve(t, p, fl) PROVE CwdInv'
  <2> DEFINE r == [NoOp EXCEPT !.at = "resolved", !.path = p, !.hostPath = Resolve(cwd, p), !.flags = fl]
  <2>1. r.at = "resolved"
    BY DEF NoOp
  <2> HIDE DEF r
  <2> QED BY <1>2, <1>6, <2>1 DEF OpenResolve, r
<1>7. NoOp.at = "idle"
  BY DEF NoOp
<1>8. ASSUME NEW t \in Thread, Done(t), cwd' = cwd PROVE CwdInv'
  BY <1>2, <1>7, <1>8 DEF Done
<1>9. ASSUME NEW t \in Thread, OpenHost(t) \/ Install(t) \/ OpenUndo(t) PROVE CwdInv'
  <2>1. CASE OpenHost(t)
    <3>1. CASE Done(t)
      BY <1>8, <2>1, <3>1 DEF OpenHost
    <3>2. CASE \E h \in HostFd : op' = [op EXCEPT ![t].at = "opened", ![t].kfd = h]
      <4>1. PICK h \in HostFd : op' = [op EXCEPT ![t].at = "opened", ![t].kfd = h]
        BY <3>2
      <4>2. op' = [op EXCEPT ![t] = [op[t] EXCEPT !.at = "opened", !.kfd = h]]
        BY <4>1
      <4> DEFINE r == [op[t] EXCEPT !.at = "opened", !.kfd = h]
      <4>3. r.at = "opened"
        BY DEF FInv, FileTypes, OpOf
      <4> HIDE DEF r
      <4> QED BY <1>2, <2>1, <4>2, <4>3 DEF OpenHost, r
    <3> QED BY <2>1, <3>1, <3>2 DEF OpenHost
  <2>2. CASE Install(t)
    <3>1. CASE FreeSlots = {}
      <4>1. op' = [op EXCEPT ![t] = [op[t] EXCEPT !.at = "full"]] /\ cwd' = cwd
        BY <2>2, <3>1 DEF Install
      <4> DEFINE r == [op[t] EXCEPT !.at = "full"]
      <4>2. r.at = "full"
        BY DEF FInv, FileTypes, OpOf
      <4> HIDE DEF r
      <4> QED BY <1>2, <4>1, <4>2 DEF r
    <3>2. CASE FreeSlots # {}
      BY <1>8, <2>2, <3>2 DEF Install
    <3> QED BY <3>1, <3>2
  <2>3. CASE OpenUndo(t)
    BY <1>8, <2>3 DEF OpenUndo
  <2> QED BY <1>9, <2>1, <2>2, <2>3
<1>10. ASSUME NEW t \in Thread, NEW fd, NEW call, NEW left, Acquire(t, fd, call, left) PROVE CwdInv'
  <2>1. PICK h \in HostFd :
           op' = [op EXCEPT ![t] = [NoOp EXCEPT !.at = "acquired", !.fd = fd, !.kfd = h,
                                                 !.call = call, !.left = left]]
    BY <1>10 DEF Acquire
  <2> DEFINE r == [NoOp EXCEPT !.at = "acquired", !.fd = fd, !.kfd = h, !.call = call, !.left = left]
  <2>2. r.at = "acquired"
    BY DEF NoOp
  <2>3. op' = [op EXCEPT ![t] = r] /\ cwd' = cwd
    BY <1>10, <2>1 DEF Acquire
  <2> HIDE DEF r
  <2> QED BY <1>2, <2>2, <2>3
<1>11. ASSUME NEW t \in Thread, Release(t) \/ NextBuffer(t) PROVE CwdInv'
  <2>1. CASE Release(t)
    <3>1. CASE Done(t)
      BY <1>8, <2>1, <3>1 DEF Release
    <3>2. CASE op' = [op EXCEPT ![t].at = "next", ![t].kfd = -1]
      <4> DEFINE r == [op[t] EXCEPT !.at = "next", !.kfd = -1]
      <4>1. r.at = "next" /\ op' = [op EXCEPT ![t] = r]
        BY <3>2 DEF FInv, FileTypes, OpOf
      <4> HIDE DEF r
      <4> QED BY <1>2, <2>1, <4>1 DEF Release
    <3> QED BY <2>1, <3>1, <3>2 DEF Release
  <2>2. CASE NextBuffer(t)
    <3>1. CASE Acquire(t, op[t].fd, op[t].call, op[t].left - 1)
      BY <1>10, <3>1
    <3>2. CASE Done(t) /\ cwd' = cwd
      BY <1>8, <3>2
    <3> QED BY <2>2, <3>1, <3>2 DEF NextBuffer
  <2> QED BY <1>11, <2>1, <2>2
<1>12. ASSUME NEW t \in Thread, NEW fd \in Slot, Dup(t, fd) \/ Close(t, fd) PROVE CwdInv'
  BY <1>1, <1>12 DEF Dup, Close
<1>13. ASSUME NEW t \in Thread, NEW fd \in Slot, NEW new \in Slot, Dup3(t, fd, new) PROVE CwdInv'
  BY <1>1, <1>13 DEF Dup3
<1>14. ASSUME FreeTable PROVE CwdInv'
  BY <1>1, <1>14 DEF FreeTable
<1>15. ASSUME UNCHANGED fileVars PROVE CwdInv'
  BY <1>1, <1>15 DEF fileVars
<1>16. ASSUME NEW t \in Thread, NEW fd \in Slot, NEW call, NEW n, StartCall(t, fd, call, n) PROVE CwdInv'
  BY <1>10, <1>16 DEF StartCall
<1> QED BY <1>3, <1>4, <1>5, <1>6, <1>9, <1>11, <1>12, <1>13, <1>14, <1>15, <1>16 DEF FileNext

\* From such a directory every path is found.
LEMMA CwdSound == ASSUME MapsNested, CwdInv PROVE SoundFor(Path)
<1>1. cwd # <<>> => cwd \in Path /\ IsAbsolute(cwd)
  BY DEF CwdInv
<1>2. ASSUME cwd # <<>>, NEW p \in Path, 2 * Len(Place(cwd, p)) <= MaxPath, Len(Located(cwd, p)) <= MaxPath
      PROVE  Resolve(cwd, p) = Located(cwd, p)
  BY <1>1, <1>2, ResolveIs
<1> QED BY <1>2 DEF SoundFor

\* From every directory that chdir and fchdir reach, path_resolve finds for
\* every path what it means, unless a buffer was too short: cwk_path_normalize
\* and cwk_path_join take "." and ".." as a walk does, and the mapping with the
\* longest match is the closest one around, if the mappings are nested.
THEOREM PathsResolve == MapsNested => (FileSpec => []SoundFor(Path))
<1>1. MapsNested /\ CwdInv => SoundFor(Path)
  BY CwdSound
<1>2. FileInit => FInv /\ CwdInv
  BY InitInv, CwdInit
<1>3. FInv /\ CwdInv /\ [FileNext]_fileVars => (FInv /\ CwdInv)'
  BY StepInv, CwdStep
<1>4. FileSpec => [](FInv /\ CwdInv)
  BY <1>2, <1>3, PTL DEF FileSpec
<1> SUFFICES ASSUME MapsNested PROVE FileSpec => []SoundFor(Path)
  OBVIOUS
<1>5. FInv /\ CwdInv => SoundFor(Path)
  BY <1>1
<1> QED BY <1>4, <1>5, PTL

-----------------------------------------------------------------------------
(* The paths that a run asks for. *)

\* The paths of the run are paths of the theorem.
LEMMA WidePathsArePaths == WidePaths \subseteq Path
<1>1. \A a \in Seg : <<a>> \in Path
  BY MCAssumption DEF Seg, Token, Path
<1>2. <<"/">> \in Path /\ <<"/", "/">> \in Path /\ <<>> \in Path
  BY Plains DEF Path
<1>3. \A a, b : Sep(a, b) \in Path
  BY <1>2 DEF Sep
<1>4. \A p, q \in Path : p \o q \in Path
  BY ConcatProperties DEF Path
<1>5. One \subseteq Path
  BY <1>1 DEF One
<1>6. ASSUME NEW P \in SUBSET Path
      PROVE  Longer(P) \subseteq Path
  <2>1. \A p \in P, a \in Seg : p \o Sep(Last(p), a) \o <<a>> \in Path
    BY <1>1, <1>3, <1>4
  <2>2. \A p \in P : {p \o Sep(Last(p), a) \o <<a>> : a \in Seg} \subseteq Path
    BY <2>1
  <2> DEFINE F == {{p \o Sep(Last(p), a) \o <<a>> : a \in Seg} : p \in P}
  <2>3. \A x \in F : x \subseteq Path
    BY <2>2
  <2> HIDE DEF F
  <2>4. UNION F \subseteq Path
    BY <2>3
  <2> QED BY <2>4 DEF Longer, F
<1>7. Longer(One) \subseteq Path /\ Longer(Longer(One)) \subseteq Path
  BY <1>5, <1>6
<1>8. {p \o <<"/">> : p \in One} \subseteq Path
  BY <1>2, <1>4, <1>5
<1> DEFINE rel == {<<>>} \cup One \cup {p \o <<"/">> : p \in One} \cup Longer(One) \cup Longer(Longer(One))
<1>9. rel \subseteq Path
  BY <1>2, <1>5, <1>7, <1>8
<1>10. WidePaths = rel \cup {<<"/">> \o p : p \in rel}
  BY DEF WidePaths
<1> HIDE DEF rel
<1> QED BY <1>2, <1>4, <1>9, <1>10

\* path_resolve in the states of the run: it is what the theorem says of its
\* paths, with the directories of its own behaviours.
THEOREM RunPathsSound == MCSpec => []PathsSound
<1> DEFINE Inv == part = "paths" => CwdInv
<1>1. MCInit => Inv
  BY CwdInit DEF MCInit
<1>2. Inv /\ [MCNext]_<<fileVars, accessVars, part>> => Inv'
  <2> SUFFICES ASSUME Inv, [MCNext]_<<fileVars, accessVars, part>>, part' = "paths"
               PROVE  CwdInv'
    OBVIOUS
  <2>1. part = "paths" /\ CwdInv
    BY DEF MCNext
  <2>2. CASE UNCHANGED <<fileVars, accessVars, part>>
    BY <2>1, <2>2 DEF fileVars, CwdInv
  <2>3. CASE MCNext
    <3>1. PICK p \in WidePaths : Chdir(t1, p)
      BY <2>1, <2>3 DEF MCNext
    <3>2. cwd' \in Path /\ (cwd' = <<>> \/ IsAbsolute(cwd')) /\ op' = op
      BY <2>1, <3>1, WidePathsArePaths, NewCwdIs DEF Chdir
    <3> QED BY <2>1, <3>2 DEF CwdInv
  <2> QED BY <2>2, <2>3
<1>3. Inv => PathsSound
  <2>1. MapsNested /\ CwdInv => SoundFor(Path)
    BY CwdSound
  <2>2. SoundFor(Path) => SoundFor(WidePaths)
    BY WidePathsArePaths DEF SoundFor
  <2> QED BY <2>1, <2>2, MCAssumption DEF PathsSound
<1> HIDE DEF Inv
<1> QED BY <1>1, <1>2, <1>3, PTL DEF MCSpec
=============================================================================
