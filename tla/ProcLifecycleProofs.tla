------------------------- MODULE ProcLifecycleProofs -------------------------
(***************************************************************************)
(* Proofs about ProcLifecycle.  The embedder that keeps to its side calls  *)
(* into the sandbox neither from callbacks on sandbox-spawned threads      *)
(* through a fresh context (CallbackAttach) nor from other TLS destructors *)
(* (LateCalls); the theorems assume both are FALSE.                        *)
(***************************************************************************)
EXTENDS ProcLifecycle, FiniteSetTheorems, TLAPS

Nodes(s) == {s[i] : i \in DOMAIN s}
Distinct(s) == \A i, j \in DOMAIN s : s[i] = s[j] => i = j

\* Where a thread works on cur[t], and the attachment state of cur[t] there.
AttachPC == {"clone", "creating", "attach"}
DetachPC == {"destroying", "detached", "drain", "destroy"}
StateAt(label) ==
    CASE label \in {"clone", "creating"} -> "creating"
      [] label \in {"attach", "destroying"} -> "live"
      [] label = "detached" -> "freed"
      [] OTHER -> "released"

\* Contexts in the hands of t: being worked on, or named by its cleanup list,
\* which may be stale once the thread's destructor ran.
Owned(t) == Nodes(list[t]) \cup ({cur[t]} \ {None})

\* Types, with counters that might be negative.
Typed ==
    /\ present \subseteq Proc
    /\ attached \in [Proc -> Int]
    /\ active \in [Proc -> Int]
    /\ threads \in [Proc -> SUBSET Runtime]
    /\ pending \in [Proc -> BOOLEAN]
    /\ lkProc \in [Proc -> BOOLEAN]
    /\ lkClone \in [Proc -> Thread \cup {None}]
    /\ waiters \in [Proc -> SUBSET (Thread \cup Proc)]
    /\ terminating \in [Proc -> BOOLEAN]
    /\ fpc \in [Proc -> FreePC]
    /\ ctxProc \in [Ctx -> Proc \cup {None}]
    /\ ctxSt \in [Ctx -> CtxState]
    /\ nodes \subseteq Ctx
    /\ pc \in [Thread -> ThreadPC]
    /\ cur \in [Thread -> Ctx \cup {None}]
    /\ list \in [Thread -> Seq(Ctx)]
    /\ cleanup \in [Thread -> BOOLEAN]
    /\ armed \in [Thread -> BOOLEAN]
    /\ keySet \in [Thread -> BOOLEAN]
    /\ walk \in [Thread -> Seq(Ctx)]
    /\ leaving \subseteq Thread
    /\ child \in [Thread -> Runtime \cup {None}]
    /\ rproc \in [Runtime -> Proc \cup {None}]
    /\ objs \subseteq Runtime
    /\ aborted \in BOOLEAN

\* Control: which positions go with which local data.
Control ==
    /\ \A t \in Thread :
         /\ pc[t] \in AttachPC \cup DetachPC <=> cur[t] # None
         /\ t \in leaving => pc[t] \in DetachPC \cup {"exiting", "walk", "done"}
         /\ t \notin leaving => pc[t] \notin {"exiting", "walk"} /\ walk[t] = <<>>
         /\ walk[t] # <<>> => pc[t] \in DetachPC \cup {"walk"}
         /\ t \in leaving /\ pc[t] \in DetachPC =>
                walk[t] # <<>> /\ cur[t] = Head(walk[t])
         /\ t \in leaving /\ pc[t] # "exiting" => ~keySet[t]
    /\ \A r \in Runtime :
         /\ pc[r] \notin AttachPC \cup DetachPC \cup {"host", "walk"}
         /\ list[r] = <<>> /\ ~keySet[r] /\ ~armed[r]
         /\ r \notin leaving /\ pc[r] \notin {"none", "done"} <=> r \in objs
         /\ pc[r] # "none" => rproc[r] \in Proc
    /\ \A h \in Host : pc[h] \notin {"none", "starting", "sandbox", "left"}

\* A context belongs to a process once it is in use.
Known == \A c \in Ctx : ctxProc[c] = None <=> ctxSt[c] = "unused"

\* The contexts in the hands of t are in the state the position of t says.
Holds(t) ==
    /\ cur[t] # None => ctxSt[cur[t]] = StateAt(pc[t])
    /\ \A c \in Owned(t) : ctxSt[c] # "unused"
    /\ t \notin leaving => cur[t] \notin Nodes(list[t])
    /\ Distinct(list[t]) /\ Distinct(walk[t])
    /\ Nodes(walk[t]) \subseteq Nodes(list[t])
    /\ t \notin leaving \/ keySet[t] =>
         \A c \in Nodes(list[t]) : ctxSt[c] = "live" /\ c \in nodes
    /\ \A c \in Nodes(walk[t]) : c # cur[t] => ctxSt[c] = "live"

\* No context is in the hands of two threads.
Apart == \A t, u \in Thread : t # u => Owned(t) \cap Owned(u) = {}

Ownership == Known /\ (\A t \in Thread : Holds(t)) /\ Apart

\* The counters count.
Counting ==
    \A p \in Proc :
        /\ attached[p] = Cardinality(Holding(p))
        /\ active[p] = Cardinality(Spawned(p))
        /\ threads[p] \subseteq Spawned(p)

\* A thread being spawned belongs to one spawner.
Spawning ==
    /\ \A t \in Thread : pc[t] = "spawn" =>
         child[t] \in Runtime /\ pc[child[t]] = "starting"
    /\ \A t, u \in Thread : pc[t] = "spawn" /\ pc[u] = "spawn" /\ child[t] = child[u]
         => t = u

CloneLocked ==
    \A t \in Thread : pc[t] = "creating" => lkClone[ctxProc[cur[t]]] = t

\* Who may free the process, and what is then left of its users.
Reclaims(p) ==
    /\ Holding(p) \cup Spawned(p) # {} => p \in present
    /\ pending[p] <=> fpc[p] = "deferred"
    /\ lkProc[p] <=> fpc[p] \in {"drain", "decide"}
    /\ fpc[p] \in {"idle", "drain", "decide", "destroy"} => p \in present
    /\ fpc[p] = "destroy" => Holding(p) = {} /\ Spawned(p) = {}
    /\ ~aborted /\ fpc[p] = "decide" => Holding(p) # {} \/ Spawned(p) = {}
    /\ \A t \in Reclaimers(p) \ {p} :
         /\ fpc[p] = "deferred" /\ p \in present /\ Holding(p) = {}
         /\ pc[t] = "destroy" => Spawned(p) = {}
    /\ \A t, u \in Reclaimers(p) : t = u
    /\ ~aborted /\ fpc[p] = "deferred" /\ Holding(p) = {} /\ p \in present
         => Reclaimers(p) # {}

Reclaiming == \A p \in Proc : Reclaims(p)

\* The single sleeper on cond_threads.
Waits(p) ==
    /\ \A w \in waiters[p] :
         \/ w = p /\ fpc[p] = "drain"
         \/ w \in Thread /\ pc[w] = "drain" /\ ctxProc[cur[w]] = p
    /\ waiters[p] # {} => Spawned(p) # {}

Waiting == \A p \in Proc : Waits(p)

IInv == Typed /\ Control /\ Ownership /\ Counting /\ Spawning /\ CloneLocked
        /\ Reclaiming /\ Waiting
-----------------------------------------------------------------------------
(* Lists.                                                                   *)

\* The value at a place of the list with one place left out.
LEMMA UnlinkAt ==
    ASSUME NEW S, NEW s \in Seq(S), NEW i \in DOMAIN s
    PROVE  /\ Unlink(s, i) \in Seq(S)
           /\ Len(Unlink(s, i)) = Len(s) - 1
           /\ DOMAIN Unlink(s, i) = 1 .. Len(s) - 1
           /\ \A k \in 1 .. Len(s) - 1 :
                Unlink(s, i)[k] = IF k < i THEN s[k] ELSE s[k + 1]
<1>1. i \in 1 .. Len(s) /\ Len(s) \in Nat
  OBVIOUS
<1> DEFINE a == SubSeq(s, 1, i - 1)
           b == SubSeq(s, i + 1, Len(s))
<1>2. a \in Seq(S) /\ Len(a) = i - 1 /\ \A k \in 1 .. i - 1 : a[k] = s[k]
  BY <1>1
<1>3. b \in Seq(S) /\ Len(b) = Len(s) - i
      /\ \A k \in 1 .. Len(s) - i : b[k] = s[i + k]
  BY <1>1
<1> HIDE DEF a, b
<1>4. /\ a \o b \in Seq(S)
      /\ Len(a \o b) = Len(s) - 1
      /\ \A k \in 1 .. Len(s) - 1 : (a \o b)[k] = IF k < i THEN s[k] ELSE s[k + 1]
  BY <1>1, <1>2, <1>3
<1>5. Unlink(s, i) = a \o b
  BY DEF Unlink, a, b
<1>6. DOMAIN (a \o b) = 1 .. Len(a \o b)
  BY <1>4
<1> QED
  BY <1>4, <1>5, <1>6

\* Leaving one place out takes one element out and keeps the list repetition-free.
LEMMA UnlinkNodes ==
    ASSUME NEW S, NEW s \in Seq(S), NEW i \in DOMAIN s, Distinct(s)
    PROVE  Distinct(Unlink(s, i)) /\ Nodes(Unlink(s, i)) = Nodes(s) \ {s[i]}
<1>1. i \in 1 .. Len(s) /\ Len(s) \in Nat /\ DOMAIN s = 1 .. Len(s)
  OBVIOUS
<1> DEFINE u == Unlink(s, i)
<1>2. /\ DOMAIN u = 1 .. Len(s) - 1
      /\ \A k \in 1 .. Len(s) - 1 : u[k] = IF k < i THEN s[k] ELSE s[k + 1]
  BY UnlinkAt
<1> HIDE DEF u
<1>3. Distinct(u)
  <2>1. SUFFICES ASSUME NEW j \in 1 .. Len(s) - 1, NEW k \in 1 .. Len(s) - 1,
                        j < k, u[j] = u[k]
                 PROVE  FALSE
    BY <1>1, <1>2 DEF Distinct
  <2>2. PICK j1 \in DOMAIN s : u[j] = s[j1] /\ j1 = IF j < i THEN j ELSE j + 1
    BY <1>1, <1>2
  <2>3. PICK k1 \in DOMAIN s : u[k] = s[k1] /\ k1 = IF k < i THEN k ELSE k + 1
    BY <1>1, <1>2
  <2>4. j1 = k1
    BY <2>1, <2>2, <2>3 DEF Distinct
  <2> QED
    BY <1>1, <2>1, <2>2, <2>3, <2>4
<1>4. Nodes(u) \subseteq Nodes(s) \ {s[i]}
  BY <1>1, <1>2 DEF Nodes, Distinct
<1>5. ASSUME NEW j \in DOMAIN s, s[j] # s[i]
      PROVE  \E k \in DOMAIN u : u[k] = s[j]
  <2>1. CASE j < i
    BY <2>1, <1>1, <1>2
  <2>2. CASE j > i
    <3>1. j - 1 \in DOMAIN u /\ u[j - 1] = s[j]
      BY <2>2, <1>1, <1>2
    <3> QED
      BY <3>1
  <2> QED
    BY <1>1, <1>5, <2>1, <2>2
<1>6. Nodes(s) \ {s[i]} \subseteq Nodes(u)
  BY <1>5 DEF Nodes
<1> QED
  BY <1>3, <1>4, <1>6 DEF u

\* One element more at the front.
LEMMA PushNodes ==
    ASSUME NEW S, NEW s \in Seq(S), NEW c \in S
    PROVE  /\ <<c>> \o s \in Seq(S)
           /\ Nodes(<<c>> \o s) = Nodes(s) \cup {c}
           /\ Distinct(s) /\ c \notin Nodes(s) => Distinct(<<c>> \o s)
<1> DEFINE u == <<c>> \o s
<1>1. /\ u \in Seq(S) /\ Len(s) \in Nat
      /\ DOMAIN u = 1 .. Len(s) + 1 /\ DOMAIN s = 1 .. Len(s)
      /\ u[1] = c
      /\ \A k \in 1 .. Len(s) : u[k + 1] = s[k]
      /\ \A k \in 2 .. Len(s) + 1 : u[k] = s[k - 1]
  OBVIOUS
<1> HIDE DEF u
<1>2. Nodes(u) = Nodes(s) \cup {c}
  <2>1. Nodes(u) \subseteq Nodes(s) \cup {c}
    <3>1. ASSUME NEW k \in DOMAIN u PROVE u[k] = c \/ \E j \in DOMAIN s : u[k] = s[j]
      <4>1. CASE k = 1
        BY <4>1, <1>1
      <4>2. CASE k # 1
        <5>1. k - 1 \in DOMAIN s /\ u[k] = s[k - 1]
          BY <4>2, <1>1
        <5> QED
          BY <5>1
      <4> QED
        BY <4>1, <4>2
    <3> QED
      BY <3>1 DEF Nodes
  <2>2. Nodes(s) \subseteq Nodes(u)
    <3>1. ASSUME NEW k \in DOMAIN s PROVE k + 1 \in DOMAIN u /\ u[k + 1] = s[k]
      BY <1>1
    <3> QED
      BY <3>1 DEF Nodes
  <2>3. c \in Nodes(u)
    BY <1>1 DEF Nodes
  <2> QED
    BY <2>1, <2>2, <2>3
<1>3. ASSUME Distinct(s), c \notin Nodes(s) PROVE Distinct(u)
  <2>1. SUFFICES ASSUME NEW j \in 1 .. Len(s) + 1, NEW k \in 1 .. Len(s) + 1,
                        j < k, u[j] = u[k]
                 PROVE  FALSE
    BY <1>1 DEF Distinct
  <2>2. k - 1 \in DOMAIN s /\ u[k] = s[k - 1]
    BY <1>1, <2>1
  <2>3. CASE j = 1
    BY <1>1, <1>3, <2>1, <2>2, <2>3 DEF Nodes
  <2>4. CASE j # 1
    <3>1. j - 1 \in DOMAIN s /\ u[j] = s[j - 1]
      BY <1>1, <2>1, <2>4
    <3>2. j - 1 = k - 1
      BY <1>3, <2>1, <2>2, <3>1 DEF Distinct
    <3> QED
      BY <1>1, <2>1, <3>2
  <2> QED
    BY <2>3, <2>4
<1> QED
  BY <1>1, <1>2, <1>3 DEF u

\* One element less at the front.
LEMMA PopNodes ==
    ASSUME NEW S, NEW s \in Seq(S), s # <<>>, Distinct(s)
    PROVE  /\ Tail(s) \in Seq(S)
           /\ Head(s) \in Nodes(s)
           /\ Distinct(Tail(s))
           /\ Nodes(Tail(s)) = Nodes(s) \ {Head(s)}
<1> DEFINE u == Tail(s)
<1>1. /\ u \in Seq(S) /\ Len(s) \in Nat /\ Len(s) > 0
      /\ DOMAIN u = 1 .. Len(s) - 1 /\ DOMAIN s = 1 .. Len(s)
      /\ Head(s) = s[1]
      /\ \A k \in 1 .. Len(s) - 1 : u[k] = s[k + 1]
  OBVIOUS
<1> HIDE DEF u
<1>2. Distinct(u)
  <2>1. SUFFICES ASSUME NEW j \in 1 .. Len(s) - 1, NEW k \in 1 .. Len(s) - 1, j # k
                 PROVE  u[j] # u[k]
    BY <1>1 DEF Distinct
  <2>2. j + 1 \in DOMAIN s /\ k + 1 \in DOMAIN s /\ j + 1 # k + 1
    BY <1>1, <2>1
  <2>3. s[j + 1] # s[k + 1]
    BY <2>2 DEF Distinct
  <2> QED
    BY <1>1, <2>3
<1>3. Nodes(u) \subseteq Nodes(s) \ {s[1]}
  BY <1>1 DEF Nodes, Distinct
<1>4. ASSUME NEW j \in DOMAIN s, s[j] # s[1]
      PROVE  j - 1 \in DOMAIN u /\ u[j - 1] = s[j]
  BY <1>1, <1>4
<1>5. Nodes(s) \ {s[1]} \subseteq Nodes(u)
  BY <1>4 DEF Nodes
<1>6. s[1] \in Nodes(s)
  BY <1>1 DEF Nodes
<1> QED
  BY <1>1, <1>2, <1>3, <1>5, <1>6 DEF u

-----------------------------------------------------------------------------
(* What a position implies.                                                 *)

\* The context a thread works on exists, belongs to a process and is in the
\* state its position says.
LEMMA CurFacts ==
    ASSUME Typed, Control, Ownership,
           NEW t \in Thread, pc[t] \in AttachPC \cup DetachPC
    PROVE  /\ cur[t] \in Ctx /\ cur[t] # None
           /\ ctxProc[cur[t]] \in Proc
           /\ ctxSt[cur[t]] = StateAt(pc[t])
<1>1. cur[t] # None /\ cur[t] \in Ctx
  BY DEF Typed, Control
<1>2. ctxSt[cur[t]] = StateAt(pc[t])
  BY <1>1 DEF Ownership, Holds
<1>3. StateAt(pc[t]) # "unused"
  BY DEF StateAt
<1> QED
  BY <1>1, <1>2, <1>3 DEF Typed, Ownership, Known

\* Where embedder code goes on: in a destructor, its own code or a callback.
LEMMA Labels == \A t \in Thread : Home(t) \in {"exiting", "host", "sandbox"}
BY DEF Home

\* A signal wakes waiters of p only, and adds none.
LEMMA SignalWakes ==
    ASSUME NEW p \in Proc, Signal(p), waiters \in [Proc -> SUBSET (Thread \cup Proc)]
    PROVE  /\ waiters' \in [Proc -> SUBSET (Thread \cup Proc)]
           /\ \A q \in Proc : waiters'[q] \subseteq waiters[q]
           /\ \A q \in Proc \ {p} : waiters'[q] = waiters[q]
<1>1. CASE waiters[p] = {}
  BY <1>1 DEF Signal
<1>2. CASE waiters[p] # {}
  <2>1. PICK w \in waiters[p] : waiters' = [waiters EXCEPT ![p] = waiters[p] \ {w}]
    BY <1>2 DEF Signal
  <2> QED
    BY <2>1
<1> QED
  BY <1>1, <1>2

\* What is left to walk is a list of contexts.
LEMMA WalkTail ==
    ASSUME walk \in [Thread -> Seq(Ctx)]
    PROVE  \A t \in Thread : walk[t] # <<>> =>
              Tail(walk[t]) \in Seq(Ctx) /\ Head(walk[t]) \in Ctx
<1>1. ASSUME NEW t \in Thread, walk[t] # <<>>
      PROVE  Tail(walk[t]) \in Seq(Ctx) /\ Head(walk[t]) \in Ctx
  <2>1. walk[t] \in Seq(Ctx)
    OBVIOUS
  <2> QED
    BY <1>1, <2>1
<1> QED
  BY <1>1

\* What is left to walk stays a list of contexts when detach_ctx returns.
LEMMA WalkStep ==
    ASSUME walk \in [Thread -> Seq(Ctx)], NEW t \in Thread,
           walk' = walk \/ DetachReturn(t)
    PROVE  walk' \in [Thread -> Seq(Ctx)]
<1>1. CASE walk' = walk
  BY <1>1
<1>2. CASE walk[t] # <<>> /\ walk' = [walk EXCEPT ![t] = Tail(walk[t])]
  <2> DEFINE r == Tail(walk[t])
  <2>1. r \in Seq(Ctx)
    BY <1>2, WalkTail
  <2> HIDE DEF r
  <2>2. walk' = [walk EXCEPT ![t] = r]
    BY <1>2 DEF r
  <2> QED
    BY <2>1, <2>2
<1> QED
  BY <1>1, <1>2 DEF DetachReturn

\* Whoever destroys a process finds its list of threads empty.
LEMMA NoneListed ==
    ASSUME IInv, NEW p \in Proc
    PROVE  /\ fpc[p] = "destroy" => threads[p] = {}
           /\ \A t \in Thread : pc[t] = "destroy" /\ ctxProc[cur[t]] = p => threads[p] = {}
<1>1. threads[p] \subseteq Spawned(p)
  BY DEF IInv, Counting
<1>2. fpc[p] = "destroy" => Spawned(p) = {}
  BY DEF IInv, Reclaiming, Reclaims
<1>3. ASSUME NEW t \in Thread, pc[t] = "destroy", ctxProc[cur[t]] = p
      PROVE  Spawned(p) = {}
  <2>1. t \in Reclaimers(p)
    BY <1>3 DEF Reclaimers
  <2>2. t \notin Proc
    BY ConstAssumption DEF ConstAssumption, Thread
  <2> QED
    BY <1>3, <2>1, <2>2 DEF IInv, Reclaiming, Reclaims
<1> QED
  BY <1>1, <1>2, <1>3

\* Where the last steps of detach_ctx lead.
LEMMA DetachEffect ==
    ASSUME NEW t \in Thread, Decrement(t) \/ LastDetachDestroy(t)
    PROVE  /\ pc[t] \in {"detached", "destroy"} /\ UNCHANGED <<child, leaving, ctxProc, lkClone>>
           /\ \E l \in {"walk", "exiting", "host", "sandbox", "drain"} :
                pc' = [pc EXCEPT ![t] = l]
           /\ cur' = cur \/ cur' = [cur EXCEPT ![t] = None]
<1>1. CASE DetachReturn(t)
  BY <1>1, Labels DEF DetachReturn, Decrement, LastDetachDestroy, Goto
<1>2. CASE Decrement(t) /\ Goto(t, "drain") /\ UNCHANGED cur
  BY <1>2 DEF Decrement, Goto
<1> QED
  BY <1>1, <1>2 DEF Decrement, LastDetachDestroy

-----------------------------------------------------------------------------
(* Types.                                                                   *)

\* The initial state is well typed.
LEMMA TypedInit == ASSUME Init PROVE Typed
<1> USE DEF Init, Typed
<1>1. pc \in [Thread -> ThreadPC]
  BY DEF ThreadPC
<1>2. ctxSt \in [Ctx -> CtxState] /\ fpc \in [Proc -> FreePC]
  BY DEF FreePC, CtxState
<1>3. list \in [Thread -> Seq(Ctx)] /\ walk \in [Thread -> Seq(Ctx)]
  OBVIOUS
<1>4. /\ waiters \in [Proc -> SUBSET (Thread \cup Proc)]
      /\ threads \in [Proc -> SUBSET Runtime]
      /\ lkClone \in [Proc -> Thread \cup {None}]
      /\ ctxProc \in [Ctx -> Proc \cup {None}]
      /\ cur \in [Thread -> Ctx \cup {None}]
      /\ child \in [Thread -> Runtime \cup {None}]
      /\ rproc \in [Runtime -> Proc \cup {None}]
  OBVIOUS
<1>5. /\ pending \in [Proc -> BOOLEAN] /\ lkProc \in [Proc -> BOOLEAN]
      /\ terminating \in [Proc -> BOOLEAN] /\ cleanup \in [Thread -> BOOLEAN]
      /\ armed \in [Thread -> BOOLEAN] /\ keySet \in [Thread -> BOOLEAN]
      /\ aborted \in BOOLEAN
  OBVIOUS
<1>6. attached \in [Proc -> Int] /\ active \in [Proc -> Int]
  OBVIOUS
<1>7. present \subseteq Proc /\ nodes \subseteq Ctx /\ leaving \subseteq Thread
      /\ objs \subseteq Runtime
  OBVIOUS
<1> QED
  BY <1>1, <1>2, <1>3, <1>4, <1>5, <1>6, <1>7

\* Every step keeps the types; counters may be any integer here.
LEMMA TypedStep ==
    ASSUME Typed, Control, Ownership, Spawning, [Next]_vars PROVE Typed'
<1> USE DEF Typed, procVars, ctxVars, tlsVars, Goto
<1>1. ASSUME NEW t \in Thread, NEW p \in Proc, NEW c \in Ctx, Enter(t, p, c)
      PROVE  Typed'
  BY <1>1 DEF Enter, CountAttach, ThreadPC, CtxState
<1>2. ASSUME NEW t \in Thread, LockClone(t)
      PROVE  Typed'
  BY <1>2 DEF LockClone, ThreadPC
<1>3. ASSUME NEW t \in Thread, CloneRun(t)
      PROVE  Typed'
  BY <1>3 DEF CloneRun, ThreadPC, CtxState
<1>4. ASSUME NEW t \in Thread, CloneFail(t)
      PROVE  Typed'
  BY <1>4, CurFacts, Labels DEF CloneFail, CtxState, ThreadPC, AttachPC
<1>5. ASSUME NEW t \in Thread, AttachCtx(t)
      PROVE  Typed'
  BY <1>5, CurFacts, Labels DEF AttachCtx, SetThreadCleanup, ThreadPC, AttachPC
<1>6. ASSUME NEW t \in Thread, AttachFail(t)
      PROVE  Typed'
  BY <1>6, CurFacts, Labels DEF AttachFail, CtxState, ThreadPC, AttachPC
<1>7. ASSUME NEW t \in Thread, NEW p \in Proc, Detach(t, p)
      PROVE  Typed'
  <2>1. PICK i \in DOMAIN list[t] :
          /\ SetThreadCleanup(t, Unlink(list[t], i))
          /\ nodes' = nodes \ {list[t][i]}
          /\ cur' = [cur EXCEPT ![t] = list[t][i]]
          /\ pc' = [pc EXCEPT ![t] = "destroying"]
          /\ UNCHANGED <<procVars, ctxProc, ctxSt, walk, leaving, child, rproc,
                         objs, aborted>>
    BY <1>7 DEF Detach
  <2>2. list[t] \in Seq(Ctx)
    OBVIOUS
  <2>3. list[t][i] \in Ctx /\ Unlink(list[t], i) \in Seq(Ctx)
    BY <2>2, UnlinkAt
  <2>4. list' \in [Thread -> Seq(Ctx)] /\ cleanup' \in [Thread -> BOOLEAN]
        /\ armed' \in [Thread -> BOOLEAN] /\ keySet' \in [Thread -> BOOLEAN]
    BY <2>1, <2>3 DEF SetThreadCleanup
  <2>5. nodes' \subseteq Ctx /\ cur' \in [Thread -> Ctx \cup {None}]
        /\ pc' \in [Thread -> ThreadPC]
    BY <2>1, <2>3 DEF ThreadPC
  <2> QED
    BY <2>1, <2>4, <2>5
<1>8. ASSUME NEW t \in Thread, ThreadDestroy(t)
      PROVE  Typed'
  BY <1>8 DEF ThreadDestroy, CtxState, ThreadPC
<1>9. ASSUME NEW t \in Thread, Decrement(t)
      PROVE  Typed'
  <2>1. cur[t] \in Ctx /\ ctxProc[cur[t]] \in Proc
    BY <1>9, CurFacts DEF Decrement, DetachPC
  <2>2. attached' \in [Proc -> Int] /\ ctxSt' \in [Ctx -> CtxState]
    BY <1>9, <2>1 DEF Decrement, CtxState
  <2>3. pc' \in [Thread -> ThreadPC]
    <3>1. PICK l \in {"walk", "exiting", "host", "sandbox", "drain"} :
            pc' = [pc EXCEPT ![t] = l]
      BY <1>9, DetachEffect
    <3> QED
      BY <3>1 DEF ThreadPC
  <2>4. cur' \in [Thread -> Ctx \cup {None}] /\ nodes' \subseteq Ctx
    BY <1>9 DEF Decrement, DetachReturn
  <2>5. walk' \in [Thread -> Seq(Ctx)]
    BY <1>9, WalkStep DEF Decrement
  <2> QED
    BY <1>9, <2>2, <2>3, <2>4, <2>5 DEF Decrement
<1>10. ASSUME NEW t \in Thread, DrainWait(t)
      PROVE  Typed'
  BY <1>10 DEF DrainWait
<1>11. ASSUME NEW t \in Thread, DrainDone(t)
      PROVE  Typed'
  BY <1>11 DEF DrainDone, ThreadPC
<1>12. ASSUME NEW t \in Thread, LastDetachDestroy(t)
      PROVE  Typed'
  <2>1. cur[t] \in Ctx /\ ctxProc[cur[t]] \in Proc
    BY <1>12, CurFacts DEF LastDetachDestroy, DetachPC
  <2>2. present' \subseteq Proc /\ threads' \in [Proc -> SUBSET Runtime]
        /\ objs' \subseteq Runtime
    BY <1>12, <2>1 DEF LastDetachDestroy, ProcDestroy
  <2>3. pc' \in [Thread -> ThreadPC]
    <3>1. pc' = [pc EXCEPT ![t] = Home(t)] \/ pc' = [pc EXCEPT ![t] = "walk"]
      BY <1>12 DEF LastDetachDestroy, DetachReturn
    <3> QED
      BY <3>1, Labels DEF ThreadPC
  <2>4. cur' \in [Thread -> Ctx \cup {None}] /\ nodes' \subseteq Ctx
    BY <1>12 DEF LastDetachDestroy, DetachReturn
  <2>5. walk' \in [Thread -> Seq(Ctx)]
    BY <1>12, WalkStep DEF LastDetachDestroy
  <2> QED
    BY <1>12, <2>2, <2>3, <2>4, <2>5 DEF LastDetachDestroy
<1>13. ASSUME NEW t \in Thread, HostReturn(t)
      PROVE  Typed'
  BY <1>13 DEF HostReturn, ThreadPC
<1>14. ASSUME NEW t \in Thread, StartDestructor(t)
      PROVE  Typed'
  BY <1>14 DEF StartDestructor, ThreadPC
<1>15. ASSUME NEW t \in Thread, WalkNext(t)
      PROVE  Typed'
  BY <1>15 DEF WalkNext, ThreadPC
<1>16. ASSUME NEW t \in Thread, WalkEnd(t)
      PROVE  Typed'
  BY <1>16 DEF WalkEnd, ThreadPC
<1>17. ASSUME NEW t \in Thread, ThreadDone(t)
      PROVE  Typed'
  BY <1>17 DEF ThreadDone, ThreadPC
<1>18. ASSUME NEW t \in Thread, NEW p \in Proc, NEW r \in Runtime, SpawnAdd(t, p, r)
      PROVE  Typed'
  <2>1. threads' \in [Proc -> SUBSET Runtime] /\ active' \in [Proc -> Int]
        /\ objs' \subseteq Runtime
    BY <1>18 DEF SpawnAdd
  <2>2. rproc' \in [Runtime -> Proc \cup {None}]
        /\ child' \in [Thread -> Runtime \cup {None}]
        /\ pc' \in [Thread -> ThreadPC]
    BY <1>18 DEF SpawnAdd, ThreadPC
  <2> QED
    BY <1>18, <2>1, <2>2 DEF SpawnAdd
<1>19. ASSUME NEW t \in Thread, SpawnOk(t)
      PROVE  Typed'
  BY <1>19, Labels DEF SpawnOk, ThreadPC
<1>20. ASSUME NEW t \in Thread, SpawnFail(t)
      PROVE  Typed'
  <2> DEFINE p == rproc[child[t]]
  <2>1. child[t] \in Runtime /\ p \in Proc
    BY <1>20 DEF SpawnFail, Spawning, Control
  <2>2. threads' \in [Proc -> SUBSET Runtime] /\ active' \in [Proc -> Int]
        /\ objs' \subseteq Runtime
    BY <1>20, <2>1 DEF SpawnFail
  <2>3. waiters' \in [Proc -> SUBSET (Thread \cup Proc)]
    BY <1>20, <2>1, SignalWakes DEF SpawnFail
  <2>4. pc' \in [Thread -> ThreadPC] /\ child' \in [Thread -> Runtime \cup {None}]
    BY <1>20, Labels DEF SpawnFail, ThreadPC
  <2> QED
    BY <1>20, <2>2, <2>3, <2>4 DEF SpawnFail
<1>21. ASSUME NEW r \in Runtime, ThreadExit(r)
      PROVE  Typed'
  BY <1>21 DEF ThreadExit, ThreadPC
<1>22. ASSUME NEW r \in Runtime, ThreadPause(r)
      PROVE  Typed'
  BY <1>22 DEF ThreadPause, ThreadPC
<1>23. ASSUME NEW r \in Runtime, ThreadLeave(r)
      PROVE  Typed'
  <2>1. r \in Thread /\ rproc[r] \in Proc
    BY <1>23 DEF ThreadLeave, Control, Thread
  <2>2. threads' \in [Proc -> SUBSET Runtime] /\ active' \in [Proc -> Int]
        /\ objs' \subseteq Runtime
    BY <1>23, <2>1 DEF ThreadLeave
  <2>3. waiters' \in [Proc -> SUBSET (Thread \cup Proc)]
    BY <1>23, <2>1, SignalWakes DEF ThreadLeave
  <2>4. pc' \in [Thread -> ThreadPC] /\ leaving' \subseteq Thread
    BY <1>23, <2>1 DEF ThreadLeave, ThreadPC
  <2> QED
    BY <1>23, <2>2, <2>3, <2>4 DEF ThreadLeave
<1>24. ASSUME NEW t \in Thread, NEW p \in Proc, HostExitGroup(t, p)
      PROVE  Typed'
  BY <1>24 DEF HostExitGroup
<1>25. ASSUME NEW p \in Proc, FreeCall(p)
      PROVE  Typed'
  BY <1>25 DEF FreeCall, FreePC
<1>26. ASSUME NEW p \in Proc, FreeWait(p)
      PROVE  Typed'
  BY <1>26 DEF FreeWait
<1>27. ASSUME NEW p \in Proc, FreeDrained(p)
      PROVE  Typed'
  BY <1>27 DEF FreeDrained, FreePC
<1>28. ASSUME NEW p \in Proc, FreeDecide(p)
      PROVE  Typed'
  BY <1>28 DEF FreeDecide, FreePC
<1>29. ASSUME NEW p \in Proc, FreeDestroy(p)
      PROVE  Typed'
  <2>1. present' \subseteq Proc /\ threads' \in [Proc -> SUBSET Runtime]
        /\ objs' \subseteq Runtime /\ fpc' \in [Proc -> FreePC]
    BY <1>29 DEF FreeDestroy, ProcDestroy, FreePC
  <2> QED
    BY <1>29, <2>1 DEF FreeDestroy
<1>30. ASSUME NEW p \in Proc, SpuriousWake(p)
      PROVE  Typed'
  BY SMTT(30), <1>30 DEF SpuriousWake
<1>31. CASE UNCHANGED vars
  BY SMTT(30), <1>31 DEF vars
<1> HIDE DEF Typed, procVars, ctxVars, tlsVars, Goto
<1> QED
  BY <1>1, <1>2, <1>3, <1>4, <1>5, <1>6, <1>7, <1>8, <1>9, <1>10, <1>11, <1>12,
     <1>13, <1>14, <1>15, <1>16, <1>17, <1>18, <1>19, <1>20, <1>21, <1>22, <1>23,
     <1>24, <1>25, <1>26, <1>27, <1>28, <1>29, <1>30, <1>31
     DEF Next, AttachStep, DetachStep, ExitStep, SpawnStep, LeaveStep, FreeStep

\* Every step keeps the local data of each thread in line with its position.
LEMMA ControlStep ==
    ASSUME IInv, ~CallbackAttach, ~LateCalls, [Next]_vars
    PROVE  Control'
<1> USE DEF IInv, Typed, Control, procVars, ctxVars, tlsVars, Goto, AttachPC, DetachPC,
            Thread, HostCode, Home
<1>1. ASSUME NEW t \in Thread, NEW p \in Proc, NEW c \in Ctx, Enter(t, p, c)
      PROVE  Control'
  <2>1. pc[t] = "host" /\ t \notin Runtime /\ c # None
    BY <1>1, ConstAssumption DEF Enter, ConstAssumption
  <2> QED
    BY <1>1, <2>1 DEF Enter
<1>2. ASSUME NEW t \in Thread, LockClone(t)
      PROVE  Control'
  BY <1>2 DEF LockClone
<1>3. ASSUME NEW t \in Thread, CloneRun(t)
      PROVE  Control'
  BY <1>3 DEF CloneRun
<1>4. ASSUME NEW t \in Thread, CloneFail(t)
      PROVE  Control'
  BY <1>4 DEF CloneFail
<1>5. ASSUME NEW t \in Thread, AttachCtx(t)
      PROVE  Control'
  <2>1. t \notin Runtime /\ pc[t] = "attach"
    BY <1>5 DEF AttachCtx
  <2> QED
    BY <1>5, <2>1 DEF AttachCtx, SetThreadCleanup
<1>6. ASSUME NEW t \in Thread, AttachFail(t)
      PROVE  Control'
  BY <1>6 DEF AttachFail
<1>7. ASSUME NEW t \in Thread, NEW p \in Proc, Detach(t, p)
      PROVE  Control'
  <2>1. pc[t] = "host" /\ t \notin Runtime
    BY <1>7 DEF Detach
  <2>2. PICK i \in DOMAIN list[t] :
          /\ list' = [list EXCEPT ![t] = Unlink(list[t], i)]
          /\ keySet' = [keySet EXCEPT ![t] = @ \/ ~armed[t]]
          /\ armed' = [armed EXCEPT ![t] = TRUE]
          /\ cur' = [cur EXCEPT ![t] = list[t][i]]
          /\ pc' = [pc EXCEPT ![t] = "destroying"]
          /\ UNCHANGED <<walk, leaving, rproc, objs>>
    BY <1>7 DEF Detach, SetThreadCleanup
  <2>3. list[t] \in Seq(Ctx)
    OBVIOUS
  <2>4. list[t][i] \in Ctx /\ list[t][i] # None
    BY <2>3, ConstAssumption DEF ConstAssumption
  <2> QED
    BY <2>1, <2>2, <2>4
<1>8. ASSUME NEW t \in Thread, ThreadDestroy(t)
      PROVE  Control'
  BY <1>8 DEF ThreadDestroy
<1>9. ASSUME NEW t \in Thread, Decrement(t)
      PROVE  Control'
  <2>1. \/ /\ pc' = [pc EXCEPT ![t] = "drain"]
           /\ UNCHANGED <<cur, walk>>
        \/ /\ walk[t] = <<>> /\ UNCHANGED walk
           /\ pc' = [pc EXCEPT ![t] = Home(t)]
           /\ cur' = [cur EXCEPT ![t] = None]
        \/ /\ walk[t] # <<>> /\ walk' = [walk EXCEPT ![t] = Tail(walk[t])]
           /\ pc' = [pc EXCEPT ![t] = "walk"]
           /\ cur' = [cur EXCEPT ![t] = None]
    BY <1>9 DEF Decrement, DetachReturn
  <2>2. /\ t \notin Runtime /\ pc[t] = "detached"
        /\ UNCHANGED <<leaving, list, keySet, armed, rproc, objs>>
    BY <1>9 DEF Decrement
  <2>7. \A u \in Thread \ {t} : pc'[u] = pc[u]
    BY <2>1
  <2>3. \A u \in Thread :
          /\ pc'[u] \in AttachPC \cup DetachPC <=> cur'[u] # None
          /\ u \in leaving' => pc'[u] \in DetachPC \cup {"exiting", "walk", "done"}
          /\ u \notin leaving' => pc'[u] \notin {"exiting", "walk"} /\ walk'[u] = <<>>
          /\ walk'[u] # <<>> => pc'[u] \in DetachPC \cup {"walk"}
          /\ u \in leaving' /\ pc'[u] \in DetachPC =>
                 walk'[u] # <<>> /\ cur'[u] = Head(walk'[u])
          /\ u \in leaving' /\ pc'[u] # "exiting" => ~keySet'[u]
          /\ u \in leaving' /\ pc'[u] # "exiting" => ~keySet'[u]
    BY <2>1, <2>2, <2>7
  <2>4. \A u \in Runtime :
          /\ pc'[u] \notin AttachPC \cup DetachPC \cup {"host", "walk"}
          /\ list'[u] = <<>> /\ ~keySet'[u] /\ ~armed'[u]
          /\ pc'[u] # "none" => rproc'[u] \in Proc
    BY <2>1, <2>2, <2>7, ConstAssumption DEF ConstAssumption
  <2>5. \A u \in Runtime :
          u \notin leaving' /\ pc'[u] \notin {"none", "done"} <=> u \in objs'
    BY <2>2, <2>7, ConstAssumption DEF ConstAssumption
  <2>6. \A h \in Host : pc'[h] \notin {"none", "starting", "sandbox", "left"}
    BY <2>1, <2>2, <2>7, ConstAssumption DEF ConstAssumption
  <2> QED
    BY <2>3, <2>4, <2>5, <2>6
<1>10. ASSUME NEW t \in Thread, DrainWait(t)
      PROVE  Control'
  BY <1>10 DEF DrainWait
<1>11. ASSUME NEW t \in Thread, DrainDone(t)
      PROVE  Control'
  BY <1>11 DEF DrainDone
<1>12. ASSUME NEW t \in Thread, LastDetachDestroy(t)
      PROVE  Control'
  <2>1. \/ /\ walk[t] = <<>> /\ UNCHANGED walk
           /\ pc' = [pc EXCEPT ![t] = Home(t)]
           /\ cur' = [cur EXCEPT ![t] = None]
        \/ /\ walk[t] # <<>> /\ walk' = [walk EXCEPT ![t] = Tail(walk[t])]
           /\ pc' = [pc EXCEPT ![t] = "walk"]
           /\ cur' = [cur EXCEPT ![t] = None]
    BY <1>12 DEF LastDetachDestroy, DetachReturn
  <2>2. /\ t \notin Runtime /\ pc[t] = "destroy"
        /\ UNCHANGED <<leaving, list, keySet, armed, rproc>>
    BY <1>12 DEF LastDetachDestroy
  <2>3. objs' = objs
    <3>1. ctxProc[cur[t]] \in Proc
      BY <2>2, CurFacts
    <3>2. threads[ctxProc[cur[t]]] = {}
      BY <2>2, <3>1, NoneListed
    <3>3. objs' = objs \ threads[ctxProc[cur[t]]]
      BY <1>12 DEF LastDetachDestroy, ProcDestroy
    <3> QED
      BY <3>2, <3>3
  <2>4. t \in leaving <=> walk[t] # <<>>
    BY <2>2
  <2> HIDE DEF Typed, Control, IInv
  <2>5. CASE walk[t] = <<>>
    <3>1. Home(t) = "host" /\ t \notin leaving
      BY <2>2, <2>4, <2>5
    <3>2. pc' = [pc EXCEPT ![t] = "host"] /\ UNCHANGED walk /\ cur' = [cur EXCEPT ![t] = None]
      BY <2>1, <2>5, <3>1
    <3> HIDE DEF Home, HostCode
    <3> QED
      BY SMTT(30), <2>2, <2>3, <3>1, <3>2 DEF IInv, Typed, Control
  <2>6. CASE walk[t] # <<>>
    <3>1. /\ t \in leaving /\ pc' = [pc EXCEPT ![t] = "walk"]
          /\ cur' = [cur EXCEPT ![t] = None]
      BY <2>1, <2>4, <2>6
    <3>2. \A u \in Thread : walk'[u] = walk[u] \/ u = t
      BY <2>1, <2>4, <2>6 DEF IInv, Typed
    <3> HIDE DEF Home, HostCode
    <3> QED
      BY SMTT(30), <2>2, <2>3, <3>1, <3>2 DEF IInv, Typed, Control
  <2> QED
    BY <2>5, <2>6
<1>13. ASSUME NEW t \in Thread, HostReturn(t)
      PROVE  Control'
  BY <1>13 DEF HostReturn
<1>14. ASSUME NEW t \in Thread, StartDestructor(t)
      PROVE  Control'
  BY <1>14 DEF StartDestructor
<1>15. ASSUME NEW t \in Thread, WalkNext(t)
      PROVE  Control'
  <2>1. Head(walk[t]) \in Ctx /\ Head(walk[t]) # None
    BY <1>15, WalkTail, ConstAssumption DEF WalkNext, ConstAssumption
  <2> QED
    BY <1>15, <2>1 DEF WalkNext
<1>16. ASSUME NEW t \in Thread, WalkEnd(t)
      PROVE  Control'
  BY <1>16 DEF WalkEnd
<1>17. ASSUME NEW t \in Thread, ThreadDone(t)
      PROVE  Control'
  BY <1>17 DEF ThreadDone
<1>18. ASSUME NEW t \in Thread, NEW p \in Proc, NEW r \in Runtime, SpawnAdd(t, p, r)
      PROVE  Control'
  <2>1. /\ pc[t] \in {"host", "sandbox"} /\ r # t
        /\ pc' = [pc EXCEPT ![t] = "spawn", ![r] = "starting"]
        /\ objs' = objs \cup {r} /\ rproc' = [rproc EXCEPT ![r] = p]
        /\ UNCHANGED <<leaving, list, keySet, armed, walk, cur>>
    BY <1>18 DEF SpawnAdd, InSandbox
  <2>2. pc[r] = "none" /\ r \notin leaving
    BY <1>18 DEF SpawnAdd
  <2>3. \A u \in Thread :
          /\ pc'[u] \in AttachPC \cup DetachPC <=> cur'[u] # None
          /\ u \in leaving' => pc'[u] \in DetachPC \cup {"exiting", "walk", "done"}
          /\ u \notin leaving' => pc'[u] \notin {"exiting", "walk"} /\ walk'[u] = <<>>
          /\ walk'[u] # <<>> => pc'[u] \in DetachPC \cup {"walk"}
          /\ u \in leaving' /\ pc'[u] \in DetachPC =>
                 walk'[u] # <<>> /\ cur'[u] = Head(walk'[u])
          /\ u \in leaving' /\ pc'[u] # "exiting" => ~keySet'[u]
          /\ u \in leaving' /\ pc'[u] # "exiting" => ~keySet'[u]
    BY <2>1, <2>2
  <2>4. \A u \in Runtime :
          /\ pc'[u] \notin AttachPC \cup DetachPC \cup {"host", "walk"}
          /\ list'[u] = <<>> /\ ~keySet'[u] /\ ~armed'[u]
          /\ pc'[u] # "none" => rproc'[u] \in Proc
    BY <2>1, <2>2, ConstAssumption DEF ConstAssumption
  <2>5. \A u \in Runtime :
          u \notin leaving' /\ pc'[u] \notin {"none", "done"} <=> u \in objs'
    BY <2>1, <2>2, ConstAssumption DEF ConstAssumption
  <2>6. \A h \in Host : pc'[h] \notin {"none", "starting", "sandbox", "left"}
    BY <2>1, <2>2, ConstAssumption DEF ConstAssumption
  <2> QED
    BY <2>3, <2>4, <2>5, <2>6
<1>19. ASSUME NEW t \in Thread, SpawnOk(t)
      PROVE  Control'
  <2>1. /\ pc[t] = "spawn" /\ child[t] \in Runtime /\ pc[child[t]] = "starting"
        /\ child[t] # t
    BY <1>19 DEF SpawnOk, Spawning
  <2>2. /\ pc' = [pc EXCEPT ![t] = Home(t), ![child[t]] = "sandbox"]
        /\ UNCHANGED <<leaving, list, keySet, armed, walk, cur, rproc, objs>>
    BY <1>19 DEF SpawnOk
  <2>3. \A u \in Thread :
          /\ pc'[u] \in AttachPC \cup DetachPC <=> cur'[u] # None
          /\ u \in leaving' => pc'[u] \in DetachPC \cup {"exiting", "walk", "done"}
          /\ u \notin leaving' => pc'[u] \notin {"exiting", "walk"} /\ walk'[u] = <<>>
          /\ walk'[u] # <<>> => pc'[u] \in DetachPC \cup {"walk"}
          /\ u \in leaving' /\ pc'[u] \in DetachPC =>
                 walk'[u] # <<>> /\ cur'[u] = Head(walk'[u])
          /\ u \in leaving' /\ pc'[u] # "exiting" => ~keySet'[u]
          /\ u \in leaving' /\ pc'[u] # "exiting" => ~keySet'[u]
    BY <2>1, <2>2
  <2>4. \A u \in Runtime :
          /\ pc'[u] \notin AttachPC \cup DetachPC \cup {"host", "walk"}
          /\ list'[u] = <<>> /\ ~keySet'[u] /\ ~armed'[u]
          /\ pc'[u] # "none" => rproc'[u] \in Proc
    BY <2>1, <2>2, ConstAssumption DEF ConstAssumption
  <2>5. \A u \in Runtime :
          u \notin leaving' /\ pc'[u] \notin {"none", "done"} <=> u \in objs'
    BY <2>1, <2>2, ConstAssumption DEF ConstAssumption
  <2>6. \A h \in Host : pc'[h] \notin {"none", "starting", "sandbox", "left"}
    BY <2>1, <2>2, ConstAssumption DEF ConstAssumption
  <2> QED
    BY <2>3, <2>4, <2>5, <2>6
<1>20. ASSUME NEW t \in Thread, SpawnFail(t)
      PROVE  Control'
  <2>1. /\ pc[t] = "spawn" /\ child[t] \in Runtime /\ pc[child[t]] = "starting"
        /\ child[t] # t
    BY <1>20 DEF SpawnFail, Spawning
  <2>2. /\ pc' = [pc EXCEPT ![t] = Home(t), ![child[t]] = "done"]
        /\ objs' = objs \ {child[t]}
        /\ UNCHANGED <<leaving, list, keySet, armed, walk, cur, rproc>>
    BY <1>20 DEF SpawnFail
  <2>3. \A u \in Thread :
          /\ pc'[u] \in AttachPC \cup DetachPC <=> cur'[u] # None
          /\ u \in leaving' => pc'[u] \in DetachPC \cup {"exiting", "walk", "done"}
          /\ u \notin leaving' => pc'[u] \notin {"exiting", "walk"} /\ walk'[u] = <<>>
          /\ walk'[u] # <<>> => pc'[u] \in DetachPC \cup {"walk"}
          /\ u \in leaving' /\ pc'[u] \in DetachPC =>
                 walk'[u] # <<>> /\ cur'[u] = Head(walk'[u])
          /\ u \in leaving' /\ pc'[u] # "exiting" => ~keySet'[u]
          /\ u \in leaving' /\ pc'[u] # "exiting" => ~keySet'[u]
    BY <2>1, <2>2
  <2>4. \A u \in Runtime :
          /\ pc'[u] \notin AttachPC \cup DetachPC \cup {"host", "walk"}
          /\ list'[u] = <<>> /\ ~keySet'[u] /\ ~armed'[u]
          /\ pc'[u] # "none" => rproc'[u] \in Proc
    BY <2>1, <2>2, ConstAssumption DEF ConstAssumption
  <2>5. \A u \in Runtime :
          u \notin leaving' /\ pc'[u] \notin {"none", "done"} <=> u \in objs'
    BY <2>1, <2>2, ConstAssumption DEF ConstAssumption
  <2>6. \A h \in Host : pc'[h] \notin {"none", "starting", "sandbox", "left"}
    BY <2>1, <2>2, ConstAssumption DEF ConstAssumption
  <2> QED
    BY <2>3, <2>4, <2>5, <2>6
<1>21. ASSUME NEW r \in Runtime, ThreadExit(r)
      PROVE  Control'
  BY <1>21 DEF ThreadExit
<1>22. ASSUME NEW r \in Runtime, ThreadPause(r)
      PROVE  Control'
  BY <1>22 DEF ThreadPause
<1>23. ASSUME NEW r \in Runtime, ThreadLeave(r)
      PROVE  Control'
  BY <1>23 DEF ThreadLeave
<1>24. ASSUME NEW t \in Thread, NEW p \in Proc, HostExitGroup(t, p)
      PROVE  Control'
  BY <1>24 DEF HostExitGroup
<1>25. ASSUME NEW p \in Proc, FreeCall(p)
      PROVE  Control'
  BY <1>25 DEF FreeCall
<1>26. ASSUME NEW p \in Proc, FreeWait(p)
      PROVE  Control'
  BY <1>26 DEF FreeWait
<1>27. ASSUME NEW p \in Proc, FreeDrained(p)
      PROVE  Control'
  BY <1>27 DEF FreeDrained
<1>28. ASSUME NEW p \in Proc, FreeDecide(p)
      PROVE  Control'
  BY <1>28 DEF FreeDecide
<1>29. ASSUME NEW p \in Proc, FreeDestroy(p)
      PROVE  Control'
  <2>1. objs' = objs
    BY <1>29, NoneListed DEF FreeDestroy, ProcDestroy
  <2> QED
    BY <1>29, <2>1 DEF FreeDestroy
<1>30. ASSUME NEW p \in Proc, SpuriousWake(p)
      PROVE  Control'
  BY <1>30 DEF SpuriousWake
<1>31. CASE UNCHANGED vars
  BY <1>31 DEF vars
<1> QED
  BY <1>1, <1>2, <1>3, <1>4, <1>5, <1>6, <1>7, <1>8, <1>9, <1>10, <1>11,
     <1>12, <1>13, <1>14, <1>15, <1>16, <1>17, <1>18, <1>19, <1>20, <1>21,
     <1>22, <1>23, <1>24, <1>25, <1>26, <1>27, <1>28, <1>29, <1>30, <1>31
     DEF Next, AttachStep, DetachStep, ExitStep, SpawnStep, LeaveStep, FreeStep

-----------------------------------------------------------------------------
(* Contexts and their owners.                                               *)

\* Contexts are made of something else than None, and lists hold contexts.
LEMMA OwnedCtx ==
    ASSUME Typed, NEW t \in Thread
    PROVE  Owned(t) \subseteq Ctx /\ Nodes(list[t]) \subseteq Ctx
           /\ Nodes(walk[t]) \subseteq Ctx /\ None \notin Ctx
<1>1. list[t] \in Seq(Ctx) /\ walk[t] \in Seq(Ctx)
  BY DEF Typed
<1>2. Nodes(list[t]) \subseteq Ctx /\ Nodes(walk[t]) \subseteq Ctx
  BY <1>1 DEF Nodes
<1>3. cur[t] \in Ctx \cup {None}
  BY DEF Typed
<1> QED
  BY <1>2, <1>3, ConstAssumption DEF Owned, ConstAssumption

\* A step of t that touches only contexts t owns, or takes up unused ones,
\* leaves everybody else's contexts alone.
LEMMA OwnFrame ==
    ASSUME Typed, Ownership, NEW t \in Thread, NEW F \in SUBSET Ctx,
           \A c \in F : ctxSt[c] = "unused",
           \A u \in Thread \ {t} :
               /\ cur'[u] = cur[u] /\ list'[u] = list[u] /\ walk'[u] = walk[u]
               /\ keySet'[u] = keySet[u] /\ pc'[u] = pc[u]
               /\ u \in leaving' <=> u \in leaving,
           \A c \in Ctx \ (Owned(t) \cup F) :
               ctxSt'[c] = ctxSt[c] /\ (c \in nodes => c \in nodes'),
           Owned(t)' \subseteq Owned(t) \cup F,
           Known', Holds(t)'
    PROVE  Ownership'
<1>1. ASSUME NEW u \in Thread, u # t
      PROVE  /\ Owned(u)' = Owned(u)
             /\ Owned(u) \cap (Owned(t) \cup F) = {}
             /\ Owned(u) \subseteq Ctx
  <2>1. Owned(u)' = Owned(u)
    BY <1>1 DEF Owned
  <2>2. Owned(u) \cap Owned(t) = {}
    BY <1>1 DEF Ownership, Apart
  <2>3. Owned(u) \cap F = {}
    BY DEF Ownership, Holds
  <2> QED
    BY <2>1, <2>2, <2>3, OwnedCtx
<1>2. Apart'
  <2>1. SUFFICES ASSUME NEW u \in Thread, NEW v \in Thread, u # v
                 PROVE  Owned(u)' \cap Owned(v)' = {}
    BY DEF Apart
  <2>2. CASE u = t
    BY <1>1, <2>1, <2>2
  <2>3. CASE v = t
    BY <1>1, <2>1, <2>3
  <2>4. CASE u # t /\ v # t
    BY <1>1, <2>1, <2>4 DEF Ownership, Apart
  <2> QED
    BY <2>2, <2>3, <2>4
<1>3. ASSUME NEW u \in Thread, u # t PROVE Holds(u)'
  <2>1. \A c \in Owned(u) : ctxSt'[c] = ctxSt[c] /\ (c \in nodes => c \in nodes')
    BY <1>1, <1>3
  <2>2. Holds(u)
    BY DEF Ownership
  <2>3. Nodes(list[u]) \subseteq Owned(u) /\ Nodes(walk[u]) \subseteq Owned(u)
    BY <2>2 DEF Owned, Holds
  <2>4. cur[u] # None => cur[u] \in Owned(u)
    BY DEF Owned
  <2>5. /\ cur'[u] = cur[u] /\ list'[u] = list[u] /\ walk'[u] = walk[u]
        /\ keySet'[u] = keySet[u] /\ pc'[u] = pc[u]
        /\ u \in leaving' <=> u \in leaving
    BY <1>3
  <2>6. Owned(u)' = Owned(u)
    BY <1>1, <1>3
  <2> QED
    BY <2>1, <2>2, <2>3, <2>4, <2>5, <2>6 DEF Holds
<1> QED
  BY <1>2, <1>3 DEF Ownership

\* A step that only moves threads without a context, or within a state.
LEMMA OwnSame ==
    ASSUME Ownership, UNCHANGED <<ctxProc, ctxSt, nodes, cur, list, walk>>,
           leaving \subseteq leaving',
           \A t \in Thread : keySet'[t] => keySet[t],
           \A t \in Thread : cur[t] # None => StateAt(pc'[t]) = StateAt(pc[t])
    PROVE  Ownership'
<1>1. Known' /\ Apart'
  BY DEF Ownership, Known, Apart, Owned
<1>2. ASSUME NEW t \in Thread PROVE Holds(t)'
  <2>1. Holds(t)
    BY DEF Ownership
  <2>2. Owned(t)' = Owned(t)
    BY DEF Owned
  <2> QED
    BY <2>1, <2>2 DEF Holds
<1> QED
  BY <1>1, <1>2 DEF Ownership

\* What the contexts of t have to do with its lists and its position.
LEMMA OwnStates ==
    ASSUME Ownership, NEW t \in Thread
    PROVE  /\ Holds(t) /\ Known
           /\ Nodes(list[t]) \subseteq Owned(t) /\ Nodes(walk[t]) \subseteq Owned(t)
           /\ cur[t] # None => cur[t] \in Owned(t)
BY DEF Ownership, Holds, Owned

\* The attachment state at each position, spelled out.
LEMMA States ==
    /\ StateAt("clone") = "creating" /\ StateAt("creating") = "creating"
    /\ StateAt("attach") = "live" /\ StateAt("destroying") = "live"
    /\ StateAt("detached") = "freed" /\ StateAt("drain") = "released"
    /\ StateAt("destroy") = "released"
BY DEF StateAt

\* The frame of a step that takes up no context.
LEMMA OwnFrame0 ==
    ASSUME Typed, Ownership, NEW t \in Thread,
           \A u \in Thread \ {t} :
               /\ cur'[u] = cur[u] /\ list'[u] = list[u] /\ walk'[u] = walk[u]
               /\ keySet'[u] = keySet[u] /\ pc'[u] = pc[u]
               /\ u \in leaving' <=> u \in leaving,
           \A c \in Ctx \ Owned(t) : ctxSt'[c] = ctxSt[c] /\ (c \in nodes => c \in nodes'),
           Owned(t)' \subseteq Owned(t),
           Known', Holds(t)'
    PROVE  Ownership'
<1>1. {} \in SUBSET Ctx
  OBVIOUS
<1> QED
  BY <1>1, OwnFrame

\* An unused context is not being worked on.
LEMMA UnusedFree ==
    ASSUME Ownership, Control, NEW t \in Thread, NEW c \in Ctx, ctxSt[c] = "unused"
    PROVE  pc[t] \in AttachPC \cup DetachPC => cur[t] # c
BY DEF Ownership, Holds, Owned, Control

\* Every step keeps contexts with one thread, in the state its position says:
\* lfi_linux_clone_cb, detach_ctx and the TLS destructor hand each context on.
LEMMA OwnershipStep ==
    ASSUME IInv, ~CallbackAttach, ~LateCalls, [Next]_vars
    PROVE  Ownership'
<1> USE DEF IInv, Typed, Control, Ownership, procVars, ctxVars, tlsVars, Goto,
            AttachPC, DetachPC, Thread, HostCode
<1>1. ASSUME NEW t \in Thread, NEW p \in Proc, NEW c \in Ctx, Enter(t, p, c)
      PROVE  Ownership'
  <2>1. /\ pc[t] = "host" /\ cur[t] = None /\ ctxSt[c] = "unused" /\ t \notin leaving
        /\ ctxSt' = [ctxSt EXCEPT ![c] = "creating"]
        /\ ctxProc' = [ctxProc EXCEPT ![c] = p]
        /\ cur' = [cur EXCEPT ![t] = c] /\ pc' = [pc EXCEPT ![t] = "clone"]
        /\ UNCHANGED <<list, walk, leaving, keySet, nodes>>
    BY <1>1, ConstAssumption DEF Enter, ConstAssumption
  <2>0. Holds(t) /\ Known /\ Ownership /\ Typed
    BY OwnStates
  <2> HIDE DEF Ownership, Control
  <2>2. Known'
    BY <2>0, <2>1, ConstAssumption DEF Known, ConstAssumption
  <2>3. /\ c # None /\ c \notin Owned(t)
        /\ Owned(t)' = Owned(t) \cup {c}
    BY <2>0, <2>1, OwnedCtx DEF Holds, Owned
  <2>4. Holds(t)'
    <3>1. Holds(t) /\ Nodes(list[t]) \subseteq Owned(t) /\ Nodes(walk[t]) \subseteq Owned(t)
      BY <2>0 DEF Holds, Owned
    <3>2. cur'[t] = c /\ pc'[t] = "clone" /\ list'[t] = list[t] /\ walk'[t] = walk[t]
      BY <2>1
    <3>3. ctxSt'[c] = "creating" /\ \A d \in Owned(t) : ctxSt'[d] = ctxSt[d]
      BY <2>1, <2>3
    <3>4. /\ \A d \in Nodes(list[t]) : ctxSt'[d] = "live" /\ d \in nodes'
          /\ \A d \in Nodes(walk[t]) : d # c => ctxSt'[d] = "live"
          /\ \A d \in Owned(t) \cup {c} : ctxSt'[d] # "unused"
          /\ c \notin Nodes(list[t]) /\ Distinct(list[t]) /\ Distinct(walk[t])
          /\ Nodes(walk[t]) \subseteq Nodes(list[t])
      BY <2>1, <2>3, <3>1, <3>3 DEF Holds
    <3> QED
      BY <2>1, <2>3, <3>1, <3>2, <3>3, <3>4, States DEF Holds
  <2> DEFINE F == {c}
  <2>5. F \in SUBSET Ctx /\ \A d \in F : ctxSt[d] = "unused"
    BY <2>1
  <2>6. /\ \A d \in Ctx \ (Owned(t) \cup F) : ctxSt'[d] = ctxSt[d]
        /\ \A u \in Thread \ {t} : cur'[u] = cur[u] /\ pc'[u] = pc[u]
        /\ Owned(t)' \subseteq Owned(t) \cup F
    BY <2>1, <2>3
  <2> HIDE DEF F
  <2> QED
    BY <2>0, <2>1, <2>2, <2>4, <2>5, <2>6, OwnFrame
<1>2. ASSUME NEW t \in Thread, LockClone(t)
      PROVE  Ownership'
  <2>1. StateAt("clone") = StateAt("creating") /\ StateAt("drain") = StateAt("destroy")
    BY DEF StateAt
  <2> QED
    BY <1>2, <2>1, OwnSame DEF LockClone
<1>3. ASSUME NEW t \in Thread, CloneRun(t)
      PROVE  Ownership'
  <2>1. /\ pc[t] = "creating" /\ cur[t] \in Ctx /\ cur[t] # None /\ t \notin leaving
        /\ ctxSt[cur[t]] # "unused"
    BY <1>3, CurFacts DEF CloneRun, StateAt
  <2>2. /\ ctxSt' = [ctxSt EXCEPT ![cur[t]] = "live"]
        /\ pc' = [pc EXCEPT ![t] = "attach"]
        /\ UNCHANGED <<ctxProc, cur, list, walk, leaving, keySet, nodes>>
    BY <1>3 DEF CloneRun
  <2>0. Holds(t) /\ Known /\ Ownership /\ Typed
    BY OwnStates
  <2> HIDE DEF Ownership, Control
  <2>3. Known' /\ Owned(t)' = Owned(t) /\ cur[t] \in Owned(t)
    BY <2>0, <2>1, <2>2 DEF Known, Owned
  <2>4. Holds(t)'
    BY <2>0, <2>1, <2>2, <2>3, States DEF Holds
  <2> QED
    BY <2>0, <2>1, <2>2, <2>3, <2>4, OwnFrame0
<1>4. ASSUME NEW t \in Thread, CloneFail(t)
      PROVE  Ownership'
  <2>1. /\ cur[t] \in Ctx /\ cur[t] # None /\ t \notin leaving
        /\ ctxSt[cur[t]] # "unused" /\ walk[t] = <<>>
    BY <1>4, CurFacts DEF CloneFail, StateAt
  <2>2. /\ ctxSt' = [ctxSt EXCEPT ![cur[t]] = "released"]
        /\ pc' = [pc EXCEPT ![t] = Home(t)]
        /\ cur' = [cur EXCEPT ![t] = None]
        /\ UNCHANGED <<ctxProc, list, walk, leaving, keySet, nodes>>
    BY <1>4 DEF CloneFail
  <2>0. Holds(t) /\ Known /\ Ownership /\ Typed
    BY OwnStates
  <2> HIDE DEF Ownership, Control
  <2>3. Known' /\ Owned(t)' = Nodes(list[t]) /\ Owned(t)' \subseteq Owned(t)
        /\ cur[t] \in Owned(t)
    BY <2>0, <2>1, <2>2 DEF Known, Owned
  <2>4. Holds(t)'
    <3>1. Nodes(list[t]) \subseteq Ctx /\ None \notin Ctx
      BY <2>0, OwnedCtx
    <3> QED
      BY <2>0, <2>1, <2>2, <2>3, <3>1 DEF Holds
  <2> QED
    BY <2>0, <2>1, <2>2, <2>3, <2>4, OwnFrame0
<1>5. ASSUME NEW t \in Thread, AttachCtx(t)
      PROVE  Ownership'
  <2>1. /\ pc[t] = "attach" /\ cur[t] \in Ctx /\ cur[t] # None /\ t \notin leaving
        /\ ctxSt[cur[t]] = "live" /\ walk[t] = <<>>
    BY <1>5, CurFacts DEF AttachCtx, StateAt
  <2>2. /\ list' = [list EXCEPT ![t] = <<cur[t]>> \o list[t]]
        /\ nodes' = nodes \cup {cur[t]}
        /\ pc' = [pc EXCEPT ![t] = Home(t)]
        /\ cur' = [cur EXCEPT ![t] = None]
        /\ UNCHANGED <<ctxProc, ctxSt, walk, leaving>>
        /\ \A u \in Thread \ {t} : keySet'[u] = keySet[u]
    BY <1>5 DEF AttachCtx, SetThreadCleanup
  <2>3. /\ Nodes(list'[t]) = Nodes(list[t]) \cup {cur[t]}
        /\ Distinct(list'[t])
    <3>1. list[t] \in Seq(Ctx) /\ list'[t] = <<cur[t]>> \o list[t]
      BY <2>2
    <3>2. Distinct(list[t]) /\ cur[t] \notin Nodes(list[t])
      BY <2>1 DEF Holds
    <3> QED
      BY <2>1, <3>1, <3>2, PushNodes
  <2>0. Holds(t) /\ Known /\ Ownership /\ Typed
    BY OwnStates
  <2>4. /\ cur'[t] = None /\ Known' /\ walk'[t] = <<>> /\ nodes' = nodes \cup {cur[t]}
        /\ t \notin leaving'
    BY <2>0, <2>1, <2>2 DEF Known
  <2> HIDE DEF Ownership, Control, Typed, IInv
  <2>5. Owned(t)' = Owned(t) /\ cur[t] \in Owned(t)
    BY <2>1, <2>3, <2>4 DEF Owned
  <2>7. Holds(t)'
    <3>1. /\ \A c \in Owned(t) : ctxSt[c] # "unused"
          /\ \A c \in Nodes(list[t]) : ctxSt[c] = "live" /\ c \in nodes
      BY <2>0, <2>1 DEF Holds
    <3>2. Nodes(<<>>) = {} /\ Distinct(<<>>)
      BY DEF Nodes, Distinct
    <3> QED
      BY <2>1, <2>2, <2>3, <2>4, <2>5, <3>1, <3>2, OwnedCtx, <2>0 DEF Holds
  <2>6. \A u \in Thread \ {t} : list'[u] = list[u] /\ cur'[u] = cur[u] /\ pc'[u] = pc[u]
    BY <2>0, <2>2 DEF Typed
  <2> QED
    BY <2>0, <2>2, <2>4, <2>5, <2>6, <2>7, OwnFrame0
<1>6. ASSUME NEW t \in Thread, AttachFail(t)
      PROVE  Ownership'
  <2>1. /\ cur[t] \in Ctx /\ cur[t] # None /\ t \notin leaving
        /\ ctxSt[cur[t]] # "unused" /\ walk[t] = <<>>
    BY <1>6, CurFacts DEF AttachFail, StateAt
  <2>2. /\ ctxSt' = [ctxSt EXCEPT ![cur[t]] = "released"]
        /\ pc' = [pc EXCEPT ![t] = Home(t)]
        /\ cur' = [cur EXCEPT ![t] = None]
        /\ UNCHANGED <<ctxProc, list, walk, leaving, keySet, nodes>>
    BY <1>6 DEF AttachFail
  <2>0. Holds(t) /\ Known /\ Ownership /\ Typed
    BY OwnStates
  <2> HIDE DEF Ownership, Control
  <2>3. Known' /\ Owned(t)' = Nodes(list[t]) /\ Owned(t)' \subseteq Owned(t)
        /\ cur[t] \in Owned(t)
    BY <2>0, <2>1, <2>2 DEF Known, Owned
  <2>4. Holds(t)'
    <3>1. Nodes(list[t]) \subseteq Ctx /\ None \notin Ctx
      BY <2>0, OwnedCtx
    <3> QED
      BY <2>0, <2>1, <2>2, <2>3, <3>1 DEF Holds
  <2> QED
    BY <2>0, <2>1, <2>2, <2>3, <2>4, OwnFrame0
<1>7. ASSUME NEW t \in Thread, NEW p \in Proc, Detach(t, p)
      PROVE  Ownership'
  <2>1. pc[t] = "host" /\ cur[t] = None /\ t \notin leaving /\ walk[t] = <<>>
    BY <1>7 DEF Detach
  <2>2. PICK i \in DOMAIN list[t] :
          /\ list' = [list EXCEPT ![t] = Unlink(list[t], i)]
          /\ nodes' = nodes \ {list[t][i]}
          /\ cur' = [cur EXCEPT ![t] = list[t][i]]
          /\ pc' = [pc EXCEPT ![t] = "destroying"]
          /\ UNCHANGED <<ctxProc, ctxSt, walk, leaving>>
          /\ \A u \in Thread \ {t} : keySet'[u] = keySet[u]
    BY <1>7 DEF Detach, SetThreadCleanup
  <2> DEFINE c == list[t][i]
  <2>3. /\ Nodes(list'[t]) = Nodes(list[t]) \ {c}
        /\ Distinct(list'[t])
        /\ c \in Nodes(list[t])
    <3>1. list[t] \in Seq(Ctx) /\ list'[t] = Unlink(list[t], i)
      BY <2>2
    <3>2. Distinct(list[t]) /\ c \in Nodes(list[t])
      BY <2>2 DEF Holds, Nodes
    <3> QED
      BY <3>1, <3>2, UnlinkNodes
  <2> HIDE DEF c
  <2>0. Holds(t) /\ Known /\ Ownership /\ Typed
    BY OwnStates
  <2> HIDE DEF Ownership, Control
  <2>4. cur'[t] = c /\ nodes' = nodes \ {c}
    BY <2>0, <2>2 DEF c
  <2>5. Owned(t)' = Owned(t) /\ c \in Owned(t) /\ c # None
    BY <2>0, <2>1, <2>3, <2>4, OwnedCtx DEF Owned
  <2>6. Known' /\ Holds(t)'
    <3>1. Known' /\ pc'[t] = "destroying" /\ walk'[t] = <<>>
      BY <2>0, <2>1, <2>2 DEF Known
    <3>2. Nodes(<<>>) = {} /\ Distinct(<<>>)
      BY DEF Nodes, Distinct
    <3>3. ctxSt[c] = "live" /\ \A d \in Nodes(list'[t]) : ctxSt[d] = "live" /\ d \in nodes'
      BY <2>0, <2>1, <2>3, <2>4 DEF Holds
    <3> QED
      BY <2>0, <2>1, <2>2, <2>3, <2>4, <2>5, <3>1, <3>2, <3>3, States DEF Holds
  <2>7. \A u \in Thread \ {t} : list'[u] = list[u] /\ cur'[u] = cur[u] /\ pc'[u] = pc[u]
    BY <2>0, <2>2
  <2> QED
    BY <2>0, <2>2, <2>4, <2>5, <2>6, <2>7, OwnFrame0
<1>8. ASSUME NEW t \in Thread, ThreadDestroy(t)
      PROVE  Ownership'
  <2>1. /\ pc[t] = "destroying" /\ cur[t] \in Ctx /\ cur[t] # None
        /\ ctxSt[cur[t]] # "unused"
        /\ t \in leaving => ~keySet[t]
    BY <1>8, CurFacts DEF ThreadDestroy, StateAt
  <2>2. /\ ctxSt' = [ctxSt EXCEPT ![cur[t]] = "freed"]
        /\ pc' = [pc EXCEPT ![t] = "detached"]
        /\ UNCHANGED <<ctxProc, cur, list, walk, leaving, keySet, nodes>>
    BY <1>8 DEF ThreadDestroy
  <2>0. Holds(t) /\ Known /\ Ownership /\ Typed
    BY OwnStates
  <2> HIDE DEF Ownership, Control
  <2>3. Known' /\ Owned(t)' = Owned(t) /\ cur[t] \in Owned(t)
    BY <2>0, <2>1, <2>2 DEF Known, Owned
  <2>4. Holds(t)'
    BY <2>0, <2>1, <2>2, <2>3, States DEF Holds
  <2> QED
    BY <2>0, <2>1, <2>2, <2>3, <2>4, OwnFrame0
<1>9. ASSUME NEW t \in Thread, Decrement(t)
      PROVE  Ownership'
  <2>1. /\ cur[t] \in Ctx /\ cur[t] # None
        /\ ctxSt[cur[t]] # "unused"
        /\ t \in leaving => ~keySet[t]
        /\ t \in leaving <=> walk[t] # <<>>
        /\ t \in leaving => cur[t] = Head(walk[t])
    BY <1>9, CurFacts DEF Decrement, StateAt
  <2>2. /\ ctxSt'[cur[t]] = "released"
        /\ \A c \in Ctx \ {cur[t]} : ctxSt'[c] = ctxSt[c]
        /\ UNCHANGED <<ctxProc, list, leaving, keySet>>
    BY <1>9, <2>1, CurFacts DEF Decrement, StateAt
  <2>3. \/ pc' = [pc EXCEPT ![t] = "drain"] /\ UNCHANGED <<cur, walk, nodes>>
        \/ /\ walk[t] = <<>> /\ UNCHANGED <<walk, nodes>>
           /\ pc' = [pc EXCEPT ![t] = Home(t)]
           /\ cur' = [cur EXCEPT ![t] = None]
        \/ /\ walk[t] # <<>> /\ walk' = [walk EXCEPT ![t] = Tail(walk[t])]
           /\ nodes' = nodes \ {cur[t]}
           /\ pc' = [pc EXCEPT ![t] = "walk"]
           /\ cur' = [cur EXCEPT ![t] = None]
    BY <1>9 DEF Decrement, DetachReturn
  <2>4. Known' /\ cur[t] \in Owned(t)
    BY <2>1, <2>2 DEF Known, Owned
  <2>5. /\ walk[t] \in Seq(Ctx) /\ list[t] \in Seq(Ctx)
        /\ Nodes(list[t]) \subseteq Ctx /\ None \notin Ctx
    BY OwnedCtx
  <2>6. walk[t] # <<>> =>
          /\ Distinct(Tail(walk[t])) /\ Head(walk[t]) \in Nodes(walk[t])
          /\ Nodes(Tail(walk[t])) = Nodes(walk[t]) \ {Head(walk[t])}
    BY <2>5, PopNodes DEF Holds
  <2>0. Holds(t) /\ Known /\ Ownership /\ Typed
    BY OwnStates
  <2> HIDE DEF Ownership, Control
  <2>7. Owned(t)' \subseteq Owned(t)
    BY <2>0, <2>2, <2>3 DEF Owned
  <2>8. Holds(t)'
    <3>1. Holds(t)
      BY <2>0
    <3>2. CASE pc' = [pc EXCEPT ![t] = "drain"] /\ UNCHANGED <<cur, walk, nodes>>
      <4>1. pc'[t] = "drain" /\ cur'[t] = cur[t] /\ walk'[t] = walk[t]
        BY <3>2
      <4> QED
        BY <2>1, <2>2, <2>4, <2>5, <3>1, <3>2, <4>1, States DEF Holds, Owned
    <3>3. CASE walk[t] = <<>> /\ UNCHANGED <<walk, nodes>> /\ cur' = [cur EXCEPT ![t] = None]
      BY <2>0, <2>1, <2>2, <2>5, <2>7, <3>1, <3>3 DEF Holds, Owned
    <3>4. CASE /\ walk[t] # <<>> /\ walk' = [walk EXCEPT ![t] = Tail(walk[t])]
               /\ nodes' = nodes \ {cur[t]} /\ cur' = [cur EXCEPT ![t] = None]
      <4>1. walk'[t] = Tail(walk[t]) /\ cur'[t] = None
        BY <2>0, <3>4
      <4> QED
        BY <2>0, <2>1, <2>2, <2>5, <2>6, <2>7, <3>1, <3>4, <4>1 DEF Holds, Owned
    <3> QED
      BY <2>0, <2>3, <3>2, <3>3, <3>4
  <2>9. \A u \in Thread \ {t} : walk'[u] = walk[u] /\ cur'[u] = cur[u] /\ pc'[u] = pc[u]
    BY <2>0, <2>3
  <2>10. \A c \in Ctx \ Owned(t) : ctxSt'[c] = ctxSt[c] /\ (c \in nodes => c \in nodes')
    BY <2>0, <2>2, <2>3, <2>4
  <2> QED
    BY <2>0, <2>2, <2>4, <2>7, <2>8, <2>9, <2>10, OwnFrame0
<1>10. ASSUME NEW t \in Thread, DrainWait(t)
      PROVE  Ownership'
  BY <1>10, OwnSame DEF DrainWait
<1>11. ASSUME NEW t \in Thread, DrainDone(t)
      PROVE  Ownership'
  <2>1. StateAt("clone") = StateAt("creating") /\ StateAt("drain") = StateAt("destroy")
    BY DEF StateAt
  <2> QED
    BY <1>11, <2>1, OwnSame DEF DrainDone
<1>12. ASSUME NEW t \in Thread, LastDetachDestroy(t)
      PROVE  Ownership'
  <2>1. /\ cur[t] \in Ctx /\ cur[t] # None
        /\ ctxSt[cur[t]] # "unused"
        /\ t \in leaving => ~keySet[t]
        /\ t \in leaving <=> walk[t] # <<>>
        /\ t \in leaving => cur[t] = Head(walk[t])
    BY <1>12, CurFacts DEF LastDetachDestroy, StateAt
  <2>2. /\ ctxSt'[cur[t]] = "released"
        /\ \A c \in Ctx \ {cur[t]} : ctxSt'[c] = ctxSt[c]
        /\ UNCHANGED <<ctxProc, list, leaving, keySet>>
    BY <1>12, <2>1, CurFacts DEF LastDetachDestroy, StateAt
  <2>3. \/ /\ walk[t] = <<>> /\ UNCHANGED <<walk, nodes>>
           /\ pc' = [pc EXCEPT ![t] = Home(t)]
           /\ cur' = [cur EXCEPT ![t] = None]
        \/ /\ walk[t] # <<>> /\ walk' = [walk EXCEPT ![t] = Tail(walk[t])]
           /\ nodes' = nodes \ {cur[t]}
           /\ pc' = [pc EXCEPT ![t] = "walk"]
           /\ cur' = [cur EXCEPT ![t] = None]
    BY <1>12 DEF LastDetachDestroy, DetachReturn
  <2>4. Known' /\ cur[t] \in Owned(t)
    BY <2>1, <2>2 DEF Known, Owned
  <2>5. /\ walk[t] \in Seq(Ctx) /\ list[t] \in Seq(Ctx)
        /\ Nodes(list[t]) \subseteq Ctx /\ None \notin Ctx
    BY OwnedCtx
  <2>6. walk[t] # <<>> =>
          /\ Distinct(Tail(walk[t])) /\ Head(walk[t]) \in Nodes(walk[t])
          /\ Nodes(Tail(walk[t])) = Nodes(walk[t]) \ {Head(walk[t])}
    BY <2>5, PopNodes DEF Holds
  <2>0. Holds(t) /\ Known /\ Ownership /\ Typed
    BY OwnStates
  <2> HIDE DEF Ownership, Control
  <2>7. Owned(t)' \subseteq Owned(t)
    BY <2>0, <2>2, <2>3 DEF Owned
  <2>8. Holds(t)'
    <3>1. Holds(t)
      BY <2>0
    <3>3. CASE walk[t] = <<>> /\ UNCHANGED <<walk, nodes>> /\ cur' = [cur EXCEPT ![t] = None]
      BY <2>0, <2>1, <2>2, <2>5, <2>7, <3>1, <3>3 DEF Holds, Owned
    <3>4. CASE /\ walk[t] # <<>> /\ walk' = [walk EXCEPT ![t] = Tail(walk[t])]
               /\ nodes' = nodes \ {cur[t]} /\ cur' = [cur EXCEPT ![t] = None]
      <4>1. walk'[t] = Tail(walk[t]) /\ cur'[t] = None
        BY <2>0, <3>4
      <4> QED
        BY <2>0, <2>1, <2>2, <2>5, <2>6, <2>7, <3>1, <3>4, <4>1 DEF Holds, Owned
    <3> QED
      BY <2>0, <2>3, <3>3, <3>4
  <2>9. \A u \in Thread \ {t} : walk'[u] = walk[u] /\ cur'[u] = cur[u] /\ pc'[u] = pc[u]
    BY <2>0, <2>3
  <2>10. \A c \in Ctx \ Owned(t) : ctxSt'[c] = ctxSt[c] /\ (c \in nodes => c \in nodes')
    BY <2>0, <2>2, <2>3, <2>4
  <2> QED
    BY <2>0, <2>2, <2>4, <2>7, <2>8, <2>9, <2>10, OwnFrame0
<1>13. ASSUME NEW t \in Thread, HostReturn(t)
      PROVE  Ownership'
  BY <1>13, OwnSame DEF HostReturn
<1>14. ASSUME NEW t \in Thread, StartDestructor(t)
      PROVE  Ownership'
  <2>1. /\ pc[t] = "exiting" /\ keySet[t] /\ t \in leaving /\ cur[t] = None
    BY <1>14 DEF StartDestructor
  <2>2. /\ keySet' = [keySet EXCEPT ![t] = FALSE]
        /\ walk' = [walk EXCEPT ![t] = IF cleanup[t] THEN list[t] ELSE <<>>]
        /\ pc' = [pc EXCEPT ![t] = "walk"]
        /\ UNCHANGED <<ctxProc, ctxSt, nodes, cur, list, leaving>>
    BY <1>14 DEF StartDestructor
  <2>0. Holds(t) /\ Known /\ Ownership /\ Typed
    BY OwnStates
  <2> HIDE DEF Ownership, Control
  <2>3. Known' /\ Owned(t)' = Owned(t)
    BY <2>0, <2>2 DEF Known, Owned
  <2>4. Holds(t)'
    <3>1. Distinct(<<>>) /\ Nodes(<<>>) = {}
      BY <2>0 DEF Distinct, Nodes
    <3>2. walk'[t] = list[t] \/ walk'[t] = <<>>
      BY <2>0, <2>2
    <3> QED
      BY <2>0, <2>1, <2>2, <2>3, <3>1, <3>2 DEF Holds
  <2>5. \A u \in Thread \ {t} : walk'[u] = walk[u] /\ keySet'[u] = keySet[u] /\ pc'[u] = pc[u]
    BY <2>0, <2>2
  <2> QED
    BY <2>0, <2>2, <2>3, <2>4, <2>5, OwnFrame0
<1>15. ASSUME NEW t \in Thread, WalkNext(t)
      PROVE  Ownership'
  <2>1. /\ pc[t] = "walk" /\ walk[t] # <<>> /\ t \in leaving /\ cur[t] = None
    BY <1>15 DEF WalkNext
  <2>2. /\ cur' = [cur EXCEPT ![t] = Head(walk[t])]
        /\ pc' = [pc EXCEPT ![t] = "destroying"]
        /\ UNCHANGED <<ctxProc, ctxSt, nodes, list, walk, leaving, keySet>>
    BY <1>15 DEF WalkNext
  <2>3. walk[t] \in Seq(Ctx) /\ Nodes(walk[t]) \subseteq Ctx /\ None \notin Ctx
    BY OwnedCtx
  <2>4. Head(walk[t]) \in Nodes(walk[t])
    BY <2>1, <2>3, PopNodes DEF Holds
  <2>0. Holds(t) /\ Known /\ Ownership /\ Typed
    BY OwnStates
  <2> HIDE DEF Ownership, Control
  <2>5. Known' /\ Owned(t)' \subseteq Owned(t)
    BY <2>0, <2>1, <2>2, <2>4 DEF Known, Owned, Holds
  <2>6. Holds(t)'
    BY <2>0, <2>1, <2>2, <2>3, <2>4, <2>5, States DEF Holds, Owned
  <2> QED
    BY <2>0, <2>2, <2>5, <2>6, OwnFrame0
<1>16. ASSUME NEW t \in Thread, WalkEnd(t)
      PROVE  Ownership'
  BY <1>16, OwnSame DEF WalkEnd
<1>17. ASSUME NEW t \in Thread, ThreadDone(t)
      PROVE  Ownership'
  BY <1>17, OwnSame DEF ThreadDone
<1>18. ASSUME NEW t \in Thread, NEW p \in Proc, NEW r \in Runtime, SpawnAdd(t, p, r)
      PROVE  Ownership'
  <2>1. cur[t] = None /\ cur[r] = None
    BY <1>18 DEF SpawnAdd, InSandbox
  <2> QED
    BY <1>18, <2>1, OwnSame DEF SpawnAdd
<1>19. ASSUME NEW t \in Thread, SpawnOk(t)
      PROVE  Ownership'
  <2>1. cur[t] = None /\ child[t] \in Thread /\ cur[child[t]] = None
    BY <1>19 DEF SpawnOk, Spawning
  <2> QED
    BY <1>19, <2>1, OwnSame DEF SpawnOk
<1>20. ASSUME NEW t \in Thread, SpawnFail(t)
      PROVE  Ownership'
  <2>1. cur[t] = None /\ child[t] \in Thread /\ cur[child[t]] = None
    BY <1>20 DEF SpawnFail, Spawning
  <2> QED
    BY <1>20, <2>1, OwnSame DEF SpawnFail
<1>21. ASSUME NEW r \in Runtime, ThreadExit(r)
      PROVE  Ownership'
  BY <1>21, OwnSame DEF ThreadExit
<1>22. ASSUME NEW r \in Runtime, ThreadPause(r)
      PROVE  Ownership'
  BY <1>22, OwnSame DEF ThreadPause
<1>23. ASSUME NEW r \in Runtime, ThreadLeave(r)
      PROVE  Ownership'
  BY <1>23, OwnSame DEF ThreadLeave
<1>24. ASSUME NEW t \in Thread, NEW p \in Proc, HostExitGroup(t, p)
      PROVE  Ownership'
  BY <1>24, OwnSame DEF HostExitGroup
<1>25. ASSUME NEW p \in Proc, FreeCall(p)
      PROVE  Ownership'
  BY <1>25, OwnSame DEF FreeCall
<1>26. ASSUME NEW p \in Proc, FreeWait(p)
      PROVE  Ownership'
  BY <1>26, OwnSame DEF FreeWait
<1>27. ASSUME NEW p \in Proc, FreeDrained(p)
      PROVE  Ownership'
  BY <1>27, OwnSame DEF FreeDrained
<1>28. ASSUME NEW p \in Proc, FreeDecide(p)
      PROVE  Ownership'
  BY <1>28, OwnSame DEF FreeDecide
<1>29. ASSUME NEW p \in Proc, FreeDestroy(p)
      PROVE  Ownership'
  BY <1>29, OwnSame DEF FreeDestroy
<1>30. ASSUME NEW p \in Proc, SpuriousWake(p)
      PROVE  Ownership'
  BY <1>30, OwnSame DEF SpuriousWake
<1>31. CASE UNCHANGED vars
  BY <1>31, OwnSame DEF vars
<1> QED
  BY <1>1, <1>2, <1>3, <1>4, <1>5, <1>6, <1>7, <1>8, <1>9, <1>10, <1>11,
     <1>12, <1>13, <1>14, <1>15, <1>16, <1>17, <1>18, <1>19, <1>20, <1>21,
     <1>22, <1>23, <1>24, <1>25, <1>26, <1>27, <1>28, <1>29, <1>30, <1>31
     DEF Next, AttachStep, DetachStep, ExitStep, SpawnStep, LeaveStep, FreeStep

\* Every step keeps a thread that is being spawned with its one spawner.
LEMMA SpawningStep ==
    ASSUME IInv, ~CallbackAttach, ~LateCalls, [Next]_vars
    PROVE  Spawning'
<1> USE DEF IInv, Typed, Control, Spawning, procVars, ctxVars, tlsVars, Goto, AttachPC, DetachPC,
            Thread, HostCode
<1>1. ASSUME NEW t \in Thread, NEW p \in Proc, NEW c \in Ctx, Enter(t, p, c)
      PROVE  Spawning'
  BY <1>1 DEF Enter
<1>2. ASSUME NEW t \in Thread, LockClone(t)
      PROVE  Spawning'
  BY <1>2 DEF LockClone
<1>3. ASSUME NEW t \in Thread, CloneRun(t)
      PROVE  Spawning'
  BY <1>3 DEF CloneRun
<1>4. ASSUME NEW t \in Thread, CloneFail(t)
      PROVE  Spawning'
  BY <1>4, Labels DEF CloneFail
<1>5. ASSUME NEW t \in Thread, AttachCtx(t)
      PROVE  Spawning'
  BY <1>5, Labels DEF AttachCtx
<1>6. ASSUME NEW t \in Thread, AttachFail(t)
      PROVE  Spawning'
  BY <1>6, Labels DEF AttachFail
<1>7. ASSUME NEW t \in Thread, NEW p \in Proc, Detach(t, p)
      PROVE  Spawning'
  BY <1>7 DEF Detach
<1>8. ASSUME NEW t \in Thread, ThreadDestroy(t)
      PROVE  Spawning'
  BY <1>8 DEF ThreadDestroy
<1>9. ASSUME NEW t \in Thread, Decrement(t)
      PROVE  Spawning'
  <2>1. PICK l \in {"walk", "exiting", "host", "sandbox", "drain"} : pc' = [pc EXCEPT ![t] = l]
    BY <1>9, DetachEffect
  <2>2. pc[t] \in {"detached", "destroy"} /\ UNCHANGED <<child, ctxProc, lkClone>>
        /\ (cur' = cur \/ cur' = [cur EXCEPT ![t] = None])
    BY <1>9, DetachEffect
  <2> QED
    BY <2>1, <2>2
<1>10. ASSUME NEW t \in Thread, DrainWait(t)
      PROVE  Spawning'
  BY <1>10 DEF DrainWait
<1>11. ASSUME NEW t \in Thread, DrainDone(t)
      PROVE  Spawning'
  BY <1>11 DEF DrainDone
<1>12. ASSUME NEW t \in Thread, LastDetachDestroy(t)
      PROVE  Spawning'
  <2>1. PICK l \in {"walk", "exiting", "host", "sandbox", "drain"} : pc' = [pc EXCEPT ![t] = l]
    BY <1>12, DetachEffect
  <2>2. pc[t] \in {"detached", "destroy"} /\ UNCHANGED <<child, ctxProc, lkClone>>
        /\ (cur' = cur \/ cur' = [cur EXCEPT ![t] = None])
    BY <1>12, DetachEffect
  <2> QED
    BY <2>1, <2>2
<1>13. ASSUME NEW t \in Thread, HostReturn(t)
      PROVE  Spawning'
  BY <1>13 DEF HostReturn
<1>14. ASSUME NEW t \in Thread, StartDestructor(t)
      PROVE  Spawning'
  BY <1>14 DEF StartDestructor
<1>15. ASSUME NEW t \in Thread, WalkNext(t)
      PROVE  Spawning'
  BY <1>15 DEF WalkNext
<1>16. ASSUME NEW t \in Thread, WalkEnd(t)
      PROVE  Spawning'
  BY <1>16 DEF WalkEnd
<1>17. ASSUME NEW t \in Thread, ThreadDone(t)
      PROVE  Spawning'
  BY <1>17 DEF ThreadDone
<1>18. ASSUME NEW t \in Thread, NEW p \in Proc, NEW r \in Runtime, SpawnAdd(t, p, r)
      PROVE  Spawning'
  <2>1. /\ pc[t] \in {"host", "sandbox"} /\ r # t /\ pc[r] = "none"
        /\ pc' = [pc EXCEPT ![t] = "spawn", ![r] = "starting"]
        /\ child' = [child EXCEPT ![t] = r]
    BY <1>18 DEF SpawnAdd, InSandbox
  <2>2. \A u \in Thread \ {t, r} : pc'[u] = pc[u] /\ child'[u] = child[u]
    BY <2>1
  <2>3. pc'[t] = "spawn" /\ child'[t] = r /\ pc'[r] = "starting"
    BY <2>1
  <2> QED
    BY <2>1, <2>2, <2>3
<1>19. ASSUME NEW t \in Thread, SpawnOk(t)
      PROVE  Spawning'
  BY <1>19, Labels DEF SpawnOk
<1>20. ASSUME NEW t \in Thread, SpawnFail(t)
      PROVE  Spawning'
  BY <1>20, Labels DEF SpawnFail
<1>21. ASSUME NEW r \in Runtime, ThreadExit(r)
      PROVE  Spawning'
  BY <1>21 DEF ThreadExit
<1>22. ASSUME NEW r \in Runtime, ThreadPause(r)
      PROVE  Spawning'
  BY <1>22 DEF ThreadPause
<1>23. ASSUME NEW r \in Runtime, ThreadLeave(r)
      PROVE  Spawning'
  BY <1>23 DEF ThreadLeave
<1>24. ASSUME NEW t \in Thread, NEW p \in Proc, HostExitGroup(t, p)
      PROVE  Spawning'
  BY <1>24 DEF HostExitGroup
<1>25. ASSUME NEW p \in Proc, FreeCall(p)
      PROVE  Spawning'
  BY <1>25 DEF FreeCall
<1>26. ASSUME NEW p \in Proc, FreeWait(p)
      PROVE  Spawning'
  BY <1>26 DEF FreeWait
<1>27. ASSUME NEW p \in Proc, FreeDrained(p)
      PROVE  Spawning'
  BY <1>27 DEF FreeDrained
<1>28. ASSUME NEW p \in Proc, FreeDecide(p)
      PROVE  Spawning'
  BY <1>28 DEF FreeDecide
<1>29. ASSUME NEW p \in Proc, FreeDestroy(p)
      PROVE  Spawning'
  BY <1>29 DEF FreeDestroy
<1>30. ASSUME NEW p \in Proc, SpuriousWake(p)
      PROVE  Spawning'
  BY <1>30 DEF SpuriousWake
<1>31. CASE UNCHANGED vars
  BY <1>31 DEF vars
<1> QED
  BY <1>1, <1>2, <1>3, <1>4, <1>5, <1>6, <1>7, <1>8, <1>9, <1>10, <1>11,
     <1>12, <1>13, <1>14, <1>15, <1>16, <1>17, <1>18, <1>19, <1>20, <1>21,
     <1>22, <1>23, <1>24, <1>25, <1>26, <1>27, <1>28, <1>29, <1>30, <1>31
     DEF Next, AttachStep, DetachStep, ExitStep, SpawnStep, LeaveStep, FreeStep

\* lk_clone is held wherever clone_ctx is in use, after every step.
LEMMA CloneLockedStep ==
    ASSUME IInv, ~CallbackAttach, ~LateCalls, [Next]_vars
    PROVE  CloneLocked'
<1> USE DEF IInv, Typed, Control, CloneLocked, procVars, ctxVars, tlsVars, Goto, AttachPC, DetachPC,
            Thread, HostCode
<1>1. ASSUME NEW t \in Thread, NEW p \in Proc, NEW c \in Ctx, Enter(t, p, c)
      PROVE  CloneLocked'
  <2>1. \A u \in Thread : pc[u] = "creating" => cur[u] # c /\ cur[u] \in Ctx
    BY <1>1, UnusedFree, CurFacts DEF Enter
  <2> QED
    BY <1>1, <2>1 DEF Enter
<1>2. ASSUME NEW t \in Thread, LockClone(t)
      PROVE  CloneLocked'
  <2>1. cur[t] \in Ctx /\ ctxProc[cur[t]] \in Proc
    BY <1>2, CurFacts DEF LockClone
  <2> QED
    BY <1>2, <2>1, ConstAssumption DEF LockClone, CloneFree, ConstAssumption
<1>3. ASSUME NEW t \in Thread, CloneRun(t)
      PROVE  CloneLocked'
  BY <1>3 DEF CloneRun
<1>4. ASSUME NEW t \in Thread, CloneFail(t)
      PROVE  CloneLocked'
  <2>1. cur[t] \in Ctx /\ ctxProc[cur[t]] \in Proc
    BY <1>4, CurFacts DEF CloneFail
  <2>2. /\ pc[t] = "creating" /\ UNCHANGED ctxProc
        /\ lkClone' = [lkClone EXCEPT ![ctxProc[cur[t]]] = None]
        /\ cur' = [cur EXCEPT ![t] = None]
        /\ pc' = [pc EXCEPT ![t] = Home(t)]
    BY <1>4 DEF CloneFail
  <2>3. \A u \in Thread : pc'[u] = "creating" => u # t /\ pc[u] = "creating" /\ cur'[u] = cur[u]
    BY <2>2, Labels
  <2> QED
    BY <2>1, <2>2, <2>3
<1>5. ASSUME NEW t \in Thread, AttachCtx(t)
      PROVE  CloneLocked'
  BY <1>5, Labels DEF AttachCtx
<1>6. ASSUME NEW t \in Thread, AttachFail(t)
      PROVE  CloneLocked'
  BY <1>6, Labels DEF AttachFail
<1>7. ASSUME NEW t \in Thread, NEW p \in Proc, Detach(t, p)
      PROVE  CloneLocked'
  BY <1>7 DEF Detach
<1>8. ASSUME NEW t \in Thread, ThreadDestroy(t)
      PROVE  CloneLocked'
  BY <1>8 DEF ThreadDestroy
<1>9. ASSUME NEW t \in Thread, Decrement(t)
      PROVE  CloneLocked'
  <2>1. PICK l \in {"walk", "exiting", "host", "sandbox", "drain"} : pc' = [pc EXCEPT ![t] = l]
    BY <1>9, DetachEffect
  <2>2. pc[t] \in {"detached", "destroy"} /\ UNCHANGED <<child, ctxProc, lkClone>>
        /\ (cur' = cur \/ cur' = [cur EXCEPT ![t] = None])
    BY <1>9, DetachEffect
  <2> QED
    BY <2>1, <2>2
<1>10. ASSUME NEW t \in Thread, DrainWait(t)
      PROVE  CloneLocked'
  BY <1>10 DEF DrainWait
<1>11. ASSUME NEW t \in Thread, DrainDone(t)
      PROVE  CloneLocked'
  BY <1>11 DEF DrainDone
<1>12. ASSUME NEW t \in Thread, LastDetachDestroy(t)
      PROVE  CloneLocked'
  <2>1. PICK l \in {"walk", "exiting", "host", "sandbox", "drain"} : pc' = [pc EXCEPT ![t] = l]
    BY <1>12, DetachEffect
  <2>2. pc[t] \in {"detached", "destroy"} /\ UNCHANGED <<child, ctxProc, lkClone>>
        /\ (cur' = cur \/ cur' = [cur EXCEPT ![t] = None])
    BY <1>12, DetachEffect
  <2> QED
    BY <2>1, <2>2
<1>13. ASSUME NEW t \in Thread, HostReturn(t)
      PROVE  CloneLocked'
  BY <1>13 DEF HostReturn
<1>14. ASSUME NEW t \in Thread, StartDestructor(t)
      PROVE  CloneLocked'
  BY <1>14 DEF StartDestructor
<1>15. ASSUME NEW t \in Thread, WalkNext(t)
      PROVE  CloneLocked'
  BY <1>15 DEF WalkNext
<1>16. ASSUME NEW t \in Thread, WalkEnd(t)
      PROVE  CloneLocked'
  BY <1>16 DEF WalkEnd
<1>17. ASSUME NEW t \in Thread, ThreadDone(t)
      PROVE  CloneLocked'
  BY <1>17 DEF ThreadDone
<1>18. ASSUME NEW t \in Thread, NEW p \in Proc, NEW r \in Runtime, SpawnAdd(t, p, r)
      PROVE  CloneLocked'
  BY <1>18 DEF SpawnAdd
<1>19. ASSUME NEW t \in Thread, SpawnOk(t)
      PROVE  CloneLocked'
  BY <1>19, Labels DEF SpawnOk, Spawning
<1>20. ASSUME NEW t \in Thread, SpawnFail(t)
      PROVE  CloneLocked'
  BY <1>20, Labels DEF SpawnFail, Spawning
<1>21. ASSUME NEW r \in Runtime, ThreadExit(r)
      PROVE  CloneLocked'
  BY <1>21 DEF ThreadExit
<1>22. ASSUME NEW r \in Runtime, ThreadPause(r)
      PROVE  CloneLocked'
  BY <1>22 DEF ThreadPause
<1>23. ASSUME NEW r \in Runtime, ThreadLeave(r)
      PROVE  CloneLocked'
  BY <1>23 DEF ThreadLeave
<1>24. ASSUME NEW t \in Thread, NEW p \in Proc, HostExitGroup(t, p)
      PROVE  CloneLocked'
  BY <1>24 DEF HostExitGroup
<1>25. ASSUME NEW p \in Proc, FreeCall(p)
      PROVE  CloneLocked'
  BY <1>25 DEF FreeCall
<1>26. ASSUME NEW p \in Proc, FreeWait(p)
      PROVE  CloneLocked'
  BY <1>26 DEF FreeWait
<1>27. ASSUME NEW p \in Proc, FreeDrained(p)
      PROVE  CloneLocked'
  BY <1>27 DEF FreeDrained
<1>28. ASSUME NEW p \in Proc, FreeDecide(p)
      PROVE  CloneLocked'
  BY <1>28 DEF FreeDecide
<1>29. ASSUME NEW p \in Proc, FreeDestroy(p)
      PROVE  CloneLocked'
  BY <1>29 DEF FreeDestroy
<1>30. ASSUME NEW p \in Proc, SpuriousWake(p)
      PROVE  CloneLocked'
  BY <1>30 DEF SpuriousWake
<1>31. CASE UNCHANGED vars
  BY <1>31 DEF vars
<1> QED
  BY <1>1, <1>2, <1>3, <1>4, <1>5, <1>6, <1>7, <1>8, <1>9, <1>10, <1>11,
     <1>12, <1>13, <1>14, <1>15, <1>16, <1>17, <1>18, <1>19, <1>20, <1>21,
     <1>22, <1>23, <1>24, <1>25, <1>26, <1>27, <1>28, <1>29, <1>30, <1>31
     DEF Next, AttachStep, DetachStep, ExitStep, SpawnStep, LeaveStep, FreeStep

-----------------------------------------------------------------------------
(* The users of a process.                                                  *)

\* The states attached_threads counts.
Counted == {"creating", "live", "freed"}

\* A process has finitely many users.
LEMMA UsersFinite ==
    ASSUME Typed, NEW p \in Proc
    PROVE  IsFiniteSet(Holding(p)) /\ IsFiniteSet(Spawned(p))
<1>1. Holding(p) \subseteq Ctx /\ Spawned(p) \subseteq Runtime
  BY DEF Holding, Spawned, Typed
<1> QED
  BY <1>1, ConstAssumption, FS_Subset DEF ConstAssumption

\* Steps that neither open nor close an attachment, or a runtime thread.
LEMMA HoldingKept ==
    ASSUME ctxProc' = ctxProc,
           \A c \in Ctx : ctxSt'[c] \in Counted <=> ctxSt[c] \in Counted
    PROVE  \A p \in Proc : Holding(p)' = Holding(p)
BY DEF Holding, Counted

\* Steps that neither allocate nor free an LFILinuxThread.
LEMMA SpawnedKept ==
    ASSUME rproc' = rproc, objs' = objs
    PROVE  \A p \in Proc : Spawned(p)' = Spawned(p)
BY DEF Spawned

\* The clone callback opens an attachment to p.
LEMMA HoldingOpened ==
    ASSUME Typed, Known, NEW p \in Proc, NEW c \in Ctx, ctxSt[c] = "unused",
           ctxSt' = [ctxSt EXCEPT ![c] = "creating"],
           ctxProc' = [ctxProc EXCEPT ![c] = p]
    PROVE  /\ c \notin Holding(p) /\ Holding(p)' = Holding(p) \cup {c}
           /\ \A q \in Proc \ {p} : Holding(q)' = Holding(q)
BY DEF Holding, Known, Typed

\* An attachment is given up.
LEMMA HoldingClosed ==
    ASSUME Typed, NEW c \in Ctx, NEW p \in Proc, ctxSt[c] \in Counted, ctxProc[c] = p,
           ctxSt' = [ctxSt EXCEPT ![c] = "released"], ctxProc' = ctxProc
    PROVE  /\ c \in Holding(p) /\ Holding(p)' = Holding(p) \ {c}
           /\ \A q \in Proc \ {p} : Holding(q)' = Holding(q)
BY DEF Holding, Counted, Typed

\* spawn allocates a thread of p; the end of a thread frees it.
LEMMA SpawnedOpened ==
    ASSUME Typed, NEW p \in Proc, NEW r \in Runtime, r \notin objs,
           objs' = objs \cup {r}, rproc' = [rproc EXCEPT ![r] = p]
    PROVE  /\ r \notin Spawned(p) /\ Spawned(p)' = Spawned(p) \cup {r}
           /\ \A q \in Proc \ {p} : Spawned(q)' = Spawned(q)
BY DEF Spawned, Typed

\* The end of a thread takes it from the users of its process.
LEMMA SpawnedClosed ==
    ASSUME Typed, NEW r \in Runtime, NEW p \in Proc, r \in objs, rproc[r] = p,
           objs' = objs \ {r}, rproc' = rproc
    PROVE  /\ r \in Spawned(p) /\ Spawned(p)' = Spawned(p) \ {r}
           /\ \A q \in Proc \ {p} : Spawned(q)' = Spawned(q)
BY DEF Spawned, Typed

\* One more element.
LEMMA CardAdd ==
    ASSUME NEW S, NEW x, IsFiniteSet(S), x \notin S
    PROVE  Cardinality(S \cup {x}) = Cardinality(S) + 1
BY FS_AddElement

\* One element less.
LEMMA CardDrop ==
    ASSUME NEW S, NEW x, IsFiniteSet(S), x \in S
    PROVE  Cardinality(S \ {x}) = Cardinality(S) - 1
BY FS_RemoveElement

\* The thread a failed or an ended spawn leaves behind is a counted one.
LEMMA SpawnObj ==
    ASSUME Control, Spawning, NEW t \in Thread, pc[t] = "spawn"
    PROVE  child[t] \in objs /\ child[t] \in Runtime /\ rproc[child[t]] \in Proc
BY DEF Control, Spawning, Thread, DetachPC

\* Steps that leave the users of every process and the counters alone.
LEMMA CountKept ==
    ASSUME Counting, UNCHANGED <<ctxProc, rproc, objs, attached, active>>,
           \A c \in Ctx : ctxSt'[c] \in Counted <=> ctxSt[c] \in Counted,
           \A p \in Proc : threads'[p] \subseteq threads[p]
    PROVE  Counting'
<1>1. ASSUME NEW p \in Proc
      PROVE  Holding(p)' = Holding(p) /\ Spawned(p)' = Spawned(p)
  BY HoldingKept, SpawnedKept
<1> QED
  BY <1>1 DEF Counting

\* attached_threads and active_threads count the attachments and the runtime
\* threads of every process, after every step.
LEMMA CountingStep ==
    ASSUME IInv, ~CallbackAttach, ~LateCalls, [Next]_vars
    PROVE  Counting'
<1> USE DEF IInv, Typed, Control, procVars, ctxVars, tlsVars, Goto, AttachPC, DetachPC, Thread,
            HostCode
<1>1. ASSUME NEW t \in Thread, NEW p \in Proc, NEW c \in Ctx, Enter(t, p, c)
      PROVE  Counting'
  <2>1. /\ Holding(p)' = Holding(p) \cup {c} /\ c \notin Holding(p)
        /\ \A q \in Proc \ {p} : Holding(q)' = Holding(q)
    BY <1>1, HoldingOpened DEF Enter, Ownership
  <2>2. Cardinality(Holding(p)') = Cardinality(Holding(p)) + 1
    BY <2>1, UsersFinite, CardAdd
  <2>3. \A q \in Proc : Spawned(q)' = Spawned(q)
    BY <1>1, SpawnedKept DEF Enter
  <2> HIDE DEF Typed, Control
  <2>4. /\ attached' = [attached EXCEPT ![p] = @ + 1] /\ UNCHANGED <<active, threads>>
    BY <1>1 DEF Enter, CountAttach
  <2>5. attached \in [Proc -> Int]
    BY DEF Typed
  <2> QED
    BY <2>1, <2>2, <2>3, <2>4, <2>5 DEF Counting
<1>2. ASSUME NEW t \in Thread, LockClone(t)
      PROVE  Counting'
  BY <1>2, CountKept DEF LockClone
<1>3. ASSUME NEW t \in Thread, CloneRun(t)
      PROVE  Counting'
  <2>1. cur[t] \in Ctx /\ ctxSt[cur[t]] = "creating"
    BY <1>3, CurFacts, States DEF CloneRun
  <2> QED
    BY <1>3, <2>1, CountKept DEF CloneRun, Counted
<1>4. ASSUME NEW t \in Thread, CloneFail(t)
      PROVE  Counting'
  <2>1. PICK c \in Ctx, p \in Proc : c = cur[t] /\ p = ctxProc[c] /\ ctxSt[c] \in Counted
    BY <1>4, CurFacts, States DEF CloneFail, Counted
  <2>2. /\ attached' = [attached EXCEPT ![p] = @ - 1] /\ UNCHANGED <<active, threads>>
        /\ ctxSt' = [ctxSt EXCEPT ![c] = "released"] /\ UNCHANGED <<ctxProc, rproc, objs>>
    BY <1>4, <2>1 DEF CloneFail
  <2>3. attached \in [Proc -> Int]
    OBVIOUS
  <2>4. /\ c \in Holding(p) /\ Holding(p)' = Holding(p) \ {c}
        /\ \A q \in Proc \ {p} : Holding(q)' = Holding(q)
    BY <2>1, <2>2, HoldingClosed
  <2>5. Cardinality(Holding(p)') = Cardinality(Holding(p)) - 1
    BY <2>1, <2>4, UsersFinite, CardDrop
  <2>6. \A q \in Proc : Spawned(q)' = Spawned(q)
    BY <2>2, SpawnedKept
  <2> HIDE DEF Typed, Control
  <2> QED
    <3>1. SUFFICES ASSUME NEW q \in Proc
                   PROVE  /\ attached'[q] = Cardinality(Holding(q)')
                          /\ active'[q] = Cardinality(Spawned(q)')
                          /\ threads'[q] \subseteq Spawned(q)'
      BY DEF Counting
    <3>2. CASE q = p
      BY <3>2, <2>1, <2>2, <2>3, <2>4, <2>5, <2>6 DEF Counting
    <3>3. CASE q # p
      BY <3>3, <2>1, <2>2, <2>3, <2>4, <2>5, <2>6 DEF Counting
    <3> QED
      BY <3>2, <3>3
<1>5. ASSUME NEW t \in Thread, AttachCtx(t)
      PROVE  Counting'
  BY <1>5, CountKept DEF AttachCtx
<1>6. ASSUME NEW t \in Thread, AttachFail(t)
      PROVE  Counting'
  <2>1. PICK c \in Ctx, p \in Proc : c = cur[t] /\ p = ctxProc[c] /\ ctxSt[c] \in Counted
    BY <1>6, CurFacts, States DEF AttachFail, Counted
  <2>2. /\ attached' = [attached EXCEPT ![p] = @ - 1] /\ UNCHANGED <<active, threads>>
        /\ ctxSt' = [ctxSt EXCEPT ![c] = "released"] /\ UNCHANGED <<ctxProc, rproc, objs>>
    BY <1>6, <2>1 DEF AttachFail
  <2>3. attached \in [Proc -> Int]
    OBVIOUS
  <2>4. /\ c \in Holding(p) /\ Holding(p)' = Holding(p) \ {c}
        /\ \A q \in Proc \ {p} : Holding(q)' = Holding(q)
    BY <2>1, <2>2, HoldingClosed
  <2>5. Cardinality(Holding(p)') = Cardinality(Holding(p)) - 1
    BY <2>1, <2>4, UsersFinite, CardDrop
  <2>6. \A q \in Proc : Spawned(q)' = Spawned(q)
    BY <2>2, SpawnedKept
  <2> HIDE DEF Typed, Control
  <2> QED
    <3>1. SUFFICES ASSUME NEW q \in Proc
                   PROVE  /\ attached'[q] = Cardinality(Holding(q)')
                          /\ active'[q] = Cardinality(Spawned(q)')
                          /\ threads'[q] \subseteq Spawned(q)'
      BY DEF Counting
    <3>2. CASE q = p
      BY <3>2, <2>1, <2>2, <2>3, <2>4, <2>5, <2>6 DEF Counting
    <3>3. CASE q # p
      BY <3>3, <2>1, <2>2, <2>3, <2>4, <2>5, <2>6 DEF Counting
    <3> QED
      BY <3>2, <3>3
<1>7. ASSUME NEW t \in Thread, NEW p \in Proc, Detach(t, p)
      PROVE  Counting'
  BY <1>7, CountKept DEF Detach
<1>8. ASSUME NEW t \in Thread, ThreadDestroy(t)
      PROVE  Counting'
  <2>1. cur[t] \in Ctx /\ ctxSt[cur[t]] = "live"
    BY <1>8, CurFacts, States DEF ThreadDestroy
  <2> QED
    BY <1>8, <2>1, CountKept DEF ThreadDestroy, Counted
<1>9. ASSUME NEW t \in Thread, Decrement(t)
      PROVE  Counting'
  <2>1. PICK c \in Ctx, p \in Proc : c = cur[t] /\ p = ctxProc[c] /\ ctxSt[c] \in Counted
    BY <1>9, CurFacts, States DEF Decrement, Counted
  <2>2. /\ attached' = [attached EXCEPT ![p] = @ - 1] /\ UNCHANGED <<active, threads>>
        /\ ctxSt' = [ctxSt EXCEPT ![c] = "released"] /\ UNCHANGED <<ctxProc, rproc, objs>>
    BY <1>9, <2>1 DEF Decrement
  <2>3. attached \in [Proc -> Int]
    OBVIOUS
  <2>4. /\ c \in Holding(p) /\ Holding(p)' = Holding(p) \ {c}
        /\ \A q \in Proc \ {p} : Holding(q)' = Holding(q)
    BY <2>1, <2>2, HoldingClosed
  <2>5. Cardinality(Holding(p)') = Cardinality(Holding(p)) - 1
    BY <2>1, <2>4, UsersFinite, CardDrop
  <2>6. \A q \in Proc : Spawned(q)' = Spawned(q)
    BY <2>2, SpawnedKept
  <2> HIDE DEF Typed, Control
  <2> QED
    <3>1. SUFFICES ASSUME NEW q \in Proc
                   PROVE  /\ attached'[q] = Cardinality(Holding(q)')
                          /\ active'[q] = Cardinality(Spawned(q)')
                          /\ threads'[q] \subseteq Spawned(q)'
      BY DEF Counting
    <3>2. CASE q = p
      BY <3>2, <2>1, <2>2, <2>3, <2>4, <2>5, <2>6 DEF Counting
    <3>3. CASE q # p
      BY <3>3, <2>1, <2>2, <2>3, <2>4, <2>5, <2>6 DEF Counting
    <3> QED
      BY <3>2, <3>3
<1>10. ASSUME NEW t \in Thread, DrainWait(t)
      PROVE  Counting'
  BY <1>10, CountKept DEF DrainWait
<1>11. ASSUME NEW t \in Thread, DrainDone(t)
      PROVE  Counting'
  BY <1>11, CountKept DEF DrainDone
<1>12. ASSUME NEW t \in Thread, LastDetachDestroy(t)
      PROVE  Counting'
  <2>1. ctxProc[cur[t]] \in Proc
    BY <1>12, CurFacts DEF LastDetachDestroy
  <2>2. UNCHANGED objs
    BY <1>12, <2>1, NoneListed DEF LastDetachDestroy, ProcDestroy
  <2>3. \A q \in Proc : threads'[q] \subseteq threads[q]
    BY <1>12 DEF LastDetachDestroy, ProcDestroy
  <2> QED
    BY <1>12, <2>2, <2>3, CountKept DEF LastDetachDestroy
<1>13. ASSUME NEW t \in Thread, HostReturn(t)
      PROVE  Counting'
  BY <1>13, CountKept DEF HostReturn
<1>14. ASSUME NEW t \in Thread, StartDestructor(t)
      PROVE  Counting'
  BY <1>14, CountKept DEF StartDestructor
<1>15. ASSUME NEW t \in Thread, WalkNext(t)
      PROVE  Counting'
  BY <1>15, CountKept DEF WalkNext
<1>16. ASSUME NEW t \in Thread, WalkEnd(t)
      PROVE  Counting'
  BY <1>16, CountKept DEF WalkEnd
<1>17. ASSUME NEW t \in Thread, ThreadDone(t)
      PROVE  Counting'
  BY <1>17, CountKept DEF ThreadDone
<1>18. ASSUME NEW t \in Thread, NEW p \in Proc, NEW r \in Runtime, SpawnAdd(t, p, r)
      PROVE  Counting'
  <2>1. /\ Spawned(p)' = Spawned(p) \cup {r} /\ r \notin Spawned(p)
        /\ \A q \in Proc \ {p} : Spawned(q)' = Spawned(q)
    BY <1>18, SpawnedOpened DEF SpawnAdd
  <2>2. Cardinality(Spawned(p)') = Cardinality(Spawned(p)) + 1
    BY <2>1, UsersFinite, CardAdd
  <2>3. \A q \in Proc : Holding(q)' = Holding(q)
    BY <1>18, HoldingKept DEF SpawnAdd
  <2>4. /\ active' = [active EXCEPT ![p] = @ + 1] /\ UNCHANGED attached
        /\ threads' = [threads EXCEPT ![p] = @ \cup {r}]
    BY <1>18 DEF SpawnAdd
  <2>5. active \in [Proc -> Int] /\ threads \in [Proc -> SUBSET Runtime]
    OBVIOUS
  <2> HIDE DEF Typed, Control
  <2> QED
    BY <2>1, <2>2, <2>3, <2>4, <2>5 DEF Counting
<1>19. ASSUME NEW t \in Thread, SpawnOk(t)
      PROVE  Counting'
  BY <1>19, CountKept DEF SpawnOk
<1>20. ASSUME NEW t \in Thread, SpawnFail(t)
      PROVE  Counting'
  <2>1. PICK r \in Runtime, p \in Proc : r = child[t] /\ r \in objs /\ p = rproc[r]
    BY <1>20, SpawnObj DEF SpawnFail
  <2>2. /\ active' = [active EXCEPT ![p] = @ - 1] /\ UNCHANGED <<attached, ctxSt, ctxProc, rproc>>
        /\ threads' = [threads EXCEPT ![p] = @ \ {r}] /\ objs' = objs \ {r}
    BY <1>20, <2>1 DEF SpawnFail
  <2>3. active \in [Proc -> Int] /\ threads \in [Proc -> SUBSET Runtime]
    OBVIOUS
  <2>4. /\ r \in Spawned(p) /\ Spawned(p)' = Spawned(p) \ {r}
        /\ \A q \in Proc \ {p} : Spawned(q)' = Spawned(q)
    BY <2>1, <2>2, SpawnedClosed
  <2>5. Cardinality(Spawned(p)') = Cardinality(Spawned(p)) - 1
    <3>1. IsFiniteSet(Spawned(p))
      BY UsersFinite
    <3>2. Cardinality(Spawned(p) \ {r}) = Cardinality(Spawned(p)) - 1
      BY <2>4, <3>1, CardDrop
    <3> QED
      BY <2>4, <3>2
  <2>6. \A q \in Proc : Holding(q)' = Holding(q)
    BY <2>2, HoldingKept
  <2> HIDE DEF Typed, Control
  <2> QED
    <3>1. SUFFICES ASSUME NEW q \in Proc
                   PROVE  /\ attached'[q] = Cardinality(Holding(q)')
                          /\ active'[q] = Cardinality(Spawned(q)')
                          /\ threads'[q] \subseteq Spawned(q)'
      BY DEF Counting
    <3>2. CASE q = p
      BY <3>2, <2>2, <2>3, <2>4, <2>5, <2>6 DEF Counting
    <3>3. CASE q # p
      BY <3>3, <2>2, <2>3, <2>4, <2>5, <2>6 DEF Counting
    <3> QED
      BY <3>2, <3>3
<1>21. ASSUME NEW r \in Runtime, ThreadExit(r)
      PROVE  Counting'
  <2>1. threads' = [threads EXCEPT ![rproc[r]] = @ \ {r}]
    BY <1>21 DEF ThreadExit
  <2>2. \A q \in Proc : threads'[q] \subseteq threads[q]
    BY <2>1
  <2> QED
    BY <1>21, <2>2, CountKept DEF ThreadExit
<1>22. ASSUME NEW r \in Runtime, ThreadPause(r)
      PROVE  Counting'
  BY <1>22, CountKept DEF ThreadPause
<1>23. ASSUME NEW r \in Runtime, ThreadLeave(r)
      PROVE  Counting'
  <2>1. PICK p \in Proc : r \in objs /\ p = rproc[r]
    BY <1>23 DEF ThreadLeave
  <2>2. /\ active' = [active EXCEPT ![p] = @ - 1] /\ UNCHANGED <<attached, ctxSt, ctxProc, rproc>>
        /\ threads' = [threads EXCEPT ![p] = @ \ {r}] /\ objs' = objs \ {r}
    BY <1>23, <2>1 DEF ThreadLeave
  <2>3. active \in [Proc -> Int] /\ threads \in [Proc -> SUBSET Runtime]
    OBVIOUS
  <2>4. /\ r \in Spawned(p) /\ Spawned(p)' = Spawned(p) \ {r}
        /\ \A q \in Proc \ {p} : Spawned(q)' = Spawned(q)
    BY <2>1, <2>2, SpawnedClosed
  <2>5. Cardinality(Spawned(p)') = Cardinality(Spawned(p)) - 1
    <3>1. IsFiniteSet(Spawned(p))
      BY UsersFinite
    <3>2. Cardinality(Spawned(p) \ {r}) = Cardinality(Spawned(p)) - 1
      BY <2>4, <3>1, CardDrop
    <3> QED
      BY <2>4, <3>2
  <2>6. \A q \in Proc : Holding(q)' = Holding(q)
    BY <2>2, HoldingKept
  <2> HIDE DEF Typed, Control
  <2> QED
    <3>1. SUFFICES ASSUME NEW q \in Proc
                   PROVE  /\ attached'[q] = Cardinality(Holding(q)')
                          /\ active'[q] = Cardinality(Spawned(q)')
                          /\ threads'[q] \subseteq Spawned(q)'
      BY DEF Counting
    <3>2. CASE q = p
      BY <3>2, <2>2, <2>3, <2>4, <2>5, <2>6 DEF Counting
    <3>3. CASE q # p
      BY <3>3, <2>2, <2>3, <2>4, <2>5, <2>6 DEF Counting
    <3> QED
      BY <3>2, <3>3
<1>24. ASSUME NEW t \in Thread, NEW p \in Proc, HostExitGroup(t, p)
      PROVE  Counting'
  BY <1>24, CountKept DEF HostExitGroup
<1>25. ASSUME NEW p \in Proc, FreeCall(p)
      PROVE  Counting'
  BY <1>25, CountKept DEF FreeCall
<1>26. ASSUME NEW p \in Proc, FreeWait(p)
      PROVE  Counting'
  BY <1>26, CountKept DEF FreeWait
<1>27. ASSUME NEW p \in Proc, FreeDrained(p)
      PROVE  Counting'
  BY <1>27, CountKept DEF FreeDrained
<1>28. ASSUME NEW p \in Proc, FreeDecide(p)
      PROVE  Counting'
  BY <1>28, CountKept DEF FreeDecide
<1>29. ASSUME NEW p \in Proc, FreeDestroy(p)
      PROVE  Counting'
  <2>1. threads[p] = {} /\ UNCHANGED objs
    BY <1>29, NoneListed DEF FreeDestroy, ProcDestroy
  <2>2. \A q \in Proc : threads'[q] \subseteq threads[q]
    BY <1>29 DEF FreeDestroy, ProcDestroy
  <2> QED
    BY <1>29, <2>1, <2>2, CountKept DEF FreeDestroy
<1>30. ASSUME NEW p \in Proc, SpuriousWake(p)
      PROVE  Counting'
  BY <1>30, CountKept DEF SpuriousWake
<1>31. CASE UNCHANGED vars
  BY <1>31, CountKept DEF vars
<1> QED
  BY <1>1, <1>2, <1>3, <1>4, <1>5, <1>6, <1>7, <1>8, <1>9, <1>10, <1>11,
     <1>12, <1>13, <1>14, <1>15, <1>16, <1>17, <1>18, <1>19, <1>20, <1>21,
     <1>22, <1>23, <1>24, <1>25, <1>26, <1>27, <1>28, <1>29, <1>30, <1>31
     DEF Next, AttachStep, DetachStep, ExitStep, SpawnStep, LeaveStep, FreeStep

-----------------------------------------------------------------------------
(* Who frees the process.                                                   *)

\* A counter is zero exactly when nobody is left to count.
LEMMA CountZero ==
    ASSUME Typed, Counting, NEW p \in Proc
    PROVE  /\ active[p] = 0 <=> Spawned(p) = {}
           /\ attached[p] = 0 <=> Holding(p) = {}
           /\ attached[p] >= 0 /\ active[p] >= 0
<1>1. /\ IsFiniteSet(Spawned(p)) /\ IsFiniteSet(Holding(p))
      /\ attached[p] = Cardinality(Holding(p)) /\ active[p] = Cardinality(Spawned(p))
  BY UsersFinite DEF Counting
<1>2. /\ Cardinality(Holding(p)) \in Nat /\ (Cardinality(Holding(p)) = 0 <=> Holding(p) = {})
      /\ Cardinality(Spawned(p)) \in Nat /\ (Cardinality(Spawned(p)) = 0 <=> Spawned(p) = {})
  BY <1>1, FS_CardinalityType, FS_EmptySet
<1> QED
  BY <1>1, <1>2

\* Steps of threads that are not freeing a process, before or after.
Freeing == {"drain", "destroy"}

\* The threads that free a process stay the same.
LEMMA ReclaimersKept ==
    ASSUME \A u \in Thread : pc[u] \in Freeing \/ pc'[u] \in Freeing =>
               pc'[u] \in Freeing /\ pc[u] \in Freeing /\ cur'[u] = cur[u]
               /\ ctxProc'[cur[u]] = ctxProc[cur[u]],
           NEW p \in Proc, fpc'[p] = fpc[p]
    PROVE  Reclaimers(p)' = Reclaimers(p)
BY DEF Reclaimers, Freeing

\* A process nobody begins or ends to free keeps its one reclaimer.
LEMMA ReclaimsKept ==
    ASSUME NEW p \in Proc, Reclaims(p), Holding(p)' = Holding(p),
           Spawned(p)' \subseteq Spawned(p), Reclaimers(p)' = Reclaimers(p),
           \A t \in Reclaimers(p) \cap Thread : pc'[t] = "destroy" => pc[t] = "destroy",
           fpc'[p] = fpc[p], pending'[p] = pending[p], lkProc'[p] = lkProc[p],
           p \in present' <=> p \in present, aborted => aborted'
    PROVE  Reclaims(p)'
<1>1. Reclaimers(p) \ {p} \subseteq Thread
  BY DEF Reclaimers
<1> QED
  BY <1>1 DEF Reclaims

\* A step that only moves threads which are not freeing a process.
LEMMA ReclaimingKept ==
    ASSUME Reclaiming, UNCHANGED <<fpc, pending, lkProc, present, ctxProc, aborted>>,
           \A c \in Ctx : ctxSt'[c] \in Counted <=> ctxSt[c] \in Counted,
           UNCHANGED <<rproc, objs>>,
           \A u \in Thread : pc[u] \in Freeing \/ pc'[u] \in Freeing =>
               pc'[u] = pc[u] /\ cur'[u] = cur[u]
    PROVE  Reclaiming'
<1>1. ASSUME NEW p \in Proc PROVE Reclaims(p)'
  <2>1. Holding(p)' = Holding(p) /\ Spawned(p)' = Spawned(p)
    BY HoldingKept, SpawnedKept
  <2>2. Reclaimers(p)' = Reclaimers(p)
    BY ReclaimersKept
  <2>3. \A t \in Thread : pc'[t] = "destroy" => pc[t] = "destroy"
    BY DEF Freeing
  <2> QED
    BY <2>1, <2>2, <2>3, ReclaimsKept DEF Reclaiming
<1> QED
  BY <1>1 DEF Reclaiming

\* Every step keeps the decision who frees the process with one of
\* lfi_proc_free and the last detach_ctx, and the process unused from there on.
LEMMA ReclaimingStep ==
    ASSUME IInv, ~CallbackAttach, ~LateCalls, [Next]_vars
    PROVE  Reclaiming'
<1> USE DEF IInv, Typed, Control, procVars, ctxVars, tlsVars, Goto, AttachPC, DetachPC, Thread,
            HostCode, Freeing
<1>1. ASSUME ~aborted, NEW t \in Thread, NEW p \in Proc, NEW c \in Ctx, Enter(t, p, c)
      PROVE  Reclaiming'
  <2>1. pc[t] = "host" /\ fpc[p] = "idle"
    BY <1>1, ConstAssumption DEF Enter, MayEnter, ConstAssumption
  <2>2. \A u \in Thread : pc[u] \in Freeing => cur[u] # c /\ cur[u] \in Ctx
    BY <1>1, UnusedFree, CurFacts DEF Enter
  <2>3. \A u \in Thread : pc[u] \in Freeing \/ pc'[u] \in Freeing =>
          pc'[u] = pc[u] /\ cur'[u] = cur[u] /\ ctxProc'[cur[u]] = ctxProc[cur[u]]
    BY <1>1, <2>1, <2>2 DEF Enter
  <2>4. \A q \in Proc : Reclaimers(q)' = Reclaimers(q)
    BY <1>1, <2>3, ReclaimersKept DEF Enter
  <2>5. /\ Holding(p)' = Holding(p) \cup {c}
        /\ \A q \in Proc \ {p} : Holding(q)' = Holding(q)
    BY <1>1, HoldingOpened DEF Enter, Ownership
  <2>6. \A q \in Proc : Spawned(q)' = Spawned(q)
    BY <1>1, SpawnedKept DEF Enter
  <2>7. UNCHANGED <<fpc, pending, lkProc, present, aborted>>
    BY <1>1 DEF Enter
  <2> SUFFICES ASSUME NEW q \in Proc PROVE Reclaims(q)'
    BY DEF Reclaiming
  <2>8. CASE q # p
    <3>1. Holding(q)' = Holding(q)
      BY <2>5, <2>8
    <3>2. Reclaims(q)
      BY DEF Reclaiming
    <3> HIDE DEF Typed, Control, IInv
    <3> QED
      BY <2>3, <2>4, <2>6, <2>7, <3>1, <3>2, ReclaimsKept
  <2>9. CASE q = p
    <3>1. Reclaims(p) /\ p \in present /\ Reclaimers(p) \ {p} = {}
      BY <2>1 DEF Reclaiming, Reclaims
    <3> QED
      BY <2>1, <2>4, <2>7, <2>9, <3>1 DEF Reclaims
  <2> QED
    BY <2>8, <2>9
<1>2. ASSUME ~aborted, NEW t \in Thread, LockClone(t)
      PROVE  Reclaiming'
  BY <1>2, ReclaimingKept DEF LockClone
<1>3. ASSUME ~aborted, NEW t \in Thread, CloneRun(t)
      PROVE  Reclaiming'
  <2>1. cur[t] \in Ctx /\ ctxSt[cur[t]] = "creating"
    BY <1>3, CurFacts, States DEF CloneRun
  <2> QED
    BY <1>3, <2>1, ReclaimingKept DEF CloneRun, Counted
<1>4. ASSUME ~aborted, NEW t \in Thread, CloneFail(t)
      PROVE  Reclaiming'
  <2>1. PICK c \in Ctx, p \in Proc : c = cur[t] /\ p = ctxProc[c] /\ ctxSt[c] \in Counted
    <3>1. /\ cur[t] \in Ctx /\ ctxProc[cur[t]] \in Proc
          /\ ctxSt[cur[t]] = StateAt(pc[t]) /\ pc[t] \in {"creating", "attach", "detached"}
      BY <1>4, CurFacts DEF CloneFail
    <3> QED
      BY <3>1, States DEF Counted
  <2>2. /\ ctxSt' = [ctxSt EXCEPT ![c] = "released"] /\ UNCHANGED <<ctxProc, rproc, objs>>
        /\ UNCHANGED <<fpc, pending, lkProc, present>> /\ aborted'
    BY <1>4, <2>1 DEF CloneFail
  <2>3. /\ \A u \in Thread : pc[u] \in Freeing \/ pc'[u] \in Freeing =>
              pc'[u] = pc[u] /\ cur'[u] = cur[u]
    BY <1>4, Labels DEF CloneFail
  <2>4. \A q \in Proc : Reclaimers(q)' = Reclaimers(q) /\ Spawned(q)' = Spawned(q)
    BY <2>2, <2>3, ReclaimersKept, SpawnedKept
  <2>5. ASSUME NEW q \in Proc PROVE Holding(q)' \subseteq Holding(q)
    <3>1. Holding(p)' = Holding(p) \ {c} /\ \A x \in Proc \ {p} : Holding(x)' = Holding(x)
      BY <2>1, <2>2, HoldingClosed
    <3>2. CASE q = p
      BY <3>1, <3>2
    <3>3. CASE q # p
      BY <3>1, <3>3
    <3> QED
      BY <3>2, <3>3
  <2> SUFFICES ASSUME NEW q \in Proc PROVE Reclaims(q)'
    BY DEF Reclaiming
  <2>6. Reclaims(q) /\ Reclaimers(q) \ {q} \subseteq Thread
    BY DEF Reclaiming, Reclaimers
  <2>7. /\ Holding(q)' \subseteq Holding(q) /\ Spawned(q)' = Spawned(q)
        /\ Reclaimers(q)' = Reclaimers(q)
    BY <2>4, <2>5
  <2>8. \A u \in Reclaimers(q) \ {q} : pc'[u] = "destroy" => pc[u] = "destroy"
    BY <2>3, <2>6
  <2> HIDE DEF Typed, Control, IInv
  <2> QED
    BY <2>2, <2>6, <2>7, <2>8 DEF Reclaims
<1>5. ASSUME ~aborted, NEW t \in Thread, AttachCtx(t)
      PROVE  Reclaiming'
  BY <1>5, Labels, ReclaimingKept DEF AttachCtx
<1>6. ASSUME ~aborted, NEW t \in Thread, AttachFail(t)
      PROVE  Reclaiming'
  <2>1. PICK c \in Ctx, p \in Proc : c = cur[t] /\ p = ctxProc[c] /\ ctxSt[c] \in Counted
    <3>1. /\ cur[t] \in Ctx /\ ctxProc[cur[t]] \in Proc
          /\ ctxSt[cur[t]] = StateAt(pc[t]) /\ pc[t] \in {"creating", "attach", "detached"}
      BY <1>6, CurFacts DEF AttachFail
    <3> QED
      BY <3>1, States DEF Counted
  <2>2. /\ ctxSt' = [ctxSt EXCEPT ![c] = "released"] /\ UNCHANGED <<ctxProc, rproc, objs>>
        /\ UNCHANGED <<fpc, pending, lkProc, present>> /\ aborted'
    BY <1>6, <2>1 DEF AttachFail
  <2>3. /\ \A u \in Thread : pc[u] \in Freeing \/ pc'[u] \in Freeing =>
              pc'[u] = pc[u] /\ cur'[u] = cur[u]
    BY <1>6, Labels DEF AttachFail
  <2>4. \A q \in Proc : Reclaimers(q)' = Reclaimers(q) /\ Spawned(q)' = Spawned(q)
    BY <2>2, <2>3, ReclaimersKept, SpawnedKept
  <2>5. ASSUME NEW q \in Proc PROVE Holding(q)' \subseteq Holding(q)
    <3>1. Holding(p)' = Holding(p) \ {c} /\ \A x \in Proc \ {p} : Holding(x)' = Holding(x)
      BY <2>1, <2>2, HoldingClosed
    <3>2. CASE q = p
      BY <3>1, <3>2
    <3>3. CASE q # p
      BY <3>1, <3>3
    <3> QED
      BY <3>2, <3>3
  <2> SUFFICES ASSUME NEW q \in Proc PROVE Reclaims(q)'
    BY DEF Reclaiming
  <2>6. Reclaims(q) /\ Reclaimers(q) \ {q} \subseteq Thread
    BY DEF Reclaiming, Reclaimers
  <2>7. /\ Holding(q)' \subseteq Holding(q) /\ Spawned(q)' = Spawned(q)
        /\ Reclaimers(q)' = Reclaimers(q)
    BY <2>4, <2>5
  <2>8. \A u \in Reclaimers(q) \ {q} : pc'[u] = "destroy" => pc[u] = "destroy"
    BY <2>3, <2>6
  <2> HIDE DEF Typed, Control, IInv
  <2> QED
    BY <2>2, <2>6, <2>7, <2>8 DEF Reclaims
<1>7. ASSUME ~aborted, NEW t \in Thread, NEW p \in Proc, Detach(t, p)
      PROVE  Reclaiming'
  BY <1>7, ReclaimingKept DEF Detach
<1>8. ASSUME ~aborted, NEW t \in Thread, ThreadDestroy(t)
      PROVE  Reclaiming'
  <2>1. cur[t] \in Ctx /\ ctxSt[cur[t]] = "live"
    BY <1>8, CurFacts, States DEF ThreadDestroy
  <2> QED
    BY <1>8, <2>1, ReclaimingKept DEF ThreadDestroy, Counted
<1>9. ASSUME ~aborted, NEW t \in Thread, Decrement(t)
      PROVE  Reclaiming'
  <2>1. PICK c \in Ctx, p \in Proc : c = cur[t] /\ p = ctxProc[c] /\ ctxSt[c] \in Counted
    <3>1. /\ cur[t] \in Ctx /\ ctxProc[cur[t]] \in Proc
          /\ ctxSt[cur[t]] = StateAt(pc[t]) /\ pc[t] \in {"creating", "attach", "detached"}
      BY <1>9, CurFacts DEF Decrement
    <3> QED
      BY <3>1, States DEF Counted
  <2>2. /\ ctxSt' = [ctxSt EXCEPT ![c] = "released"] /\ UNCHANGED <<ctxProc, rproc, objs>>
        /\ UNCHANGED <<fpc, pending, lkProc, present, aborted>>
        /\ ~lkProc[p] /\ pc[t] = "detached"
    BY <1>9, <2>1 DEF Decrement
  <2>3. /\ c \in Holding(p) /\ Holding(p)' = Holding(p) \ {c}
        /\ \A q \in Proc \ {p} : Holding(q)' = Holding(q)
    BY <2>1, <2>2, HoldingClosed
  <2>4. \A q \in Proc : Spawned(q)' = Spawned(q)
    BY <2>2, SpawnedKept
  <2>5. /\ fpc[p] \notin {"drain", "decide", "destroy"} /\ p \in present
        /\ Reclaimers(p) = {} /\ Reclaims(p)
    <3>1. Reclaims(p)
      BY DEF Reclaiming
    <3> QED
      BY <2>1, <2>2, <2>3, <3>1, ConstAssumption DEF Reclaims, Reclaimers, ConstAssumption
  <2>6. CASE DoDestroy(p)
    <3>1. pc' = [pc EXCEPT ![t] = "drain"] /\ UNCHANGED cur
      BY <1>9, <2>1, <2>6 DEF Decrement
    <3>2. Holding(p)' = {} /\ fpc[p] = "deferred"
      <4>1. IsFiniteSet(Holding(p)) /\ Cardinality(Holding(p)) = 1
        BY <2>6, UsersFinite DEF DoDestroy, Counting
      <4>2. PICK x : Holding(p) = {x}
        BY <4>1, FS_Singleton
      <4> QED
        BY <2>3, <2>5, <2>6, <4>2 DEF Reclaims, DoDestroy
    <3>3. Reclaimers(p)' = {t}
      BY <2>1, <2>2, <2>5, <3>1, <3>2 DEF Reclaimers
    <3>4. \A q \in Proc \ {p} : Reclaimers(q)' = Reclaimers(q)
      BY <2>1, <2>2, <3>1 DEF Reclaimers
    <3>5. Reclaims(p)'
      <4>1. pc'[t] = "drain"
        BY <3>1
      <4> HIDE DEF Typed, Control, IInv
      <4> QED
        BY <2>2, <2>4, <2>5, <3>2, <3>3, <4>1 DEF Reclaims
    <3>6. ASSUME NEW q \in Proc, q # p PROVE Reclaims(q)'
      <4>1. Holding(q)' = Holding(q) /\ Spawned(q)' = Spawned(q) /\ Reclaimers(q)' = Reclaimers(q)
        BY <2>3, <2>4, <3>4, <3>6
      <4>2. \A u \in Thread : pc'[u] = "destroy" => pc[u] = "destroy"
        BY <3>1
      <4>3. Reclaims(q)
        BY DEF Reclaiming
      <4> HIDE DEF Typed, Control, IInv
      <4> QED
        BY <2>2, <4>1, <4>2, <4>3, ReclaimsKept
    <3> QED
      BY <3>5, <3>6 DEF Reclaiming
  <2>7. CASE ~DoDestroy(p)
    <3>1. PICK l \in {"walk", "exiting", "host", "sandbox"} : pc' = [pc EXCEPT ![t] = l]
      BY <1>9, <2>1, <2>7, Labels DEF Decrement, DetachReturn
    <3>2. \A u \in Thread \ {t} : cur'[u] = cur[u]
      BY <1>9, <2>1, <2>7 DEF Decrement, DetachReturn
    <3>3. \A u \in Thread : pc[u] \in Freeing \/ pc'[u] \in Freeing =>
            pc'[u] = pc[u] /\ cur'[u] = cur[u]
      BY <2>2, <3>1, <3>2
    <3>4. \A q \in Proc : Reclaimers(q)' = Reclaimers(q)
      BY <2>2, <3>3, ReclaimersKept
    <3>5. fpc[p] = "deferred" => Holding(p)' # {}
      <4>1. ASSUME Holding(p) = {c} PROVE attached[p] = 1
        <5>1. attached[p] = Cardinality(Holding(p))
          BY <2>1 DEF Counting
        <5>2. Cardinality({c}) = 1
          BY FS_Singleton
        <5> QED
          BY <4>1, <5>1, <5>2
      <4> QED
        BY <2>3, <2>5, <2>7, <4>1 DEF Reclaims, DoDestroy
    <3>6. Reclaims(p)'
      BY <2>2, <2>3, <2>4, <2>5, <3>4, <3>5 DEF Reclaims
    <3>7. ASSUME NEW q \in Proc, q # p PROVE Reclaims(q)'
      <4>1. Holding(q)' = Holding(q) /\ Spawned(q)' = Spawned(q) /\ Reclaimers(q)' = Reclaimers(q)
        BY <2>3, <2>4, <3>4, <3>7
      <4>2. Reclaims(q)
        BY DEF Reclaiming
      <4> HIDE DEF Typed, Control, IInv
      <4> QED
        BY <2>2, <3>3, <4>1, <4>2, ReclaimsKept
    <3> QED
      BY <3>6, <3>7 DEF Reclaiming
  <2> QED
    BY <2>6, <2>7
<1>10. ASSUME ~aborted, NEW t \in Thread, DrainWait(t)
      PROVE  Reclaiming'
  BY <1>10, ReclaimingKept DEF DrainWait
<1>11. ASSUME ~aborted, NEW t \in Thread, DrainDone(t)
      PROVE  Reclaiming'
  <2>1. PICK p \in Proc : p = ctxProc[cur[t]]
    BY <1>11, CurFacts DEF DrainDone
  <2>2. /\ pc[t] = "drain" /\ pc' = [pc EXCEPT ![t] = "destroy"] /\ active[p] = 0
        /\ UNCHANGED <<cur, ctxProc, ctxSt, rproc, objs, fpc, pending, lkProc, present, aborted>>
    BY <1>11, <2>1 DEF DrainDone, Drained
  <2>3. \A q \in Proc : Reclaimers(q)' = Reclaimers(q)
    BY <2>2, ReclaimersKept
  <2>4. \A q \in Proc : Holding(q)' = Holding(q) /\ Spawned(q)' = Spawned(q)
    BY <2>2, HoldingKept, SpawnedKept
  <2>5. Spawned(p) = {} /\ Reclaims(p) /\ Reclaimers(p) \ {p} \subseteq Thread
    BY <2>2, CountZero DEF Reclaiming, Reclaimers
  <2>6. Reclaims(p)'
    BY <2>2, <2>3, <2>4, <2>5 DEF Reclaims
  <2>7. ASSUME NEW q \in Proc, q # p PROVE Reclaims(q)'
    <3>1. t \notin Reclaimers(q)
      BY <2>1, <2>7, ConstAssumption DEF Reclaimers, ConstAssumption
    <3>2. \A u \in Reclaimers(q) \cap Thread : pc'[u] = "destroy" => pc[u] = "destroy"
      BY <2>2, <3>1
    <3>3. Reclaims(q)
      BY DEF Reclaiming
    <3> HIDE DEF Typed, Control, IInv
    <3> QED
      BY <2>2, <2>3, <2>4, <3>2, <3>3, ReclaimsKept
  <2> QED
    BY <2>6, <2>7 DEF Reclaiming
<1>12. ASSUME ~aborted, NEW t \in Thread, LastDetachDestroy(t)
      PROVE  Reclaiming'
  <2>1. PICK p \in Proc : p = ctxProc[cur[t]]
    BY <1>12, CurFacts DEF LastDetachDestroy
  <2>2. /\ pc[t] = "destroy" /\ present' = present \ {p}
        /\ UNCHANGED <<ctxProc, ctxSt, rproc, fpc, pending, lkProc, aborted>>
    BY <1>12, <2>1 DEF LastDetachDestroy, ProcDestroy
  <2>3. UNCHANGED objs
    BY <1>12, <2>1, NoneListed DEF LastDetachDestroy, ProcDestroy
  <2>4. PICK l \in {"walk", "exiting", "host", "sandbox"} : pc' = [pc EXCEPT ![t] = l]
    BY <1>12, Labels DEF LastDetachDestroy, DetachReturn
  <2>5. \A u \in Thread \ {t} : cur'[u] = cur[u] /\ pc'[u] = pc[u]
    BY <1>12, <2>4 DEF LastDetachDestroy, DetachReturn
  <2>6. \A q \in Proc : Holding(q)' = Holding(q) /\ Spawned(q)' = Spawned(q)
    BY <2>2, <2>3, HoldingKept, SpawnedKept
  <2>7. /\ fpc[p] = "deferred" /\ Holding(p) = {} /\ Spawned(p) = {} /\ Reclaimers(p) = {t}
        /\ Reclaims(p)
    <3>1. t \in Reclaimers(p) \ {p}
      BY <2>1, <2>2, ConstAssumption DEF Reclaimers, ConstAssumption
    <3>2. Reclaims(p)
      BY DEF Reclaiming
    <3> QED
      BY <2>2, <3>1, <3>2 DEF Reclaims
  <2>8. Reclaimers(p)' = {}
    <3>1. pc'[t] \notin {"drain", "destroy"}
      BY <2>4
    <3>2. \A u \in Thread \ {t} : ~(pc[u] \in {"drain", "destroy"} /\ ctxProc[cur[u]] = p)
      BY <2>7 DEF Reclaimers
    <3> HIDE DEF Typed, Control, IInv
    <3> QED
      BY <2>2, <2>5, <2>7, <3>1, <3>2 DEF Reclaimers
  <2>9. Reclaims(p)'
    BY <2>2, <2>6, <2>7, <2>8 DEF Reclaims
  <2>10. ASSUME NEW q \in Proc, q # p PROVE Reclaims(q)'
    <3>1. Reclaimers(q)' = Reclaimers(q)
      <4>1. ctxProc[cur[t]] # q /\ pc'[t] \notin {"drain", "destroy"}
        BY <2>1, <2>4, <2>10
      <4> HIDE DEF Typed, Control, IInv
      <4> QED
        BY <2>2, <2>5, <4>1 DEF Reclaimers
    <3>2. \A u \in Thread : pc'[u] = "destroy" => pc[u] = "destroy"
      BY <2>4
    <3>3. q \in present' <=> q \in present
      BY <2>2, <2>10
    <3>4. Reclaims(q)
      BY DEF Reclaiming
    <3> HIDE DEF Typed, Control, IInv
    <3> QED
      BY <2>2, <2>6, <3>1, <3>2, <3>3, <3>4, ReclaimsKept
  <2> QED
    BY <2>9, <2>10 DEF Reclaiming
<1>13. ASSUME ~aborted, NEW t \in Thread, HostReturn(t)
      PROVE  Reclaiming'
  BY <1>13, ReclaimingKept DEF HostReturn
<1>14. ASSUME ~aborted, NEW t \in Thread, StartDestructor(t)
      PROVE  Reclaiming'
  BY <1>14, ReclaimingKept DEF StartDestructor
<1>15. ASSUME ~aborted, NEW t \in Thread, WalkNext(t)
      PROVE  Reclaiming'
  BY <1>15, ReclaimingKept DEF WalkNext
<1>16. ASSUME ~aborted, NEW t \in Thread, WalkEnd(t)
      PROVE  Reclaiming'
  BY <1>16, ReclaimingKept DEF WalkEnd
<1>17. ASSUME ~aborted, NEW t \in Thread, ThreadDone(t)
      PROVE  Reclaiming'
  BY <1>17, ReclaimingKept DEF ThreadDone
<1>18. ASSUME ~aborted, NEW t \in Thread, NEW p \in Proc, NEW r \in Runtime, SpawnAdd(t, p, r)
      PROVE  Reclaiming'
  <2>1. /\ pc[t] \in {"host", "sandbox"} /\ pc[r] = "none" /\ r \notin objs
        /\ pc' = [pc EXCEPT ![t] = "spawn", ![r] = "starting"]
        /\ objs' = objs \cup {r} /\ rproc' = [rproc EXCEPT ![r] = p]
        /\ UNCHANGED <<ctxProc, ctxSt, cur, fpc, pending, lkProc, present, aborted>>
    BY <1>18 DEF SpawnAdd, InSandbox
  <2>2. Spawned(p)' = Spawned(p) \cup {r} /\ \A q \in Proc \ {p} : Spawned(q)' = Spawned(q)
    BY <2>1, SpawnedOpened
  <2>3. \A q \in Proc : Holding(q)' = Holding(q)
    BY <2>1, HoldingKept
  <2>4. \A u \in Thread : pc[u] \in Freeing \/ pc'[u] \in Freeing => pc'[u] = pc[u]
    BY <2>1
  <2>5. \A q \in Proc : Reclaimers(q)' = Reclaimers(q)
    BY <2>1, <2>4, ReclaimersKept
  <2>6. Holding(p) # {} \/ Spawned(p) # {}
    <3>1. CASE pc[t] = "sandbox" /\ rproc[t] = p
      <4>1. t \in Runtime /\ t \in objs
        BY <3>1
      <4> QED
        BY <3>1, <4>1 DEF Spawned
    <3>2. CASE \E i \in DOMAIN list[t] :
                  ctxProc[list[t][i]] = p /\ ctxSt[list[t][i]] = "live"
      <4>1. PICK i \in DOMAIN list[t] : ctxProc[list[t][i]] = p /\ ctxSt[list[t][i]] = "live"
        BY <3>2
      <4>2. list[t] \in Seq(Ctx)
        OBVIOUS
      <4>3. list[t][i] \in Ctx
        BY <4>2
      <4> QED
        BY <4>1, <4>3 DEF Holding
    <3> QED
      BY <1>18, <3>1, <3>2 DEF SpawnAdd, InSandbox
  <2>7. Reclaims(p)'
    <3>1. Reclaims(p) /\ Reclaimers(p) \ {p} \subseteq Thread
      BY DEF Reclaiming, Reclaimers
    <3>2. fpc[p] # "destroy" /\ (~aborted /\ fpc[p] = "decide" => Holding(p) # {})
      BY <2>6, <3>1 DEF Reclaims
    <3>3. \A u \in Reclaimers(p) \ {p} : pc'[u] # "destroy"
      BY <2>1, <2>4, <2>6, <3>1 DEF Reclaims
    <3>4. p \in present
      BY <2>6, <3>1 DEF Reclaims
    <3> HIDE DEF Typed, Control, IInv
    <3> QED
      BY <2>1, <2>2, <2>3, <2>5, <3>1, <3>2, <3>3, <3>4 DEF Reclaims
  <2>8. ASSUME NEW q \in Proc, q # p PROVE Reclaims(q)'
    <3>1. Holding(q)' = Holding(q) /\ Spawned(q)' = Spawned(q) /\ Reclaimers(q)' = Reclaimers(q)
      BY <2>2, <2>3, <2>5, <2>8
    <3>2. \A u \in Thread : pc'[u] = "destroy" => pc[u] = "destroy"
      BY <2>4
    <3>3. Reclaims(q)
      BY DEF Reclaiming
    <3> HIDE DEF Typed, Control, IInv
    <3> QED
      BY <2>1, <3>1, <3>2, <3>3, ReclaimsKept
  <2> QED
    BY <2>7, <2>8 DEF Reclaiming
<1>19. ASSUME ~aborted, NEW t \in Thread, SpawnOk(t)
      PROVE  Reclaiming'
  <2>1. pc[t] = "spawn" /\ child[t] \in Runtime /\ pc[child[t]] = "starting"
    BY <1>19 DEF SpawnOk, Spawning
  <2>2. pc' = [pc EXCEPT ![t] = Home(t), ![child[t]] = "sandbox"]
    BY <1>19 DEF SpawnOk
  <2>3. \A u \in Thread : pc[u] \in Freeing \/ pc'[u] \in Freeing => pc'[u] = pc[u]
    BY <2>1, <2>2, Labels
  <2> QED
    BY <1>19, <2>3, ReclaimingKept DEF SpawnOk
<1>20. ASSUME ~aborted, NEW t \in Thread, SpawnFail(t)
      PROVE  Reclaiming'
  <2>1. PICK r \in Runtime, p \in Proc : r = child[t] /\ r \in objs /\ p = rproc[r]
    BY <1>20, SpawnObj DEF SpawnFail
  <2>2. /\ objs' = objs \ {r} /\ UNCHANGED <<ctxProc, ctxSt, rproc, cur>>
        /\ UNCHANGED <<fpc, pending, lkProc, present, aborted>>
    BY <1>20, <2>1 DEF SpawnFail
  <2>3. ASSUME NEW q \in Proc PROVE Spawned(q)' \subseteq Spawned(q) /\ Holding(q)' = Holding(q)
    <3>1. Spawned(p)' = Spawned(p) \ {r} /\ \A x \in Proc \ {p} : Spawned(x)' = Spawned(x)
      BY <2>1, <2>2, SpawnedClosed
    <3>2. Holding(q)' = Holding(q)
      BY <2>2, HoldingKept
    <3>3. CASE q = p
      BY <3>1, <3>2, <3>3
    <3>4. CASE q # p
      BY <3>1, <3>2, <3>4
    <3> QED
      BY <3>3, <3>4
  <2>4. \A u \in Thread : pc[u] \in Freeing \/ pc'[u] \in Freeing => pc'[u] = pc[u]
    <3>1. pc[t] = "spawn" /\ pc[child[t]] = "starting"
      BY <1>20 DEF SpawnFail, Spawning
    <3>2. pc' = [pc EXCEPT ![t] = Home(t), ![child[t]] = "done"]
      BY <1>20 DEF SpawnFail
    <3> QED
      BY <3>1, <3>2, Labels
  <2>5. \A q \in Proc : Reclaimers(q)' = Reclaimers(q)
    BY <2>2, <2>4, ReclaimersKept
  <2>6. ASSUME NEW q \in Proc PROVE Reclaims(q)'
    BY <2>2, <2>3, <2>4, <2>5, ReclaimsKept DEF Reclaiming
  <2> QED
    BY <2>6 DEF Reclaiming
<1>21. ASSUME ~aborted, NEW r \in Runtime, ThreadExit(r)
      PROVE  Reclaiming'
  BY <1>21, ReclaimingKept DEF ThreadExit
<1>22. ASSUME ~aborted, NEW r \in Runtime, ThreadPause(r)
      PROVE  Reclaiming'
  BY <1>22, ReclaimingKept DEF ThreadPause
<1>23. ASSUME ~aborted, NEW r \in Runtime, ThreadLeave(r)
      PROVE  Reclaiming'
  <2>1. PICK p \in Proc : r \in objs /\ p = rproc[r]
    BY <1>23 DEF ThreadLeave
  <2>2. /\ objs' = objs \ {r} /\ UNCHANGED <<ctxProc, ctxSt, rproc, cur>>
        /\ UNCHANGED <<fpc, pending, lkProc, present, aborted>>
    BY <1>23, <2>1 DEF ThreadLeave
  <2>3. ASSUME NEW q \in Proc PROVE Spawned(q)' \subseteq Spawned(q) /\ Holding(q)' = Holding(q)
    <3>1. Spawned(p)' = Spawned(p) \ {r} /\ \A x \in Proc \ {p} : Spawned(x)' = Spawned(x)
      BY <2>1, <2>2, SpawnedClosed
    <3>2. Holding(q)' = Holding(q)
      BY <2>2, HoldingKept
    <3>3. CASE q = p
      BY <3>1, <3>2, <3>3
    <3>4. CASE q # p
      BY <3>1, <3>2, <3>4
    <3> QED
      BY <3>3, <3>4
  <2>4. \A u \in Thread : pc[u] \in Freeing \/ pc'[u] \in Freeing => pc'[u] = pc[u]
    BY <1>23 DEF ThreadLeave
  <2>5. \A q \in Proc : Reclaimers(q)' = Reclaimers(q)
    BY <2>2, <2>4, ReclaimersKept
  <2>6. ASSUME NEW q \in Proc PROVE Reclaims(q)'
    BY <2>2, <2>3, <2>4, <2>5, ReclaimsKept DEF Reclaiming
  <2> QED
    BY <2>6 DEF Reclaiming
<1>24. ASSUME ~aborted, NEW t \in Thread, NEW p \in Proc, HostExitGroup(t, p)
      PROVE  Reclaiming'
  BY <1>24, ReclaimingKept DEF HostExitGroup
<1>25. ASSUME ~aborted, NEW p \in Proc, FreeCall(p)
      PROVE  Reclaiming'
  <2>1. UNCHANGED <<ctxProc, ctxSt, rproc, pc, cur, aborted>>
    BY <1>25 DEF FreeCall
  <2>2. UNCHANGED objs
    BY <1>25 DEF FreeCall
  <2>3. \A q \in Proc : Holding(q)' = Holding(q) /\ Spawned(q)' = Spawned(q)
    BY <2>1, <2>2, HoldingKept, SpawnedKept
  <2>4. ASSUME NEW q \in Proc, q # p PROVE Reclaims(q)'
    <3>1. /\ fpc'[q] = fpc[q] /\ pending'[q] = pending[q] /\ lkProc'[q] = lkProc[q]
          /\ q \in present' <=> q \in present
      BY <1>25, <2>4 DEF FreeCall, ProcDestroy
    <3>2. Reclaimers(q)' = Reclaimers(q)
      BY <2>1, <3>1 DEF Reclaimers
    <3>3. Reclaims(q)
      BY DEF Reclaiming
    <3> HIDE DEF Typed, Control, IInv
    <3> QED
      BY <2>1, <2>3, <3>1, <3>2, <3>3, ReclaimsKept
  <2>5. Reclaims(p) /\ Reclaimers(p) \ {p} \subseteq Thread
    BY DEF Reclaiming, Reclaimers
  <2>6. Reclaims(p)'
    <3>1. /\ fpc[p] = "idle" /\ fpc'[p] = "drain" /\ lkProc'[p] /\ UNCHANGED <<pending, present>>
      BY <1>25 DEF FreeCall
    <3>2. Reclaimers(p)' = Reclaimers(p)
      BY <2>1, <3>1 DEF Reclaimers
    <3> QED
      BY <2>1, <2>3, <2>5, <3>1, <3>2 DEF Reclaims
  <2> QED
    BY <2>4, <2>6 DEF Reclaiming
<1>26. ASSUME ~aborted, NEW p \in Proc, FreeWait(p)
      PROVE  Reclaiming'
  BY <1>26, ReclaimingKept DEF FreeWait
<1>27. ASSUME ~aborted, NEW p \in Proc, FreeDrained(p)
      PROVE  Reclaiming'
  <2>1. UNCHANGED <<ctxProc, ctxSt, rproc, pc, cur, aborted>>
    BY <1>27 DEF FreeDrained
  <2>2. UNCHANGED objs
    BY <1>27 DEF FreeDrained
  <2>3. \A q \in Proc : Holding(q)' = Holding(q) /\ Spawned(q)' = Spawned(q)
    BY <2>1, <2>2, HoldingKept, SpawnedKept
  <2>4. ASSUME NEW q \in Proc, q # p PROVE Reclaims(q)'
    <3>1. /\ fpc'[q] = fpc[q] /\ pending'[q] = pending[q] /\ lkProc'[q] = lkProc[q]
          /\ q \in present' <=> q \in present
      BY <1>27, <2>4 DEF FreeDrained, ProcDestroy
    <3>2. Reclaimers(q)' = Reclaimers(q)
      BY <2>1, <3>1 DEF Reclaimers
    <3>3. Reclaims(q)
      BY DEF Reclaiming
    <3> HIDE DEF Typed, Control, IInv
    <3> QED
      BY <2>1, <2>3, <3>1, <3>2, <3>3, ReclaimsKept
  <2>5. Reclaims(p) /\ Reclaimers(p) \ {p} \subseteq Thread
    BY DEF Reclaiming, Reclaimers
  <2>6. Reclaims(p)'
    <3>1. /\ fpc[p] = "drain" /\ fpc'[p] = "decide" /\ UNCHANGED <<pending, present, lkProc>>
          /\ active[p] = 0
      BY <1>27 DEF FreeDrained, Drained
    <3>2. Reclaimers(p)' = Reclaimers(p) /\ Spawned(p) = {}
      BY <2>1, <3>1, CountZero DEF Reclaimers
    <3> QED
      BY <2>1, <2>3, <2>5, <3>1, <3>2 DEF Reclaims
  <2> QED
    BY <2>4, <2>6 DEF Reclaiming
<1>28. ASSUME ~aborted, NEW p \in Proc, FreeDecide(p)
      PROVE  Reclaiming'
  <2>1. UNCHANGED <<ctxProc, ctxSt, rproc, pc, cur, aborted>>
    BY <1>28 DEF FreeDecide
  <2>2. UNCHANGED objs
    BY <1>28 DEF FreeDecide
  <2>3. \A q \in Proc : Holding(q)' = Holding(q) /\ Spawned(q)' = Spawned(q)
    BY <2>1, <2>2, HoldingKept, SpawnedKept
  <2>4. ASSUME NEW q \in Proc, q # p PROVE Reclaims(q)'
    <3>1. /\ fpc'[q] = fpc[q] /\ pending'[q] = pending[q] /\ lkProc'[q] = lkProc[q]
          /\ q \in present' <=> q \in present
      BY <1>28, <2>4 DEF FreeDecide, ProcDestroy
    <3>2. Reclaimers(q)' = Reclaimers(q)
      BY <2>1, <3>1 DEF Reclaimers
    <3>3. Reclaims(q)
      BY DEF Reclaiming
    <3> HIDE DEF Typed, Control, IInv
    <3> QED
      BY <2>1, <2>3, <3>1, <3>2, <3>3, ReclaimsKept
  <2>5. Reclaims(p) /\ Reclaimers(p) \ {p} \subseteq Thread
    BY DEF Reclaiming, Reclaimers
  <2>6. Reclaims(p)'
    <3>1. /\ fpc[p] = "decide" /\ ~lkProc'[p] /\ ~aborted /\ UNCHANGED present
      BY <1>28 DEF FreeDecide
    <3>2. Reclaimers(p) = {}
      BY <2>5, <3>1, ConstAssumption DEF Reclaims, Reclaimers, ConstAssumption
    <3>3. CASE MustDefer(p)
      <4>1. fpc'[p] = "deferred" /\ pending'[p]
        BY <1>28, <3>3 DEF FreeDecide
      <4>3. Holding(p) # {}
        <5>1. attached[p] > 0 /\ attached[p] \in Int
          BY <3>3 DEF MustDefer
        <5>2. attached[p] = 0 <=> Holding(p) = {}
          BY CountZero
        <5> QED
          BY <5>1, <5>2
      <4>2. Reclaimers(p)' = {}
        BY <2>1, <3>2, <4>1 DEF Reclaimers
      <4> QED
        BY <2>1, <2>3, <2>5, <3>1, <4>1, <4>2, <4>3 DEF Reclaims
    <3>4. CASE ~MustDefer(p)
      <4>1. fpc'[p] = "destroy" /\ ~pending'[p] /\ Holding(p) = {}
        <5>1. attached[p] \in Int /\ attached[p] >= 0 /\ ~(attached[p] > 0)
          BY <3>4, CountZero DEF MustDefer
        <5>2. Holding(p) = {}
          BY <5>1, CountZero
        <5> QED
          BY <1>28, <2>5, <3>1, <3>4, <5>2 DEF FreeDecide, Reclaims
      <4>2. Reclaimers(p)' = {p}
        BY <2>1, <3>2, <4>1 DEF Reclaimers
      <4>3. Spawned(p) = {}
        BY <2>5, <3>1, <4>1 DEF Reclaims
      <4> QED
        BY <2>1, <2>3, <2>5, <3>1, <4>1, <4>2, <4>3 DEF Reclaims
    <3> QED
      BY <3>3, <3>4
  <2> QED
    BY <2>4, <2>6 DEF Reclaiming
<1>29. ASSUME ~aborted, NEW p \in Proc, FreeDestroy(p)
      PROVE  Reclaiming'
  <2>1. UNCHANGED <<ctxProc, ctxSt, rproc, pc, cur, aborted>>
    BY <1>29 DEF FreeDestroy
  <2>2. UNCHANGED objs
    BY <1>29, NoneListed DEF FreeDestroy, ProcDestroy
  <2>3. \A q \in Proc : Holding(q)' = Holding(q) /\ Spawned(q)' = Spawned(q)
    BY <2>1, <2>2, HoldingKept, SpawnedKept
  <2>4. ASSUME NEW q \in Proc, q # p PROVE Reclaims(q)'
    <3>1. /\ fpc'[q] = fpc[q] /\ pending'[q] = pending[q] /\ lkProc'[q] = lkProc[q]
          /\ q \in present' <=> q \in present
      BY <1>29, <2>4 DEF FreeDestroy, ProcDestroy
    <3>2. Reclaimers(q)' = Reclaimers(q)
      BY <2>1, <3>1 DEF Reclaimers
    <3>3. Reclaims(q)
      BY DEF Reclaiming
    <3> HIDE DEF Typed, Control, IInv
    <3> QED
      BY <2>1, <2>3, <3>1, <3>2, <3>3, ReclaimsKept
  <2>5. Reclaims(p) /\ Reclaimers(p) \ {p} \subseteq Thread
    BY DEF Reclaiming, Reclaimers
  <2>6. Reclaims(p)'
    <3>1. /\ fpc[p] = "destroy" /\ fpc'[p] = "done" /\ UNCHANGED <<pending, lkProc>>
          /\ p \notin present'
      BY <1>29 DEF FreeDestroy, ProcDestroy
    <3>2. Holding(p) = {} /\ Spawned(p) = {} /\ Reclaimers(p) \ {p} = {}
      BY <2>5, <3>1 DEF Reclaims
    <3>3. Reclaimers(p)' = {}
      BY <2>1, <2>5, <3>1, <3>2, ConstAssumption DEF Reclaimers, ConstAssumption
    <3> QED
      BY <2>1, <2>3, <2>5, <3>1, <3>2, <3>3 DEF Reclaims
  <2> QED
    BY <2>4, <2>6 DEF Reclaiming
<1>30. ASSUME ~aborted, NEW p \in Proc, SpuriousWake(p)
      PROVE  Reclaiming'
  BY <1>30, ReclaimingKept DEF SpuriousWake
<1>31. CASE UNCHANGED vars
  BY <1>31, ReclaimingKept DEF vars
<1> QED
  BY <1>1, <1>2, <1>3, <1>4, <1>5, <1>6, <1>7, <1>8, <1>9, <1>10, <1>11,
     <1>12, <1>13, <1>14, <1>15, <1>16, <1>17, <1>18, <1>19, <1>20, <1>21,
     <1>22, <1>23, <1>24, <1>25, <1>26, <1>27, <1>28, <1>29, <1>30, <1>31
     DEF Next, AttachStep, DetachStep, ExitStep, SpawnStep, LeaveStep, FreeStep

-----------------------------------------------------------------------------
(* Who sleeps on cond_threads.                                              *)

\* A step that wakes nobody, puts nobody to sleep and moves no sleeper.
LEMMA WaitsKept ==
    ASSUME NEW p \in Proc, Waits(p), waiters'[p] \subseteq waiters[p],
           waiters'[p] # {} => Spawned(p)' # {},
           p \in waiters'[p] => fpc'[p] = fpc[p],
           \A u \in Thread \cap waiters'[p] : pc[u] = "drain" =>
               pc'[u] = "drain" /\ cur'[u] = cur[u] /\ ctxProc'[cur[u]] = ctxProc[cur[u]]
    PROVE  Waits(p)'
BY DEF Waits

\* The same for every process.
LEMMA WaitingKept ==
    ASSUME Waiting, UNCHANGED <<waiters, fpc, ctxProc, rproc, objs>>,
           \A u \in Thread : pc[u] = "drain" => pc'[u] = "drain" /\ cur'[u] = cur[u]
    PROVE  Waiting'
<1>1. ASSUME NEW p \in Proc PROVE Waits(p)'
  <2>1. Spawned(p)' = Spawned(p) /\ Waits(p)
    BY SpawnedKept DEF Waiting
  <2> QED
    BY <2>1, WaitsKept DEF Waits
<1> QED
  BY <1>1 DEF Waiting

\* One waiter at most: pthread_cond_signal is as good as a broadcast.
LEMMA OneWaiter ==
    ASSUME Reclaiming, Waiting, NEW p \in Proc, NEW v \in waiters[p], NEW w \in waiters[p]
    PROVE  v = w
<1>1. Reclaims(p) /\ Waits(p)
  BY DEF Reclaiming, Waiting
<1>2. ASSUME NEW x \in waiters[p], x \in Thread
      PROVE  x \in Reclaimers(p) /\ fpc[p] = "deferred"
  <2>1. x # p /\ pc[x] = "drain" /\ ctxProc[cur[x]] = p
    BY <1>1, <1>2, ConstAssumption DEF Waits, ConstAssumption, Thread
  <2>2. x \in Reclaimers(p) \ {p}
    BY <1>2, <2>1 DEF Reclaimers
  <2> QED
    BY <1>1, <2>2 DEF Reclaims
<1>3. CASE v \in Thread /\ w \in Thread
  BY <1>1, <1>2, <1>3 DEF Reclaims
<1>4. CASE v \notin Thread
  BY <1>1, <1>2, <1>4 DEF Waits
<1>5. CASE w \notin Thread
  BY <1>1, <1>2, <1>5 DEF Waits
<1> QED
  BY <1>3, <1>4, <1>5

\* So a signal empties the queue of the condition variable.
LEMMA SignalEmpties ==
    ASSUME Typed, Reclaiming, Waiting, NEW p \in Proc, Signal(p)
    PROVE  waiters'[p] = {} /\ \A q \in Proc \ {p} : waiters'[q] = waiters[q]
<1>1. waiters \in [Proc -> SUBSET (Thread \cup Proc)]
  BY DEF Typed
<1>2. CASE waiters[p] = {}
  BY <1>2 DEF Signal
<1>3. CASE waiters[p] # {}
  <2>1. PICK w \in waiters[p] : waiters' = [waiters EXCEPT ![p] = waiters[p] \ {w}]
    BY <1>3 DEF Signal
  <2>2. waiters[p] \ {w} = {}
    BY OneWaiter
  <2> QED
    BY <1>1, <2>1, <2>2
<1> QED
  BY <1>2, <1>3

\* Every step keeps the sleeper on cond_threads the one who frees the process,
\* and wakes it when the last runtime thread leaves.
LEMMA WaitingStep ==
    ASSUME IInv, ~CallbackAttach, ~LateCalls, [Next]_vars
    PROVE  Waiting'
<1> USE DEF IInv, Typed, Control, procVars, ctxVars, tlsVars, Goto, AttachPC, DetachPC, Thread,
            HostCode
<1>1. ASSUME NEW t \in Thread, NEW p \in Proc, NEW c \in Ctx, Enter(t, p, c)
      PROVE  Waiting'
  <2>1. \A u \in Thread : pc[u] = "drain" => cur[u] # c /\ cur[u] \in Ctx /\ u # t
    BY <1>1, UnusedFree, CurFacts DEF Enter
  <2>2. \A u \in Thread : pc[u] = "drain" =>
          pc'[u] = "drain" /\ cur'[u] = cur[u] /\ ctxProc'[cur[u]] = ctxProc[cur[u]]
    BY <1>1, <2>1 DEF Enter
  <2>3. UNCHANGED <<waiters, fpc, rproc, objs>>
    BY <1>1 DEF Enter
  <2>4. ASSUME NEW q \in Proc PROVE Waits(q)'
    <3>1. Spawned(q)' = Spawned(q) /\ Waits(q)
      BY <2>3, SpawnedKept DEF Waiting
    <3> QED
      BY <2>2, <2>3, <3>1, WaitsKept DEF Waits
  <2> QED
    BY <2>4 DEF Waiting
<1>2. ASSUME NEW t \in Thread, LockClone(t)
      PROVE  Waiting'
  BY <1>2, WaitingKept DEF LockClone
<1>3. ASSUME NEW t \in Thread, CloneRun(t)
      PROVE  Waiting'
  BY <1>3, WaitingKept DEF CloneRun
<1>4. ASSUME NEW t \in Thread, CloneFail(t)
      PROVE  Waiting'
  BY <1>4, Labels, WaitingKept DEF CloneFail
<1>5. ASSUME NEW t \in Thread, AttachCtx(t)
      PROVE  Waiting'
  BY <1>5, Labels, WaitingKept DEF AttachCtx
<1>6. ASSUME NEW t \in Thread, AttachFail(t)
      PROVE  Waiting'
  BY <1>6, Labels, WaitingKept DEF AttachFail
<1>7. ASSUME NEW t \in Thread, NEW p \in Proc, Detach(t, p)
      PROVE  Waiting'
  BY <1>7, WaitingKept DEF Detach
<1>8. ASSUME NEW t \in Thread, ThreadDestroy(t)
      PROVE  Waiting'
  BY <1>8, WaitingKept DEF ThreadDestroy
<1>9. ASSUME NEW t \in Thread, Decrement(t)
      PROVE  Waiting'
  <2>1. pc[t] = "detached" /\ UNCHANGED <<waiters, fpc, ctxProc, rproc, objs>>
    BY <1>9 DEF Decrement
  <2>2. /\ \E l \in {"walk", "exiting", "host", "sandbox", "drain"} : pc' = [pc EXCEPT ![t] = l]
        /\ cur' = cur \/ cur' = [cur EXCEPT ![t] = None]
    BY <1>9, DetachEffect
  <2>3. \A u \in Thread \ {t} : pc'[u] = pc[u] /\ cur'[u] = cur[u]
    BY <2>2
  <2> QED
    BY <2>1, <2>3, WaitingKept
<1>10. ASSUME NEW t \in Thread, DrainWait(t)
      PROVE  Waiting'
  <2>1. PICK p \in Proc : p = ctxProc[cur[t]]
    BY <1>10, CurFacts DEF DrainWait
  <2>2. /\ pc[t] = "drain" /\ waiters' = [waiters EXCEPT ![p] = @ \cup {t}] /\ active[p] # 0
        /\ UNCHANGED <<fpc, ctxProc, rproc, objs, pc, cur>>
    BY <1>10, <2>1 DEF DrainWait, Drained
  <2>3. \A q \in Proc : Spawned(q)' = Spawned(q)
    BY <2>2, SpawnedKept
  <2>4. Waits(p)'
    <3>1. Waits(p) /\ Spawned(p) # {}
      BY <2>2, CountZero DEF Waiting
    <3>2. waiters'[p] = waiters[p] \cup {t}
      BY <2>2
    <3> QED
      BY <2>1, <2>2, <2>3, <3>1, <3>2 DEF Waits
  <2>5. ASSUME NEW q \in Proc, q # p PROVE Waits(q)'
    <3>1. Waits(q) /\ waiters'[q] = waiters[q]
      BY <2>2, <2>5 DEF Waiting
    <3> QED
      BY <2>2, <2>3, <3>1, WaitsKept DEF Waits
  <2> QED
    BY <2>4, <2>5 DEF Waiting
<1>11. ASSUME NEW t \in Thread, DrainDone(t)
      PROVE  Waiting'
  <2>1. PICK p \in Proc : p = ctxProc[cur[t]]
    BY <1>11, CurFacts DEF DrainDone
  <2>2. /\ t \notin waiters[p] /\ pc' = [pc EXCEPT ![t] = "destroy"]
        /\ UNCHANGED <<waiters, fpc, ctxProc, rproc, objs, cur>>
    BY <1>11, <2>1 DEF DrainDone
  <2>3. ASSUME NEW q \in Proc PROVE Waits(q)'
    <3>1. Waits(q) /\ Spawned(q)' = Spawned(q)
      BY <2>2, SpawnedKept DEF Waiting
    <3>2. t \notin waiters[q]
      BY <2>1, <2>2, <3>1, ConstAssumption DEF Waits, ConstAssumption
    <3>3. \A u \in Thread \cap waiters[q] : pc'[u] = pc[u]
      BY <2>2, <3>2
    <3> QED
      BY <2>2, <3>1, <3>3, WaitsKept DEF Waits
  <2> QED
    BY <2>3 DEF Waiting
<1>12. ASSUME NEW t \in Thread, LastDetachDestroy(t)
      PROVE  Waiting'
  <2>1. PICK p \in Proc : p = ctxProc[cur[t]]
    BY <1>12, CurFacts DEF LastDetachDestroy
  <2>2. pc[t] = "destroy" /\ UNCHANGED <<waiters, fpc, ctxProc, rproc>>
    BY <1>12 DEF LastDetachDestroy
  <2>3. UNCHANGED objs
    BY <1>12, <2>1, NoneListed DEF LastDetachDestroy, ProcDestroy
  <2>4. /\ \E l \in {"walk", "exiting", "host", "sandbox", "drain"} : pc' = [pc EXCEPT ![t] = l]
        /\ cur' = cur \/ cur' = [cur EXCEPT ![t] = None]
    BY <1>12, DetachEffect
  <2>5. \A u \in Thread \ {t} : pc'[u] = pc[u] /\ cur'[u] = cur[u]
    BY <2>4
  <2> QED
    BY <2>2, <2>3, <2>5, WaitingKept
<1>13. ASSUME NEW t \in Thread, HostReturn(t)
      PROVE  Waiting'
  BY <1>13, WaitingKept DEF HostReturn
<1>14. ASSUME NEW t \in Thread, StartDestructor(t)
      PROVE  Waiting'
  BY <1>14, WaitingKept DEF StartDestructor
<1>15. ASSUME NEW t \in Thread, WalkNext(t)
      PROVE  Waiting'
  BY <1>15, WaitingKept DEF WalkNext
<1>16. ASSUME NEW t \in Thread, WalkEnd(t)
      PROVE  Waiting'
  BY <1>16, WaitingKept DEF WalkEnd
<1>17. ASSUME NEW t \in Thread, ThreadDone(t)
      PROVE  Waiting'
  BY <1>17, WaitingKept DEF ThreadDone
<1>18. ASSUME NEW t \in Thread, NEW p \in Proc, NEW r \in Runtime, SpawnAdd(t, p, r)
      PROVE  Waiting'
  <2>1. /\ pc[t] \in {"host", "sandbox"} /\ pc[r] = "none" /\ r \notin objs
        /\ pc' = [pc EXCEPT ![t] = "spawn", ![r] = "starting"]
        /\ objs' = objs \cup {r} /\ rproc' = [rproc EXCEPT ![r] = p]
        /\ UNCHANGED <<ctxProc, cur, fpc, waiters>>
    BY <1>18 DEF SpawnAdd, InSandbox
  <2>2. Spawned(p)' = Spawned(p) \cup {r} /\ \A q \in Proc \ {p} : Spawned(q)' = Spawned(q)
    BY <2>1, SpawnedOpened
  <2>3. \A u \in Thread : pc[u] = "drain" => pc'[u] = pc[u]
    BY <2>1
  <2>4. ASSUME NEW q \in Proc PROVE Waits(q)'
    <3>0. Waits(q)
      BY DEF Waiting
    <3>1. Waits(q) /\ Spawned(q) \subseteq Spawned(q)'
      <4> HIDE DEF Typed, Control, IInv
      <4> QED
        BY <2>2, <3>0
    <3>2. \A u \in Thread : pc[u] = "drain" =>
            pc'[u] = "drain" /\ cur'[u] = cur[u] /\ ctxProc'[cur[u]] = ctxProc[cur[u]]
      BY <2>1, <2>3
    <3> HIDE DEF Typed, Control, IInv
    <3>3. Waits(q) /\ waiters'[q] = waiters[q] /\ fpc'[q] = fpc[q]
          /\ (waiters[q] # {} => Spawned(q)' # {})
      BY <2>1, <3>1 DEF Waits
    <3> QED
      BY <3>2, <3>3, WaitsKept
  <2> QED
    BY <2>4 DEF Waiting
<1>19. ASSUME NEW t \in Thread, SpawnOk(t)
      PROVE  Waiting'
  <2>1. pc[t] = "spawn" /\ child[t] \in Runtime /\ pc[child[t]] = "starting"
    BY <1>19 DEF SpawnOk, Spawning
  <2>2. pc' = [pc EXCEPT ![t] = Home(t), ![child[t]] = "sandbox"]
    BY <1>19 DEF SpawnOk
  <2>3. \A u \in Thread : pc[u] = "drain" => pc'[u] = pc[u]
    BY <2>1, <2>2
  <2> QED
    BY <1>19, <2>3, WaitingKept DEF SpawnOk
<1>20. ASSUME NEW t \in Thread, SpawnFail(t)
      PROVE  Waiting'
  <2>1. PICK r \in Runtime, p \in Proc : r = child[t] /\ r \in objs /\ p = rproc[r]
    BY <1>20, SpawnObj DEF SpawnFail
  <2>2. /\ Signal(p) /\ objs' = objs \ {r} /\ UNCHANGED <<ctxProc, rproc, cur, fpc>>
    BY <1>20, <2>1 DEF SpawnFail
  <2>3. waiters'[p] = {} /\ \A q \in Proc \ {p} : waiters'[q] = waiters[q]
    BY <2>2, SignalEmpties
  <2>4. \A u \in Thread : pc[u] = "drain" => pc'[u] = pc[u]
    <3>1. pc[t] = "spawn" /\ pc[child[t]] = "starting"
      BY <1>20 DEF SpawnFail, Spawning
    <3>2. pc' = [pc EXCEPT ![t] = Home(t), ![child[t]] = "done"]
      BY <1>20 DEF SpawnFail
    <3> QED
      BY <3>1, <3>2
  <2>5. \A q \in Proc \ {p} : Spawned(q)' = Spawned(q)
    BY <2>1, <2>2, SpawnedClosed
  <2>6. Waits(p)'
    BY <2>3 DEF Waits
  <2>7. ASSUME NEW q \in Proc, q # p PROVE Waits(q)'
    <3>1. Waits(q) /\ waiters'[q] = waiters[q] /\ Spawned(q)' = Spawned(q)
      BY <2>3, <2>5, <2>7 DEF Waiting
    <3> QED
      BY <2>2, <2>4, <3>1, WaitsKept DEF Waits
  <2> QED
    BY <2>6, <2>7 DEF Waiting
<1>21. ASSUME NEW r \in Runtime, ThreadExit(r)
      PROVE  Waiting'
  BY <1>21, WaitingKept DEF ThreadExit
<1>22. ASSUME NEW r \in Runtime, ThreadPause(r)
      PROVE  Waiting'
  BY <1>22, WaitingKept DEF ThreadPause
<1>23. ASSUME NEW r \in Runtime, ThreadLeave(r)
      PROVE  Waiting'
  <2>1. PICK p \in Proc : r \in objs /\ p = rproc[r]
    BY <1>23 DEF ThreadLeave
  <2>2. /\ Signal(p) /\ objs' = objs \ {r} /\ UNCHANGED <<ctxProc, rproc, cur, fpc>>
    BY <1>23, <2>1 DEF ThreadLeave
  <2>3. waiters'[p] = {} /\ \A q \in Proc \ {p} : waiters'[q] = waiters[q]
    BY <2>2, SignalEmpties
  <2>4. \A u \in Thread : pc[u] = "drain" => pc'[u] = pc[u]
    BY <1>23 DEF ThreadLeave
  <2>5. \A q \in Proc \ {p} : Spawned(q)' = Spawned(q)
    BY <2>1, <2>2, SpawnedClosed
  <2>6. Waits(p)'
    BY <2>3 DEF Waits
  <2>7. ASSUME NEW q \in Proc, q # p PROVE Waits(q)'
    <3>1. Waits(q) /\ waiters'[q] = waiters[q] /\ Spawned(q)' = Spawned(q)
      BY <2>3, <2>5, <2>7 DEF Waiting
    <3> QED
      BY <2>2, <2>4, <3>1, WaitsKept DEF Waits
  <2> QED
    BY <2>6, <2>7 DEF Waiting
<1>24. ASSUME NEW t \in Thread, NEW p \in Proc, HostExitGroup(t, p)
      PROVE  Waiting'
  BY <1>24, WaitingKept DEF HostExitGroup
<1>25. ASSUME NEW p \in Proc, FreeCall(p)
      PROVE  Waiting'
  <2>1. UNCHANGED <<ctxProc, rproc, pc, cur>>
    BY <1>25 DEF FreeCall
  <2>2. UNCHANGED objs
    BY <1>25 DEF FreeCall
  <2>3. \A q \in Proc : Spawned(q)' = Spawned(q)
    BY <2>1, <2>2, SpawnedKept
  <2>4. ASSUME NEW q \in Proc, q # p PROVE Waits(q)'
    <3>1. fpc'[q] = fpc[q] /\ waiters'[q] = waiters[q] /\ Waits(q)
      BY <1>25, <2>4 DEF FreeCall, Waiting
    <3> QED
      BY <2>1, <2>3, <3>1, WaitsKept DEF Waits
  <2>5. Waits(p)
    BY DEF Waiting
  <2>6. Waits(p)'
    <3>1. p \notin waiters[p] /\ UNCHANGED waiters
      BY <1>25, <2>5, ConstAssumption DEF FreeCall, Waits, ConstAssumption
    <3> QED
      BY <2>1, <2>3, <2>5, <3>1, WaitsKept DEF Waits
  <2> QED
    BY <2>4, <2>6 DEF Waiting
<1>26. ASSUME NEW p \in Proc, FreeWait(p)
      PROVE  Waiting'
  <2>1. UNCHANGED <<ctxProc, rproc, pc, cur>>
    BY <1>26 DEF FreeWait
  <2>2. UNCHANGED objs
    BY <1>26 DEF FreeWait
  <2>3. \A q \in Proc : Spawned(q)' = Spawned(q)
    BY <2>1, <2>2, SpawnedKept
  <2>4. ASSUME NEW q \in Proc, q # p PROVE Waits(q)'
    <3>1. fpc'[q] = fpc[q] /\ waiters'[q] = waiters[q] /\ Waits(q)
      BY <1>26, <2>4 DEF FreeWait, Waiting
    <3> QED
      BY <2>1, <2>3, <3>1, WaitsKept DEF Waits
  <2>5. Waits(p)
    BY DEF Waiting
  <2>6. Waits(p)'
    <3>1. /\ fpc[p] = "drain" /\ fpc'[p] = "drain"
          /\ waiters'[p] = waiters[p] \cup {p} /\ active[p] # 0
      BY <1>26 DEF FreeWait, Drained
    <3>2. Spawned(p) # {}
      BY <3>1, CountZero
    <3> QED
      BY <2>1, <2>3, <2>5, <3>1, <3>2 DEF Waits
  <2> QED
    BY <2>4, <2>6 DEF Waiting
<1>27. ASSUME NEW p \in Proc, FreeDrained(p)
      PROVE  Waiting'
  <2>1. UNCHANGED <<ctxProc, rproc, pc, cur>>
    BY <1>27 DEF FreeDrained
  <2>2. UNCHANGED objs
    BY <1>27 DEF FreeDrained
  <2>3. \A q \in Proc : Spawned(q)' = Spawned(q)
    BY <2>1, <2>2, SpawnedKept
  <2>4. ASSUME NEW q \in Proc, q # p PROVE Waits(q)'
    <3>1. fpc'[q] = fpc[q] /\ waiters'[q] = waiters[q] /\ Waits(q)
      BY <1>27, <2>4 DEF FreeDrained, Waiting
    <3> QED
      BY <2>1, <2>3, <3>1, WaitsKept DEF Waits
  <2>5. Waits(p)
    BY DEF Waiting
  <2>6. Waits(p)'
    <3>1. p \notin waiters[p] /\ UNCHANGED waiters
      BY <1>27, <2>5, ConstAssumption DEF FreeDrained, Waits, ConstAssumption
    <3> QED
      BY <2>1, <2>3, <2>5, <3>1, WaitsKept DEF Waits
  <2> QED
    BY <2>4, <2>6 DEF Waiting
<1>28. ASSUME NEW p \in Proc, FreeDecide(p)
      PROVE  Waiting'
  <2>1. UNCHANGED <<ctxProc, rproc, pc, cur>>
    BY <1>28 DEF FreeDecide
  <2>2. UNCHANGED objs
    BY <1>28 DEF FreeDecide
  <2>3. \A q \in Proc : Spawned(q)' = Spawned(q)
    BY <2>1, <2>2, SpawnedKept
  <2>4. ASSUME NEW q \in Proc, q # p PROVE Waits(q)'
    <3>1. fpc'[q] = fpc[q] /\ waiters'[q] = waiters[q] /\ Waits(q)
      BY <1>28, <2>4 DEF FreeDecide, Waiting
    <3> QED
      BY <2>1, <2>3, <3>1, WaitsKept DEF Waits
  <2>5. Waits(p)
    BY DEF Waiting
  <2>6. Waits(p)'
    <3>1. p \notin waiters[p] /\ UNCHANGED waiters
      BY <1>28, <2>5, ConstAssumption DEF FreeDecide, Waits, ConstAssumption
    <3> QED
      BY <2>1, <2>3, <2>5, <3>1, WaitsKept DEF Waits
  <2> QED
    BY <2>4, <2>6 DEF Waiting
<1>29. ASSUME NEW p \in Proc, FreeDestroy(p)
      PROVE  Waiting'
  <2>1. UNCHANGED <<ctxProc, rproc, pc, cur>>
    BY <1>29 DEF FreeDestroy
  <2>2. UNCHANGED objs
    BY <1>29, NoneListed DEF FreeDestroy, ProcDestroy
  <2>3. \A q \in Proc : Spawned(q)' = Spawned(q)
    BY <2>1, <2>2, SpawnedKept
  <2>4. ASSUME NEW q \in Proc, q # p PROVE Waits(q)'
    <3>1. fpc'[q] = fpc[q] /\ waiters'[q] = waiters[q] /\ Waits(q)
      BY <1>29, <2>4 DEF FreeDestroy, Waiting
    <3> QED
      BY <2>1, <2>3, <3>1, WaitsKept DEF Waits
  <2>5. Waits(p)
    BY DEF Waiting
  <2>6. Waits(p)'
    <3>1. p \notin waiters[p] /\ UNCHANGED waiters
      BY <1>29, <2>5, ConstAssumption DEF FreeDestroy, Waits, ConstAssumption
    <3> QED
      BY <2>1, <2>3, <2>5, <3>1, WaitsKept DEF Waits
  <2> QED
    BY <2>4, <2>6 DEF Waiting
<1>30. ASSUME NEW p \in Proc, SpuriousWake(p)
      PROVE  Waiting'
  <2>1. UNCHANGED <<ctxProc, rproc, pc, cur>>
    BY <1>30 DEF SpuriousWake
  <2>2. UNCHANGED objs
    BY <1>30 DEF SpuriousWake
  <2>3. \A q \in Proc : Spawned(q)' = Spawned(q)
    BY <2>1, <2>2, SpawnedKept
  <2>4. ASSUME NEW q \in Proc, q # p PROVE Waits(q)'
    <3>1. fpc'[q] = fpc[q] /\ waiters'[q] = waiters[q] /\ Waits(q)
      BY <1>30, <2>4 DEF SpuriousWake, Waiting
    <3> QED
      BY <2>1, <2>3, <3>1, WaitsKept DEF Waits
  <2>5. Waits(p)
    BY DEF Waiting
  <2>6. Waits(p)'
    <3>1. waiters'[p] \subseteq waiters[p] /\ fpc'[p] = fpc[p]
      BY <1>30 DEF SpuriousWake
    <3> QED
      BY <2>1, <2>3, <2>5, <3>1, WaitsKept DEF Waits
  <2> QED
    BY <2>4, <2>6 DEF Waiting
<1>31. CASE UNCHANGED vars
  BY <1>31, WaitingKept DEF vars
<1> QED
  BY <1>1, <1>2, <1>3, <1>4, <1>5, <1>6, <1>7, <1>8, <1>9, <1>10, <1>11,
     <1>12, <1>13, <1>14, <1>15, <1>16, <1>17, <1>18, <1>19, <1>20, <1>21,
     <1>22, <1>23, <1>24, <1>25, <1>26, <1>27, <1>28, <1>29, <1>30, <1>31
     DEF Next, AttachStep, DetachStep, ExitStep, SpawnStep, LeaveStep, FreeStep

-----------------------------------------------------------------------------
(* The invariant.                                                           *)

\* The initial state satisfies the inductive invariant.
LEMMA InvInit == ASSUME Init PROVE IInv
<1>1. Typed
  BY TypedInit
<1>2. Nodes(<<>>) = {} /\ Distinct(<<>>)
  BY DEF Nodes, Distinct
<1>3. \A t \in Thread : /\ cur[t] = None /\ list[t] = <<>> /\ walk[t] = <<>>
                        /\ ~keySet[t] /\ ~armed[t]
                        /\ pc[t] = IF t \in Host THEN "host" ELSE "none"
  BY DEF Init
<1>4. /\ \A c \in Ctx : ctxSt[c] = "unused" /\ ctxProc[c] = None
      /\ leaving = {} /\ objs = {}
  BY DEF Init
<1>5. \A r \in Runtime : r \notin Host /\ r \in Thread
  BY ConstAssumption DEF ConstAssumption, Thread
<1>6. Control
  BY <1>3, <1>4, <1>5 DEF Control, AttachPC, DetachPC, Thread
<1>7. Ownership
  <2>1. \A t \in Thread : Owned(t) = {}
    BY <1>2, <1>3 DEF Owned
  <2>2. \A t \in Thread : Holds(t)
    BY <1>2, <1>3, <2>1 DEF Holds
  <2> QED
    BY <1>4, <2>1, <2>2 DEF Ownership, Known, Apart
<1>8. \A p \in Proc : Holding(p) = {} /\ Spawned(p) = {} /\ Reclaimers(p) = {}
  <2>1. \A t \in Thread : pc[t] \notin {"drain", "destroy"}
    BY <1>3
  <2>2. \A p \in Proc : fpc[p] = "idle"
    BY DEF Init
  <2> QED
    BY <1>4, <2>1, <2>2 DEF Holding, Spawned, Reclaimers
<1>9. Counting
  BY <1>8, FS_EmptySet DEF Counting, Init
<1>10. Spawning /\ CloneLocked
  BY <1>3 DEF Spawning, CloneLocked
<1>11. Reclaiming
  BY <1>8 DEF Reclaiming, Reclaims, Init
<1>12. Waiting
  BY DEF Waiting, Waits, Init
<1> QED
  BY <1>1, <1>6, <1>7, <1>9, <1>10, <1>11, <1>12 DEF IInv

\* Every step of an embedder that keeps to its side preserves it.
LEMMA InvStep ==
    ASSUME IInv, ~CallbackAttach, ~LateCalls, [Next]_vars
    PROVE  IInv'
BY TypedStep, ControlStep, OwnershipStep, CountingStep, SpawningStep, CloneLockedStep,
   ReclaimingStep, WaitingStep DEF IInv

\* The inductive invariant holds throughout: threads, contexts, counters and the
\* pending_free flag agree, whatever the number of each.
THEOREM Invariance == ASSUME ~CallbackAttach, ~LateCalls PROVE Spec => []IInv
<1>1. Init => IInv
  BY InvInit
<1>2. IInv /\ [Next]_vars => IInv'
  BY InvStep
<1> QED
  BY <1>1, <1>2, PTL DEF Spec

-----------------------------------------------------------------------------
(* What the inductive invariant gives: the safety properties, for any      *)
(* number of processes, threads and contexts, and that ProcLifecycle       *)
(* implements DeferredFree.                                                *)

\* Types hold, and the counters attached_threads and active_threads never go
\* below zero: every decrement pairs with one increment.
THEOREM TypeCorrect == ASSUME ~CallbackAttach, ~LateCalls PROVE Spec => []TypeOK
<1>1. IInv => TypeOK
  <2> SUFFICES ASSUME IInv PROVE TypeOK
    OBVIOUS
  <2>1. \A p \in Proc : attached[p] \in Nat /\ active[p] \in Nat
    BY CountZero DEF IInv, Typed
  <2>2. attached \in [Proc -> Nat] /\ active \in [Proc -> Nat]
    BY <2>1 DEF IInv, Typed
  <2> QED
    BY <2>2 DEF IInv, Typed, TypeOK
<1> QED
  BY <1>1, Invariance, PTL

\* clone_ctx is used by one lfi_linux_clone_cb at a time: lk_clone is held.
THEOREM CloneMutex == ASSUME ~CallbackAttach, ~LateCalls PROVE Spec => []CloneExclusive
<1>1. IInv => CloneExclusive
  BY DEF IInv, CloneLocked, CloneExclusive
<1> QED
  BY <1>1, Invariance, PTL

\* No sleeper is left on cond_threads when the last runtime thread is gone.
THEOREM NoSleeper == ASSUME ~CallbackAttach, ~LateCalls PROVE Spec => []NoLostWakeup
<1>1. IInv => NoLostWakeup
  BY CountZero DEF IInv, Waiting, Waits, NoLostWakeup
<1> QED
  BY <1>1, Invariance, PTL

\* The embedder's code meets a cleanup list of allocated nodes of live contexts.
THEOREM ListsSound == ASSUME ~CallbackAttach, ~LateCalls PROVE Spec => []ListSound
<1>1. ASSUME ~CallbackAttach, ~LateCalls, IInv PROVE ListSound
  <2>1. SUFFICES ASSUME NEW t \in Thread, HostCode(t), NEW i \in DOMAIN list[t]
                 PROVE  list[t][i] \in nodes /\ ctxSt[list[t][i]] = "live"
    BY DEF ListSound
  <2>2. t \notin leaving
    BY <1>1, <2>1 DEF HostCode, IInv, Control, DetachPC
  <2>3. list[t][i] \in Nodes(list[t])
    BY DEF Nodes
  <2> QED
    BY <1>1, <2>2, <2>3 DEF IInv, Ownership, Holds
<1> QED
  BY <1>1, Invariance, PTL

\* Whatever works on a context of p finds p there, and every runtime thread that
\* has not left has its LFILinuxThread.
LEMMA UserPresent ==
    ASSUME IInv, NEW t \in Thread, NEW p \in Proc, Uses(t, p)
    PROVE  p \in present
<1>1. Holding(p) \cup Spawned(p) # {} => p \in present
  BY DEF IInv, Reclaiming, Reclaims
<1>2. CASE pc[t] \in AttachPC \cup DetachPC /\ ctxProc[cur[t]] = p
  <2>1. cur[t] \in Ctx /\ ctxSt[cur[t]] = StateAt(pc[t])
    BY <1>2, CurFacts DEF IInv
  <2>2. CASE pc[t] \in {"drain", "destroy"}
    <3>1. t \in Reclaimers(p) \ {p}
      BY <1>2, <2>2, ConstAssumption DEF Reclaimers, ConstAssumption, Thread
    <3> QED
      BY <3>1 DEF IInv, Reclaiming, Reclaims
  <2>3. CASE pc[t] \notin {"drain", "destroy"}
    <3>1. StateAt(pc[t]) \in {"creating", "live", "freed"}
      BY <1>2, <2>3 DEF StateAt, AttachPC, DetachPC
    <3> QED
      BY <1>1, <1>2, <2>1, <3>1 DEF Holding
  <2> QED
    BY <2>2, <2>3
<1>3. CASE pc[t] = "spawn" /\ rproc[child[t]] = p
  <2>1. child[t] \in Spawned(p)
    BY <1>3, SpawnObj DEF IInv, Spawned
  <2> QED
    BY <1>1, <2>1
<1>4. CASE t \in Runtime \ leaving /\ pc[t] \notin {"none", "done"} /\ rproc[t] = p
  <2>1. t \in Spawned(p)
    BY <1>4 DEF IInv, Control, Spawned
  <2> QED
    BY <1>1, <2>1
<1>5. CASE \E i \in DOMAIN walk[t] : ctxProc[walk[t][i]] = p
  <2>1. PICK c \in Nodes(walk[t]) : ctxProc[c] = p
    BY <1>5 DEF Nodes
  <2>2. c \in Ctx
    BY <2>1, OwnedCtx DEF IInv
  <2>3. CASE c # cur[t]
    <3>1. ctxSt[c] = "live"
      BY <2>1, <2>3 DEF IInv, Ownership, Holds
    <3> QED
      BY <1>1, <2>1, <2>2, <3>1 DEF Holding
  <2>4. CASE c = cur[t]
    <3>1. cur[t] # None
      BY <2>2, <2>4, OwnedCtx DEF IInv
    <3>2. pc[t] \in AttachPC \cup DetachPC
      BY <3>1 DEF IInv, Control
    <3> QED
      BY <1>2, <2>1, <2>4, <3>2
  <2> QED
    BY <2>3, <2>4
<1> QED
  BY <1>2, <1>3, <1>4, <1>5 DEF Uses, AttachPC, DetachPC

\* No thread and no lfi_proc_free touches a process proc_destroy has freed.
THEOREM NoUseAfterFree ==
    ASSUME ~CallbackAttach, ~LateCalls PROVE Spec => []NoUseAfterDestroy
<1>1. IInv => NoUseAfterDestroy
  <2> SUFFICES ASSUME IInv PROVE NoUseAfterDestroy
    OBVIOUS
  <2>1. \A t \in Thread, p \in Proc : Uses(t, p) => p \in present
    BY UserPresent
  <2>2. \A p \in Proc : fpc[p] \in {"drain", "decide", "destroy"} => p \in present
    BY DEF IInv, Reclaiming, Reclaims
  <2>3. \A r \in Runtime \ leaving : pc[r] \notin {"none", "done"} => r \in objs
    BY DEF IInv, Control
  <2> QED
    BY <2>1, <2>2, <2>3 DEF NoUseAfterDestroy
<1> QED
  BY <1>1, Invariance, PTL

\* A set all of whose elements are equal has at most one.
LEMMA AtMostOne ==
    ASSUME NEW S, \A x, y \in S : x = y
    PROVE  Cardinality(S) <= 1
<1>1. CASE S = {}
  BY <1>1, FS_EmptySet
<1>2. CASE S # {}
  <2>1. PICK x \in S : TRUE
    BY <1>2
  <2>2. S = {x}
    BY <2>1
  <2> QED
    BY <2>2, FS_Singleton
<1> QED
  BY <1>1, <1>2

\* proc_destroy is called at most once, and a deferred free is not forgotten:
\* the thread whose detach_ctx saw the counter reach zero carries it out.
THEOREM ExactlyOneReclaimer ==
    ASSUME ~CallbackAttach, ~LateCalls PROVE Spec => []OneReclaimer
<1>1. ASSUME IInv, NEW p \in Proc
      PROVE  /\ Cardinality(Reclaimers(p)) <= IF p \in present THEN 1 ELSE 0
             /\ pending[p] /\ attached[p] = 0 /\ p \in present /\ ~aborted
                    => Reclaimers(p) # {}
  <2>1. Reclaims(p)
    BY <1>1 DEF IInv, Reclaiming
  <2>2. Cardinality(Reclaimers(p)) <= 1
    BY <2>1, AtMostOne DEF Reclaims
  <2>3. ASSUME p \notin present PROVE Reclaimers(p) = {}
    <3>1. p \notin Thread
      BY ConstAssumption DEF ConstAssumption, Thread
    <3>2. \A t \in Reclaimers(p) : t = p
      BY <2>1, <2>3 DEF Reclaims
    <3>3. fpc[p] # "destroy"
      BY <2>1, <2>3 DEF Reclaims
    <3> QED
      BY <3>1, <3>2, <3>3 DEF Reclaimers
  <2>4. attached[p] = 0 <=> Holding(p) = {}
    BY <1>1, CountZero DEF IInv
  <2>5. CASE p \in present
    BY <2>1, <2>2, <2>4, <2>5 DEF Reclaims
  <2>6. CASE p \notin present
    BY <2>3, <2>6, FS_EmptySet
  <2> QED
    BY <2>5, <2>6
<1>2. IInv => OneReclaimer
  BY <1>1 DEF OneReclaimer
<1> QED
  BY <1>2, Invariance, PTL

\* Where and in which state of the process proc_destroy runs.
LEMMA DestroyStep ==
    ASSUME IInv, [Next]_vars, NEW p \in present, p \notin present'
    PROVE  Holding(p) = {} /\ Spawned(p) = {} /\ threads[p] = {} /\ p \in Proc
<1>0. p \in Proc
  BY DEF IInv, Typed
<1>1. CASE \E q \in Proc : FreeDestroy(q)
  <2>1. fpc[p] = "destroy"
    BY <1>1 DEF FreeDestroy, ProcDestroy
  <2> QED
    BY <1>0, <2>1, NoneListed DEF IInv, Reclaiming, Reclaims
<1>2. CASE \E t \in Thread : LastDetachDestroy(t)
  <2>1. PICK t \in Thread : LastDetachDestroy(t)
    BY <1>2
  <2>2. pc[t] = "destroy" /\ ctxProc[cur[t]] = p
    BY <2>1 DEF LastDetachDestroy, ProcDestroy
  <2>3. t \in Reclaimers(p) \ {p}
    BY <1>0, <2>2, ConstAssumption DEF Reclaimers, ConstAssumption, Thread
  <2> QED
    BY <1>0, <2>2, <2>3, NoneListed DEF IInv, Reclaiming, Reclaims
<1>3. CASE \E t \in Thread : AttachStep(t) \/ ThreadDestroy(t) \/ Decrement(t)
                              \/ DrainWait(t) \/ DrainDone(t) \/ ExitStep(t)
                              \/ SpawnStep(t)
  BY <1>3 DEF AttachStep, LockClone, CloneRun, CloneFail, AttachCtx, AttachFail,
              ThreadDestroy, Decrement, DrainWait, DrainDone, ExitStep, HostReturn,
              StartDestructor, WalkNext, WalkEnd, ThreadDone, SpawnStep, SpawnOk,
              SpawnFail, procVars
<1>4. CASE \E t \in Thread, q \in Proc : HostExitGroup(t, q) \/ Detach(t, q)
             \/ (\E c \in Ctx : Enter(t, q, c)) \/ (\E r \in Runtime : SpawnAdd(t, q, r))
  BY <1>4 DEF HostExitGroup, Detach, Enter, SpawnAdd, procVars
<1>5. CASE \E r \in Runtime : LeaveStep(r)
  BY <1>5 DEF LeaveStep, ThreadExit, ThreadPause, ThreadLeave, procVars
<1>6. CASE \E q \in Proc : FreeCall(q) \/ FreeWait(q) \/ FreeDrained(q)
                            \/ FreeDecide(q) \/ SpuriousWake(q)
  BY <1>6 DEF FreeCall, FreeWait, FreeDrained, FreeDecide, SpuriousWake
<1>7. CASE UNCHANGED vars
  BY <1>7 DEF vars, procVars
<1> QED
  BY <1>1, <1>2, <1>3, <1>4, <1>5, <1>6, <1>7 DEF Next, DetachStep, FreeStep

\* proc_destroy finds attached_threads and active_threads at zero and no thread
\* on the list it is about to free.
THEOREM DestroysQuiescent ==
    ASSUME ~CallbackAttach, ~LateCalls PROVE Spec => DestroyQuiescent
<1>1. ASSUME IInv, [Next]_vars
      PROVE  \A p \in present \ present' :
                attached[p] = 0 /\ active[p] = 0 /\ threads[p] = {}
  BY <1>1, DestroyStep, CountZero DEF IInv
<1> QED
  BY <1>1, Invariance, PTL DEF Spec, DestroyQuiescent
-----------------------------------------------------------------------------
(* Exiting threads.  IInv says nothing of the stale cleanup list of a       *)
(* thread whose destructor ran: Exits adds what became of its contexts.     *)

Exits(t) ==
    /\ list[t] # <<>> => armed[t]
    /\ keySet[t] => cleanup[t]
    /\ t \notin leaving /\ armed[t] => keySet[t]
    /\ t \in leaving /\ ~keySet[t] =>
         \A c \in Nodes(list[t]) : c \in Nodes(walk[t]) \/ ctxSt[c] = "released"
    /\ t \in Host /\ pc[t] = "done" => t \in leaving

\* A context whose attachment is over stays so.
LEMMA ReleasedStays ==
    ASSUME IInv, [Next]_vars, NEW c \in Ctx, ctxSt[c] = "released"
    PROVE  ctxSt'[c] = "released"
<1> USE DEF IInv, Typed
<1>1. CASE \E t \in Thread : CloneRun(t) \/ ThreadDestroy(t)
  <2>1. PICK t \in Thread : CloneRun(t) \/ ThreadDestroy(t)
    BY <1>1
  <2>2. pc[t] \in {"creating", "destroying"} /\ \E s \in CtxState :
            ctxSt' = [ctxSt EXCEPT ![cur[t]] = s]
    BY <2>1 DEF CloneRun, ThreadDestroy, CtxState
  <2>3. pc[t] \in AttachPC \cup DetachPC
    BY <2>2 DEF AttachPC, DetachPC
  <2>4. cur[t] \in Ctx /\ ctxSt[cur[t]] = StateAt(pc[t])
    BY <2>3, CurFacts
  <2>5. c # cur[t]
    BY <2>2, <2>4, States
  <2> QED
    BY <2>2, <2>4, <2>5
<1>2. CASE \E t \in Thread : CloneFail(t) \/ AttachFail(t) \/ Decrement(t)
  BY <1>2 DEF CloneFail, AttachFail, Decrement
<1>3. CASE \E t \in Thread : LockClone(t) \/ AttachCtx(t) \/ DrainWait(t) \/ DrainDone(t)
             \/ LastDetachDestroy(t) \/ ExitStep(t) \/ SpawnStep(t)
  BY <1>3 DEF LockClone, AttachCtx, DrainWait, DrainDone, LastDetachDestroy, ExitStep,
              HostReturn, StartDestructor, WalkNext, WalkEnd, ThreadDone, SpawnStep,
              SpawnOk, SpawnFail, ctxVars
<1>4. CASE \E t \in Thread, q \in Proc : HostExitGroup(t, q) \/ Detach(t, q)
             \/ (\E r \in Runtime : SpawnAdd(t, q, r))
  BY <1>4 DEF HostExitGroup, Detach, SpawnAdd, ctxVars
<1>5. CASE \E t \in Thread, q \in Proc, d \in Ctx : Enter(t, q, d)
  BY <1>5 DEF Enter
<1>6. CASE \E r \in Runtime : LeaveStep(r)
  BY <1>6 DEF LeaveStep, ThreadExit, ThreadPause, ThreadLeave, ctxVars
<1>7. CASE \E q \in Proc : FreeCall(q) \/ FreeStep(q) \/ SpuriousWake(q)
  BY <1>7 DEF FreeCall, FreeStep, FreeWait, FreeDrained, FreeDecide, FreeDestroy,
              SpuriousWake, ctxVars
<1>8. CASE UNCHANGED vars
  BY <1>8 DEF vars, ctxVars
<1> QED
  BY <1>1, <1>2, <1>3, <1>4, <1>5, <1>6, <1>7, <1>8 DEF Next, AttachStep, DetachStep

\* A thread the step does not move through its exit.
LEMMA ExitsSame ==
    ASSUME NEW t \in Thread, Exits(t),
           list'[t] = list[t], cleanup'[t] = cleanup[t], armed'[t] = armed[t],
           keySet'[t] = keySet[t], walk'[t] = walk[t], t \in leaving' <=> t \in leaving,
           Nodes(list[t]) \subseteq Ctx,
           \A c \in Ctx : ctxSt[c] = "released" => ctxSt'[c] = "released",
           t \in Host /\ pc'[t] = "done" => pc[t] = "done" \/ t \in leaving
    PROVE  Exits(t)'
BY DEF Exits

\* Every step keeps Exits: the destructor's walk always holds what is left to
\* detach (thread_destructor in linux/trampoline.c).
LEMMA ExitsStep ==
    ASSUME IInv, ~CallbackAttach, ~LateCalls, \A t \in Thread : Exits(t), [Next]_vars
    PROVE  \A t \in Thread : Exits(t)'
<1>1. \A c \in Ctx : ctxSt[c] = "released" => ctxSt'[c] = "released"
  BY ReleasedStays
<1>2. \A t \in Thread : Nodes(list[t]) \subseteq Ctx
  BY OwnedCtx DEF IInv
<1>3. \A t \in Thread :
        (t \in Host /\ pc'[t] = "done") => (pc[t] = "done" \/ t \in leaving)
  PROOF
  <2> USE DEF Goto, IInv, Typed
  <2>1. CASE \E t \in Thread : AttachStep(t) \/ ThreadDestroy(t) \/ DrainWait(t)
               \/ DrainDone(t) \/ SpawnOk(t)
    <3>1. \A t \in Thread : Home(t) # "done"
      BY Labels
    <3> QED
      BY <2>1, <3>1 DEF AttachStep, LockClone, CloneRun, CloneFail, AttachCtx, AttachFail,
                ThreadDestroy, DrainWait, DrainDone, SpawnOk, ctxVars, procVars
  <2>2. CASE \E t \in Thread : Decrement(t) \/ LastDetachDestroy(t)
    BY <2>2, DetachEffect
  <2>3. CASE \E t \in Thread : ExitStep(t)
    BY <2>3 DEF ExitStep, HostReturn, StartDestructor, WalkNext, WalkEnd, ThreadDone, Control
  <2>4. CASE \E t \in Thread : SpawnFail(t)
    <3>1. PICK t \in Thread : SpawnFail(t)
      BY <2>4
    <3>2. child[t] \in Runtime /\ child[t] \notin Host /\ Home(t) # "done"
      BY <3>1, SpawnObj, Labels, ConstAssumption DEF SpawnFail, ConstAssumption
    <3> QED
      BY <3>1, <3>2 DEF SpawnFail
  <2>5. CASE \E t \in Thread, q \in Proc : HostExitGroup(t, q) \/ Detach(t, q)
               \/ (\E r \in Runtime : SpawnAdd(t, q, r)) \/ (\E d \in Ctx : Enter(t, q, d))
    <3>1. PICK t \in Thread : \/ UNCHANGED pc
                              \/ \E l \in {"destroying", "clone"} : pc' = [pc EXCEPT ![t] = l]
                              \/ \E r \in Runtime :
                                    pc' = [pc EXCEPT ![t] = "spawn", ![r] = "starting"]
      BY <2>5 DEF HostExitGroup, Detach, SpawnAdd, Enter
    <3> QED
      BY <3>1
  <2>6. CASE \E r \in Runtime : LeaveStep(r)
    BY <2>6 DEF LeaveStep, ThreadExit, ThreadPause, ThreadLeave
  <2>7. CASE \E q \in Proc : FreeCall(q) \/ FreeStep(q) \/ SpuriousWake(q)
    BY <2>7 DEF FreeCall, FreeStep, FreeWait, FreeDrained, FreeDecide, FreeDestroy,
                SpuriousWake
  <2>8. CASE UNCHANGED vars
    BY <2>8 DEF vars
  <2> QED
    BY <2>1, <2>2, <2>3, <2>4, <2>5, <2>6, <2>7, <2>8 DEF Next, DetachStep, SpawnStep
<1>4. CASE UNCHANGED tlsVars
  BY <1>1, <1>2, <1>3, <1>4, ExitsSame DEF tlsVars
<1>5. CASE \E t \in Thread : Decrement(t) \/ LastDetachDestroy(t)
  <2>1. PICK t \in Thread : Decrement(t) \/ LastDetachDestroy(t)
    BY <1>5
  <2>2. UNCHANGED <<list, cleanup, armed, keySet, leaving>>
        /\ \/ walk' = walk
           \/ walk[t] # <<>> /\ walk' = [walk EXCEPT ![t] = Tail(walk[t])]
    <3>1. UNCHANGED <<list, cleanup, armed, keySet, leaving>>
      BY <2>1 DEF Decrement, LastDetachDestroy
    <3>2. CASE DetachReturn(t)
      BY <3>1, <3>2 DEF DetachReturn
    <3>3. CASE UNCHANGED walk
      BY <3>1, <3>3
    <3> QED
      BY <2>1, <3>2, <3>3 DEF Decrement, LastDetachDestroy
  <2>3. \A u \in Thread \ {t} : walk'[u] = walk[u]
    BY <2>2 DEF IInv, Typed
  <2>4. \A u \in Thread \ {t} : Exits(u)'
    BY <1>1, <1>2, <1>3, <2>2, <2>3, ExitsSame
  <2>5. CASE walk' = walk
    BY <1>1, <1>2, <1>3, <2>2, <2>4, <2>5, ExitsSame
  <2>6. CASE walk[t] # <<>> /\ walk' = [walk EXCEPT ![t] = Tail(walk[t])]
    <3>1. walk[t] \in Seq(Ctx) /\ walk[t] # <<>> /\ walk'[t] = Tail(walk[t])
      BY <2>6 DEF IInv, Typed
    <3>2. Nodes(walk[t]) \subseteq {Head(walk[t])} \cup Nodes(walk'[t])
      BY <3>1, PopNodes DEF IInv, Ownership, Holds
    <3>3. t \in leaving /\ pc[t] \in DetachPC
      BY <2>1, <3>1 DEF IInv, Control, DetachPC, Decrement, LastDetachDestroy
    <3>4. Head(walk[t]) = cur[t]
      BY <3>3 DEF IInv, Control
    <3>5. cur[t] \in Ctx /\ ctxSt'[cur[t]] = "released"
      <4>1. pc[t] \in AttachPC \cup DetachPC
        BY <3>3
      <4>2. cur[t] \in Ctx /\ ctxSt[cur[t]] = StateAt(pc[t])
        BY <4>1, CurFacts DEF IInv
      <4>3. CASE Decrement(t)
        BY <4>2, <4>3 DEF Decrement, IInv, Typed
      <4>4. CASE LastDetachDestroy(t)
        BY <1>1, <4>2, <4>4, States DEF LastDetachDestroy
      <4> QED
        BY <2>1, <4>2, <4>3, <4>4
    <3>6. Exits(t)
      OBVIOUS
    <3>7. Exits(t)'
      BY <1>1, <1>2, <1>3, <2>2, <3>2, <3>4, <3>5, <3>6, <3>3 DEF Exits
    <3> QED
      BY <2>4, <3>7
  <2> QED
    BY <2>2, <2>5, <2>6
<1>6. CASE \E t \in Thread : AttachCtx(t) \/ (\E q \in Proc : Detach(t, q))
  <2>1. PICK t \in Thread : AttachCtx(t) \/ (\E q \in Proc : Detach(t, q))
    BY <1>6
  <2>2. t \notin leaving /\ UNCHANGED <<walk, leaving>>
    BY <2>1 DEF AttachCtx, Detach, HostCode, IInv, Control, DetachPC
  <2>3. PICK head : SetThreadCleanup(t, head)
    BY <2>1 DEF AttachCtx, Detach
  <2>4. \A u \in Thread \ {t} : Exits(u)'
    <3> USE DEF SetThreadCleanup, IInv, Typed
    <3>1. \A u \in Thread \ {t} : list'[u] = list[u] /\ cleanup'[u] = cleanup[u]
             /\ armed'[u] = armed[u] /\ keySet'[u] = keySet[u]
      BY <2>3
    <3> QED
      BY <1>1, <1>2, <1>3, <2>2, <3>1, ExitsSame
  <2>5. armed'[t] /\ cleanup'[t] /\ (keySet'[t] <=> keySet[t] \/ ~armed[t])
    BY <2>3 DEF SetThreadCleanup, IInv, Typed
  <2>6. Exits(t)
    OBVIOUS
  <2>7. Exits(t)'
    BY <1>3, <2>2, <2>5, <2>6 DEF Exits
  <2> QED
    BY <2>4, <2>7
<1>7. CASE \E t \in Thread : StartDestructor(t)
  <2>1. PICK t \in Thread : StartDestructor(t)
    BY <1>7
  <2>2. /\ UNCHANGED <<list, armed, leaving>> /\ t \in leaving
        /\ \A u \in Thread \ {t} : walk'[u] = walk[u] /\ cleanup'[u] = cleanup[u]
              /\ keySet'[u] = keySet[u]
        /\ keySet[t] /\ ~keySet'[t]
        /\ cleanup[t] => walk'[t] = list[t]
    BY <2>1 DEF StartDestructor, IInv, Typed, Control
  <2>3. \A u \in Thread \ {t} : Exits(u)'
    BY <1>1, <1>2, <1>3, <2>2, ExitsSame
  <2>4. Exits(t)
    OBVIOUS
  <2>5. Exits(t)'
    BY <1>3, <2>2, <2>4 DEF Exits
  <2> QED
    BY <2>3, <2>5
<1>8. CASE \E t \in Thread : HostReturn(t) \/ ThreadLeave(t)
  <2>1. PICK t \in Thread : HostReturn(t) \/ ThreadLeave(t)
    BY <1>8
  <2>2. UNCHANGED <<list, cleanup, armed, keySet, walk>> /\ leaving' = leaving \cup {t}
        /\ t \notin leaving
    BY <2>1 DEF HostReturn, ThreadLeave, IInv, Control, DetachPC
  <2>3. \A u \in Thread \ {t} : Exits(u)'
    BY <1>1, <1>2, <1>3, <2>2, ExitsSame
  <2>4. Exits(t) /\ Nodes(<<>>) = {}
    BY DEF Nodes
  <2>5. Exits(t)'
    BY <2>2, <2>4 DEF Exits
  <2> QED
    BY <2>3, <2>5
<1> QED
  <2>1. CASE \E t \in Thread : LockClone(t) \/ CloneRun(t) \/ CloneFail(t) \/ AttachFail(t)
               \/ ThreadDestroy(t) \/ DrainWait(t) \/ DrainDone(t) \/ WalkNext(t)
               \/ WalkEnd(t) \/ ThreadDone(t) \/ SpawnStep(t)
    BY <1>4, <2>1 DEF LockClone, CloneRun, CloneFail, AttachFail, ThreadDestroy, DrainWait,
              DrainDone, WalkNext, WalkEnd, ThreadDone, SpawnStep, SpawnOk, SpawnFail
  <2>2. CASE \E t \in Thread, q \in Proc : HostExitGroup(t, q)
               \/ (\E r \in Runtime : SpawnAdd(t, q, r)) \/ (\E d \in Ctx : Enter(t, q, d))
    BY <1>4, <2>2 DEF HostExitGroup, SpawnAdd, Enter
  <2>3. CASE \E r \in Runtime : ThreadExit(r) \/ ThreadPause(r)
    BY <1>4, <2>3 DEF ThreadExit, ThreadPause
  <2>4. CASE \E q \in Proc : FreeCall(q) \/ FreeStep(q) \/ SpuriousWake(q)
    BY <1>4, <2>4 DEF FreeCall, FreeStep, FreeWait, FreeDrained, FreeDecide, FreeDestroy,
                SpuriousWake
  <2>5. CASE UNCHANGED vars
    BY <1>4, <2>5 DEF vars
  <2> QED
    BY <1>5, <1>6, <1>7, <1>8, <2>1, <2>2, <2>3, <2>4, <2>5
       DEF Next, AttachStep, DetachStep, ExitStep, LeaveStep, Thread

\* The contexts attached_threads counts, once each.
Attachments == {c \in Ctx : ctxSt[c] \in {"creating", "live", "freed"}}

\* Some thread works on every such context or has it on its cleanup list.
Held == \A c \in Attachments : \E t \in Thread : c \in Owned(t)

\* A step that counts no new attachment and takes a counted one from nobody.
LEMMA HeldSame ==
    ASSUME Held, Attachments' \subseteq Attachments,
           \A t \in Thread : Owned(t) \cap Attachments' \subseteq Owned(t)'
    PROVE  Held'
BY DEF Held

\* attach_ctx moves the context a thread works on to its list, and an explicit
\* detach moves it back; the destructor takes contexts off the list only when
\* they are released.
LEMMA HeldStep ==
    ASSUME IInv, ~CallbackAttach, ~LateCalls, Held, [Next]_vars
    PROVE  Held'
<1> USE DEF IInv, Typed
<1>1. CASE \E t \in Thread, p \in Proc, c \in Ctx : Enter(t, p, c)
  <2>1. PICK t \in Thread, p \in Proc, c \in Ctx : Enter(t, p, c)
    BY <1>1
  <2>2. pc[t] = "host" /\ cur[t] = None
    BY <2>1 DEF Enter, HostCode, Control, AttachPC, DetachPC
  <2>3. /\ cur' = [cur EXCEPT ![t] = c] /\ list' = list
        /\ ctxSt' = [ctxSt EXCEPT ![c] = "creating"]
    BY <2>1 DEF Enter, tlsVars
  <2>4. Attachments' \subseteq Attachments \cup {c}
    BY <2>3 DEF Attachments
  <2>5. c \in Owned(t)'
    BY <2>3, ConstAssumption DEF Owned, ConstAssumption
  <2>6. \A u \in Thread : Owned(u) \subseteq Owned(u)'
    BY <2>2, <2>3 DEF Owned
  <2> QED
    BY <2>4, <2>5, <2>6 DEF Held
<1>2. CASE \E t \in Thread : CloneRun(t) \/ ThreadDestroy(t)
  <2>1. PICK t \in Thread : CloneRun(t) \/ ThreadDestroy(t)
    BY <1>2
  <2>2. pc[t] \in {"creating", "destroying"} /\ UNCHANGED <<cur, list>>
        /\ \E l \in {"live", "freed"} : ctxSt' = [ctxSt EXCEPT ![cur[t]] = l]
    BY <2>1 DEF CloneRun, ThreadDestroy, tlsVars
  <2>3. pc[t] \in AttachPC \cup DetachPC
    BY <2>2 DEF AttachPC, DetachPC
  <2>4. cur[t] \in Attachments
    BY <2>2, <2>3, CurFacts, States DEF Attachments
  <2>5. Attachments' \subseteq Attachments
    BY <2>2, <2>4 DEF Attachments
  <2> QED
    BY <2>2, <2>5, HeldSame DEF Owned
<1>3. CASE \E t \in Thread : CloneFail(t) \/ AttachFail(t)
  <2>1. PICK t \in Thread : CloneFail(t) \/ AttachFail(t)
    BY <1>3
  <2>2. /\ cur' = [cur EXCEPT ![t] = None] /\ list' = list
        /\ ctxSt' = [ctxSt EXCEPT ![cur[t]] = "released"]
    BY <2>1 DEF CloneFail, AttachFail, tlsVars
  <2>3. Attachments' \subseteq Attachments \ {cur[t]}
    BY <2>2 DEF Attachments
  <2> QED
    BY <2>2, <2>3, HeldSame DEF Owned
<1>4. CASE \E t \in Thread : Decrement(t) \/ LastDetachDestroy(t)
  <2>1. PICK t \in Thread : Decrement(t) \/ LastDetachDestroy(t)
    BY <1>4
  <2>2. /\ pc[t] \in AttachPC \cup DetachPC /\ list' = list
        /\ cur' = cur \/ cur' = [cur EXCEPT ![t] = None]
    BY <2>1, DetachEffect DEF DetachPC, Decrement, LastDetachDestroy
  <2>3. Attachments' \subseteq Attachments \ {cur[t]}
    <3>1. CASE Decrement(t)
      BY <3>1 DEF Decrement, Attachments
    <3>2. CASE LastDetachDestroy(t)
      <4>1. ctxSt[cur[t]] = "released"
        BY <2>2, <3>2, CurFacts, States DEF LastDetachDestroy
      <4> QED
        BY <3>2, <4>1 DEF LastDetachDestroy, Attachments
    <3> QED
      BY <2>1, <3>1, <3>2
  <2> QED
    BY <2>2, <2>3, HeldSame DEF Owned
<1>5. CASE \E t \in Thread : AttachCtx(t)
  <2>1. PICK t \in Thread : AttachCtx(t)
    BY <1>5
  <2>2. pc[t] \in AttachPC \cup DetachPC
    BY <2>1 DEF AttachCtx, AttachPC
  <2>3. /\ cur[t] \in Ctx /\ cur' = [cur EXCEPT ![t] = None] /\ ctxSt' = ctxSt
        /\ list' = [list EXCEPT ![t] = <<cur[t]>> \o list[t]]
    BY <2>1, <2>2, CurFacts DEF AttachCtx, SetThreadCleanup
  <2>4. Nodes(<<cur[t]>> \o list[t]) = Nodes(list[t]) \cup {cur[t]}
    BY <2>3, PushNodes
  <2>5. \A u \in Thread : Owned(u) \subseteq Owned(u)'
    BY <2>3, <2>4 DEF Owned
  <2>6. Attachments' = Attachments
    BY <2>3 DEF Attachments
  <2> QED
    BY <2>5, <2>6, HeldSame
<1>6. CASE \E t \in Thread, p \in Proc : Detach(t, p)
  <2>1. PICK t \in Thread, p \in Proc : Detach(t, p)
    BY <1>6
  <2>2. pc[t] = "host" /\ cur[t] = None
    BY <2>1 DEF Detach, HostCode, Control, AttachPC, DetachPC
  <2>3. PICK i \in DOMAIN list[t] :
          /\ list' = [list EXCEPT ![t] = Unlink(list[t], i)]
          /\ cur' = [cur EXCEPT ![t] = list[t][i]]
    BY <2>1 DEF Detach, SetThreadCleanup
  <2>4. list[t] \in Seq(Ctx) /\ Distinct(list[t]) /\ list[t][i] \in Ctx
    BY <2>3 DEF Ownership, Holds
  <2>5. Nodes(Unlink(list[t], i)) = Nodes(list[t]) \ {list[t][i]}
    BY <2>4, UnlinkNodes
  <2>6. list[t][i] # None
    BY <2>4, OwnedCtx
  <2>7. \A u \in Thread : Owned(u) \subseteq Owned(u)'
    BY <2>2, <2>3, <2>5, <2>6 DEF Owned
  <2>8. Attachments' = Attachments
    BY <2>1 DEF Detach, Attachments
  <2> QED
    BY <2>7, <2>8, HeldSame
<1>7. CASE \E t \in Thread : WalkNext(t)
  <2>1. PICK t \in Thread : WalkNext(t)
    BY <1>7
  <2>2. cur[t] = None
    BY <2>1 DEF WalkNext, Control, AttachPC, DetachPC
  <2>3. \E d : cur' = [cur EXCEPT ![t] = d]
    BY <2>1 DEF WalkNext
  <2>4. UNCHANGED <<list, ctxSt>>
    BY <2>1 DEF WalkNext, tlsVars, ctxVars
  <2>5. \A u \in Thread : Owned(u) \subseteq Owned(u)'
    BY <2>2, <2>3, <2>4 DEF Owned
  <2>6. Attachments' = Attachments
    BY <2>4 DEF Attachments
  <2> QED
    BY <2>5, <2>6, HeldSame
<1>8. CASE UNCHANGED <<cur, list, ctxSt>>
  BY <1>8, HeldSame DEF Owned, Attachments
<1> QED
  <2>1. CASE \E t \in Thread : LockClone(t) \/ DrainWait(t) \/ DrainDone(t) \/ WalkEnd(t)
               \/ HostReturn(t) \/ StartDestructor(t) \/ ThreadDone(t) \/ SpawnStep(t)
    BY <1>8, <2>1 DEF LockClone, DrainWait, DrainDone, WalkEnd, HostReturn,
              StartDestructor, ThreadDone, SpawnStep, SpawnOk, SpawnFail, tlsVars, ctxVars
  <2>2. CASE \E t \in Thread, q \in Proc : HostExitGroup(t, q)
               \/ (\E r \in Runtime : SpawnAdd(t, q, r))
    BY <1>8, <2>2 DEF HostExitGroup, SpawnAdd, tlsVars, ctxVars
  <2>3. CASE \E r \in Runtime : LeaveStep(r)
    BY <1>8, <2>3 DEF LeaveStep, ThreadExit, ThreadPause, ThreadLeave, tlsVars, ctxVars
  <2>4. CASE \E q \in Proc : FreeCall(q) \/ FreeStep(q) \/ SpuriousWake(q)
    BY <1>8, <2>4 DEF FreeCall, FreeStep, FreeWait, FreeDrained, FreeDecide, FreeDestroy,
                SpuriousWake, tlsVars, ctxVars
  <2>5. CASE UNCHANGED vars
    BY <1>8, <2>5 DEF vars, tlsVars, ctxVars
  <2> QED
    BY <1>1, <1>2, <1>3, <1>4, <1>5, <1>6, <1>7, <2>1, <2>2, <2>3, <2>4, <2>5
       DEF Next, AttachStep, DetachStep, ExitStep

\* Every attachment attached_threads counts is in the hands of a thread that has
\* still to exit: explicit detach and destructor between them forget none.
THEOREM ExitsDetach == ASSUME ~CallbackAttach, ~LateCalls PROVE Spec => []ExitDetaches
<1> DEFINE J == (\A t \in Thread : Exits(t)) /\ Held
<1>1. Init => J
  BY DEF Init, Exits, Nodes, Held, Attachments
<1>2. ASSUME ~CallbackAttach, ~LateCalls PROVE IInv /\ J /\ [Next]_vars => J'
  BY <1>2, ExitsStep, HeldStep
<1>3. IInv /\ J => ExitDetaches
  <2> SUFFICES ASSUME IInv, J, NEW c \in Attachments
               PROVE  \E t \in Thread : pc[t] # "done" /\
                        (c = cur[t] \/ \E i \in DOMAIN list[t] : c = list[t][i])
    BY DEF ExitDetaches, Holding, Attachments
  <2>1. PICK t \in Thread : c \in Owned(t)
    BY DEF Held
  <2>2. ASSUME pc[t] = "done" PROVE FALSE
    <3>1. cur[t] = None /\ c \in Nodes(list[t])
      BY <2>1, <2>2 DEF IInv, Control, AttachPC, DetachPC, Owned
    <3>2. t \in Host
      BY <3>1 DEF IInv, Control, Thread, Nodes
    <3>3. t \in leaving /\ ~keySet[t] /\ walk[t] = <<>>
      BY <2>2, <3>2 DEF Exits, IInv, Control, DetachPC
    <3>4. Nodes(walk[t]) = {}
      BY <3>3 DEF Nodes
    <3>5. ctxSt[c] = "released"
      BY <3>1, <3>3, <3>4 DEF Exits
    <3> QED
      BY <3>5 DEF Attachments
  <2> QED
    BY <2>1, <2>2 DEF Owned, Nodes
<1> HIDE DEF J
<1> QED
  BY <1>1, <1>2, <1>3, Invariance, PTL DEF Spec

-----------------------------------------------------------------------------
(* ProcLifecycle implements DeferredFree.  The users of a process are the  *)
(* attachments and the threads the two counters count; every step opens or *)
(* closes one of them, requests or performs the free, or is invisible.     *)


Users(p) == Holding(p) \cup Spawned(p)

\* A step that DeferredFree does not see.
LEMMA Invisible ==
    ASSUME \A p \in Proc : Users(p)' = Users(p), present' = present,
           \A p \in Proc : fpc'[p] = "idle" <=> fpc[p] = "idle"
    PROVE  UNCHANGED Abs!vars
<1>1. [p \in Proc |-> Users(p)]' = [p \in Proc |-> Users(p)]
  OBVIOUS
<1>2. {p \in Proc : fpc[p] # "idle"}' = {p \in Proc : fpc[p] # "idle"}
  OBVIOUS
<1> QED
  BY <1>1, <1>2 DEF Abs!vars, Users

\* A step that opens one attachment or one thread.
LEMMA Joined ==
    ASSUME NEW p \in Proc, NEW u \in Ctx \cup Runtime, u \notin Users(p),
           Users(p)' = Users(p) \cup {u},
           \A q \in Proc \ {p} : Users(q)' = Users(q),
           p \in present, fpc[p] = "idle" \/ Users(p) # {},
           present' = present, fpc' = fpc
    PROVE  Abs!Join(p, u)
<1>1. [q \in Proc |-> Users(q)]'
        = [[q \in Proc |-> Users(q)] EXCEPT ![p] = Users(p) \cup {u}]
  OBVIOUS
<1> QED
  BY <1>1 DEF Abs!Join, Users

\* A step that closes one.
LEMMA Left ==
    ASSUME NEW p \in Proc, NEW u \in Users(p), Users(p)' = Users(p) \ {u},
           \A q \in Proc \ {p} : Users(q)' = Users(q),
           p \in present, present' = present, fpc' = fpc
    PROVE  Abs!Leave(p, u)
<1>1. [q \in Proc |-> Users(q)]'
        = [[q \in Proc |-> Users(q)] EXCEPT ![p] = Users(p) \ {u}]
  OBVIOUS
<1> QED
  BY <1>1 DEF Abs!Leave, Users

\* Contexts and runtime threads are told apart.
LEMMA Sides ==
    ASSUME Typed, NEW p \in Proc
    PROVE  Holding(p) \subseteq Ctx /\ Spawned(p) \subseteq Runtime /\ Ctx \cap Runtime = {}
BY ConstAssumption DEF Holding, Spawned, Typed, ConstAssumption

\* A present user keeps the process allocated.
LEMMA UsedPresent ==
    ASSUME IInv, NEW p \in Proc, Users(p) # {} PROVE p \in present
BY DEF Users, IInv, Reclaiming, Reclaims

\* An attachment that is given up leaves the users of its process.
LEMMA AttachmentClosed ==
    ASSUME IInv, NEW t \in Thread, pc[t] \in {"creating", "attach", "detached"},
           ctxSt' = [ctxSt EXCEPT ![cur[t]] = "released"],
           UNCHANGED <<ctxProc, rproc, objs, present, fpc>>
    PROVE  \E p \in Proc, u \in Ctx \cup Runtime : Abs!Leave(p, u)
<1>1. pc[t] \in AttachPC \cup DetachPC
  BY DEF AttachPC, DetachPC
<1>2. cur[t] \in Ctx /\ ctxProc[cur[t]] \in Proc /\ ctxSt[cur[t]] = StateAt(pc[t])
  BY <1>1, CurFacts DEF IInv
<1>3. ctxSt[cur[t]] \in Counted
  BY <1>2, States DEF Counted
<1>4. PICK c \in Ctx, p \in Proc : c = cur[t] /\ p = ctxProc[c]
  BY <1>2
<1>5. /\ c \in Holding(p) /\ Holding(p)' = Holding(p) \ {c}
      /\ \A q \in Proc \ {p} : Holding(q)' = Holding(q)
  BY <1>4, <1>3, HoldingClosed DEF IInv
<1>6. \A q \in Proc : Spawned(q)' = Spawned(q)
  BY SpawnedKept
<1>7. c \notin Spawned(p)
  BY Sides DEF IInv
<1>8. c \in Users(p) /\ Users(p)' = Users(p) \ {c} /\ \A q \in Proc \ {p} : Users(q)' = Users(q)
  BY <1>5, <1>6, <1>7 DEF Users
<1>9. p \in present
  BY <1>8, UsedPresent
<1>10. Abs!Leave(p, c)
  BY <1>8, <1>9, Left
<1> QED
  BY <1>10

\* So does a runtime thread whose LFILinuxThread is freed.
LEMMA ThreadClosed ==
    ASSUME IInv, NEW r \in Runtime, r \in objs, rproc[r] \in Proc,
           objs' = objs \ {r}, UNCHANGED <<ctxProc, ctxSt, rproc, present, fpc>>
    PROVE  \E p \in Proc, u \in Ctx \cup Runtime : Abs!Leave(p, u)
<1> DEFINE p == rproc[r]
<1>1. /\ r \in Spawned(p) /\ Spawned(p)' = Spawned(p) \ {r}
      /\ \A q \in Proc \ {p} : Spawned(q)' = Spawned(q)
  BY SpawnedClosed DEF IInv
<1>2. \A q \in Proc : Holding(q)' = Holding(q)
  BY HoldingKept
<1>3. r \notin Holding(p)
  BY Sides DEF IInv
<1>4. r \in Users(p) /\ Users(p)' = Users(p) \ {r} /\ \A q \in Proc \ {p} : Users(q)' = Users(q)
  BY <1>1, <1>2, <1>3 DEF Users
<1>5. p \in present
  BY <1>4, UsedPresent
<1>6. Abs!Leave(p, r)
  BY <1>4, <1>5, Left
<1> QED
  BY <1>6

\* The clone callback, which runs before lfi_proc_free only.
LEMMA EnterJoins ==
    ASSUME IInv, ~CallbackAttach, ~LateCalls,
           NEW t \in Thread, NEW p \in Proc, NEW c \in Ctx, Enter(t, p, c)
    PROVE  Abs!Join(p, c)
<1>1. fpc[p] = "idle"
  <2>1. t \notin Runtime
    BY DEF Enter, HostCode, IInv, Control
  <2> QED
    BY <2>1 DEF Enter, MayEnter
<1>2. p \in present
  BY <1>1 DEF IInv, Reclaiming, Reclaims
<1>3. /\ c \notin Holding(p) /\ Holding(p)' = Holding(p) \cup {c}
      /\ \A q \in Proc \ {p} : Holding(q)' = Holding(q)
  BY HoldingOpened DEF Enter, IInv, Ownership
<1>4. \A q \in Proc : Spawned(q)' = Spawned(q)
  BY SpawnedKept DEF Enter
<1>5. c \notin Spawned(p)
  BY Sides DEF IInv
<1>6. c \notin Users(p) /\ Users(p)' = Users(p) \cup {c}
      /\ \A q \in Proc \ {p} : Users(q)' = Users(q)
  BY <1>3, <1>4, <1>5 DEF Users
<1>7. present' = present /\ fpc' = fpc
  BY DEF Enter
<1> QED
  BY <1>1, <1>2, <1>6, <1>7, Joined

\* sys_clone runs on a thread or an attachment of the process.
LEMMA SpawnJoins ==
    ASSUME IInv, NEW t \in Thread, NEW p \in Proc, NEW r \in Runtime, SpawnAdd(t, p, r)
    PROVE  Abs!Join(p, r)
<1>1. r \notin objs
  BY DEF SpawnAdd, IInv, Control
<1>2. /\ r \notin Spawned(p) /\ Spawned(p)' = Spawned(p) \cup {r}
      /\ \A q \in Proc \ {p} : Spawned(q)' = Spawned(q)
  BY <1>1, SpawnedOpened DEF SpawnAdd, IInv
<1>3. \A q \in Proc : Holding(q)' = Holding(q)
  BY HoldingKept DEF SpawnAdd, ctxVars
<1>4. r \notin Holding(p)
  BY Sides DEF IInv
<1>5. Users(p) # {}
  <2>1. CASE pc[t] = "sandbox" /\ rproc[t] = p
    <3>1. t \in Runtime /\ t \notin leaving
      BY <2>1 DEF IInv, Control, Thread, DetachPC
    <3>2. t \in Spawned(p)
      BY <2>1, <3>1 DEF IInv, Control, Spawned
    <3> QED
      BY <3>2 DEF Users
  <2>2. CASE \E i \in DOMAIN list[t] :
                ctxProc[list[t][i]] = p /\ ctxSt[list[t][i]] = "live"
    <3>1. PICK c \in Nodes(list[t]) : ctxProc[c] = p /\ ctxSt[c] = "live"
      BY <2>2 DEF Nodes
    <3>2. c \in Holding(p)
      BY <3>1, OwnedCtx DEF IInv, Holding
    <3> QED
      BY <3>2 DEF Users
  <2> QED
    BY <2>1, <2>2 DEF SpawnAdd, InSandbox
<1>6. p \in present
  BY <1>5, UsedPresent
<1>7. r \notin Users(p) /\ Users(p)' = Users(p) \cup {r}
      /\ \A q \in Proc \ {p} : Users(q)' = Users(q)
  BY <1>2, <1>3, <1>4 DEF Users
<1>8. present' = present /\ fpc' = fpc
  BY DEF SpawnAdd
<1> QED
  BY <1>5, <1>6, <1>7, <1>8, Joined

\* proc_destroy, by lfi_proc_free or by the last detach.
LEMMA Reclaimed ==
    ASSUME IInv, NEW p \in Proc, ProcDestroy(p),
           UNCHANGED <<ctxProc, ctxSt, rproc>>,
           \A q \in Proc : fpc'[q] = "idle" <=> fpc[q] = "idle",
           \/ fpc[p] = "destroy"
           \/ \E t \in Thread : pc[t] = "destroy" /\ ctxProc[cur[t]] = p
    PROVE  Abs!Reclaim(p)
<1>1. /\ fpc[p] # "idle" /\ p \in present
      /\ Holding(p) = {} /\ Spawned(p) = {}
  <2>1. CASE fpc[p] = "destroy"
    BY <2>1 DEF IInv, Reclaiming, Reclaims
  <2>2. CASE \E t \in Thread : pc[t] = "destroy" /\ ctxProc[cur[t]] = p
    <3>1. PICK t \in Thread : pc[t] = "destroy" /\ ctxProc[cur[t]] = p
      BY <2>2
    <3>2. t \in Reclaimers(p) \ {p}
      BY <3>1, ConstAssumption DEF Reclaimers, ConstAssumption, Thread
    <3> QED
      BY <3>1, <3>2 DEF IInv, Reclaiming, Reclaims
  <2> QED
    BY <2>1, <2>2
<1>2. threads[p] = {}
  BY <1>1 DEF IInv, Counting
<1>3. objs' = objs /\ present' = present \ {p}
  BY <1>2 DEF ProcDestroy
<1>4. \A q \in Proc : Users(q)' = Users(q)
  BY <1>3, HoldingKept, SpawnedKept DEF Users
<1>5. [q \in Proc |-> Users(q)]' = [q \in Proc |-> Users(q)]
  BY <1>4
<1>6. {q \in Proc : fpc[q] # "idle"}' = {q \in Proc : fpc[q] # "idle"}
  OBVIOUS
<1> QED
  BY <1>1, <1>3, <1>5, <1>6 DEF Abs!Reclaim, Users

\* A step that neither opens nor closes anything.
LEMMA Quiet ==
    ASSUME UNCHANGED <<ctxProc, rproc, objs, present>>,
           \A c \in Ctx : ctxSt'[c] \in Counted <=> ctxSt[c] \in Counted,
           \A p \in Proc : fpc'[p] = "idle" <=> fpc[p] = "idle"
    PROVE  UNCHANGED Abs!vars
<1>1. \A p \in Proc : Users(p)' = Users(p)
  BY HoldingKept, SpawnedKept DEF Users
<1> QED
  BY <1>1, Invisible

\* Every action of the threads and of lfi_proc_free is a step of DeferredFree or
\* leaves its variables alone.
LEMMA RefinementStep ==
    ASSUME IInv, ~CallbackAttach, ~LateCalls, [Next]_vars
    PROVE  [Abs!Next]_(Abs!vars)
<1> USE DEF procVars, ctxVars, Counted
<1>1. ASSUME NEW p \in Proc, NEW u \in Ctx \cup Runtime, Abs!Join(p, u) \/ Abs!Leave(p, u)
      PROVE  Abs!Next
  BY <1>1 DEF Abs!Next
<1>2. CASE \E t \in Thread, p \in Proc, c \in Ctx : Enter(t, p, c)
  BY <1>1, <1>2, EnterJoins
<1>3. CASE \E t \in Thread, p \in Proc, r \in Runtime : SpawnAdd(t, p, r)
  BY <1>1, <1>3, SpawnJoins
<1>4. CASE \E t \in Thread : CloneFail(t) \/ AttachFail(t) \/ Decrement(t)
  <2>1. PICK t \in Thread : CloneFail(t) \/ AttachFail(t) \/ Decrement(t)
    BY <1>4
  <2>2. /\ pc[t] \in {"creating", "attach", "detached"}
        /\ ctxSt' = [ctxSt EXCEPT ![cur[t]] = "released"]
        /\ UNCHANGED <<ctxProc, rproc, objs, present, fpc>>
    BY <2>1 DEF CloneFail, AttachFail, Decrement
  <2> QED
    BY <1>1, <2>2, AttachmentClosed
<1>5. CASE \E t \in Thread : SpawnFail(t)
  <2>1. PICK t \in Thread : SpawnFail(t)
    BY <1>5
  <2>2. child[t] \in objs /\ child[t] \in Runtime /\ rproc[child[t]] \in Proc
    BY <2>1, SpawnObj DEF SpawnFail, IInv
  <2>3. objs' = objs \ {child[t]} /\ UNCHANGED <<ctxProc, ctxSt, rproc, present, fpc>>
    BY <2>1 DEF SpawnFail
  <2> QED
    BY <1>1, <2>2, <2>3, ThreadClosed
<1>6. CASE \E r \in Runtime : ThreadLeave(r)
  <2>1. PICK r \in Runtime : ThreadLeave(r)
    BY <1>6
  <2>2. r \in objs /\ rproc[r] \in Proc
    BY <2>1 DEF ThreadLeave, IInv, Control, DetachPC, Thread
  <2>3. objs' = objs \ {r} /\ UNCHANGED <<ctxProc, ctxSt, rproc, present, fpc>>
    BY <2>1 DEF ThreadLeave
  <2> QED
    BY <1>1, <2>2, <2>3, ThreadClosed
<1>7. CASE \E p \in Proc : FreeDestroy(p)
  <2>1. PICK p \in Proc : FreeDestroy(p)
    BY <1>7
  <2>2. \A q \in Proc : fpc'[q] = "idle" <=> fpc[q] = "idle"
    BY <2>1 DEF FreeDestroy, IInv, Typed
  <2>3. Abs!Reclaim(p)
    BY <2>1, <2>2, Reclaimed DEF FreeDestroy
  <2> QED
    BY <2>3 DEF Abs!Next
<1>8. CASE \E t \in Thread : LastDetachDestroy(t)
  <2>1. PICK t \in Thread : LastDetachDestroy(t)
    BY <1>8
  <2>2. pc[t] = "destroy" /\ pc[t] \in AttachPC \cup DetachPC
    BY <2>1 DEF LastDetachDestroy, DetachPC
  <2>3. ctxProc[cur[t]] \in Proc
    BY <2>2, CurFacts DEF IInv
  <2>4. Abs!Reclaim(ctxProc[cur[t]])
    BY <2>1, <2>2, <2>3, Reclaimed DEF LastDetachDestroy
  <2> QED
    BY <2>3, <2>4 DEF Abs!Next
<1>9. CASE \E p \in Proc : FreeCall(p)
  <2>1. PICK p \in Proc : FreeCall(p)
    BY <1>9
  <2>2. p \in present /\ fpc[p] = "idle"
    BY <2>1 DEF FreeCall, IInv, Reclaiming, Reclaims
  <2>3. {q \in Proc : fpc[q] # "idle"}' = {q \in Proc : fpc[q] # "idle"} \cup {p}
    BY <2>1 DEF FreeCall, IInv, Typed
  <2>4. \A q \in Proc : Users(q)' = Users(q)
    BY <2>1, HoldingKept, SpawnedKept DEF FreeCall, Users
  <2>5. [q \in Proc |-> Users(q)]' = [q \in Proc |-> Users(q)]
    BY <2>4
  <2>6. Abs!Request(p)
    BY <2>1, <2>2, <2>3, <2>5 DEF Abs!Request, Users, FreeCall
  <2> QED
    BY <2>6 DEF Abs!Next
<1>10. CASE \E t \in Thread : CloneRun(t) \/ ThreadDestroy(t)
  <2>1. PICK t \in Thread : CloneRun(t) \/ ThreadDestroy(t)
    BY <1>10
  <2>2. pc[t] \in AttachPC \cup DetachPC /\ pc[t] \in {"creating", "destroying"}
    BY <2>1 DEF CloneRun, ThreadDestroy, AttachPC, DetachPC
  <2>3. cur[t] \in Ctx /\ ctxSt[cur[t]] \in Counted
    BY <2>2, CurFacts, States DEF IInv
  <2>4. \A c \in Ctx : ctxSt'[c] \in Counted <=> ctxSt[c] \in Counted
    BY <2>1, <2>3 DEF CloneRun, ThreadDestroy, IInv, Typed
  <2>5. UNCHANGED <<ctxProc, rproc, objs, present, fpc>>
    BY <2>1 DEF CloneRun, ThreadDestroy
  <2>6. UNCHANGED Abs!vars
    BY <2>4, <2>5, Quiet
  <2> QED
    BY <2>6
<1>11. CASE \E t \in Thread : LockClone(t) \/ AttachCtx(t) \/ DrainWait(t) \/ DrainDone(t)
              \/ ExitStep(t) \/ SpawnOk(t)
  <2>1. UNCHANGED <<ctxProc, ctxSt, rproc, objs, present, fpc>>
    BY <1>11 DEF LockClone, AttachCtx, DrainWait, DrainDone, ExitStep, HostReturn,
                 StartDestructor, WalkNext, WalkEnd, ThreadDone, SpawnOk
  <2> QED
    BY <2>1, Quiet
<1>12. CASE \E t \in Thread, p \in Proc : Detach(t, p) \/ HostExitGroup(t, p)
  <2>1. UNCHANGED <<ctxProc, ctxSt, rproc, objs, present, fpc>>
    BY <1>12 DEF Detach, HostExitGroup
  <2> QED
    BY <2>1, Quiet
<1>13. CASE \E r \in Runtime : ThreadExit(r) \/ ThreadPause(r)
  <2>1. UNCHANGED <<ctxProc, ctxSt, rproc, objs, present, fpc>>
    BY <1>13 DEF ThreadExit, ThreadPause
  <2> QED
    BY <2>1, Quiet
<1>14. CASE \E p \in Proc : FreeWait(p) \/ FreeDrained(p) \/ FreeDecide(p) \/ SpuriousWake(p)
  <2>1. UNCHANGED <<ctxProc, ctxSt, rproc, objs, present>>
    BY <1>14 DEF FreeWait, FreeDrained, FreeDecide, SpuriousWake
  <2>2. \A p \in Proc : fpc'[p] = "idle" <=> fpc[p] = "idle"
    BY <1>14 DEF FreeWait, FreeDrained, FreeDecide, SpuriousWake, IInv, Typed
  <2> QED
    BY <2>1, <2>2, Quiet
<1>15. CASE UNCHANGED vars
  <2>1. UNCHANGED <<ctxProc, ctxSt, rproc, objs, present, fpc>>
    BY <1>15 DEF vars
  <2> QED
    BY <2>1, Quiet
<1> QED
  BY <1>2, <1>3, <1>4, <1>5, <1>6, <1>7, <1>8, <1>9, <1>10, <1>11, <1>12, <1>13, <1>14,
     <1>15 DEF Next, AttachStep, DetachStep, SpawnStep, LeaveStep, FreeStep

\* The counters, pending_free and the two locks implement deferred reclamation:
\* the process is freed once, after the request, when it has no user.
THEOREM Implements == ASSUME ~CallbackAttach, ~LateCalls PROVE Spec => AbsSpec
<1>1. Init => Abs!Init
  <2> SUFFICES ASSUME Init PROVE Abs!Init
    OBVIOUS
  <2>1. \A p \in Proc : Holding(p) = {} /\ Spawned(p) = {}
    BY DEF Init, Holding, Spawned
  <2>2. \A p \in Proc : fpc[p] = "idle"
    BY DEF Init
  <2>3. [p \in Proc |-> Holding(p) \cup Spawned(p)] = [p \in Proc |-> {}]
    BY <2>1
  <2>4. {p \in Proc : fpc[p] # "idle"} = {} /\ present = Proc
    BY <2>2 DEF Init
  <2> QED
    BY <2>3, <2>4 DEF Abs!Init
<1>2. ASSUME ~CallbackAttach, ~LateCalls
      PROVE  IInv /\ [Next]_vars => [Abs!Next]_(Abs!vars)
  BY <1>2, RefinementStep
<1> QED
  BY <1>1, <1>2, Invariance, PTL DEF Spec, AbsSpec, Abs!Spec
=============================================================================
