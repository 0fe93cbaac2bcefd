---------------------------- MODULE ProcLifecycle ----------------------------
(***************************************************************************)
(* Lifetime of an LFILinuxProc: linux/trampoline.c (lazy attachment of     *)
(* host threads), linux/sys/sys_clone.c (threads the sandbox spawns),      *)
(* linux/sys/sys_exit.c, linux/proc.c (lfi_proc_free, proc_destroy) and    *)
(* the thread-exit hook of core/core.c that drives the detach.             *)
(*                                                                         *)
(* A critical section of lk_threads never contains a blocking step other   *)
(* than the condition wait that releases it, so each one is one action.    *)
(* lk_proc is held across that wait by lfi_proc_free and lk_clone across   *)
(* the call of the sandbox's thread_create: they are variables.            *)
(***************************************************************************)
EXTENDS Integers, Sequences, FiniteSets

CONSTANTS
    Proc,            \* process objects
    Host,            \* host threads the embedder creates
    Runtime,         \* host threads sys_clone may create, each at most once
    Ctx,             \* attachment contexts, each created at most once
    None,            \* no process, context or thread
    CallbackAttach,  \* may a callback on a sandbox-spawned thread call in
                     \* through a fresh context, or detach?
    LateCalls        \* may another TLS destructor of the embedder call in or
                     \* detach while the thread exits?

ASSUME ConstAssumption ==
    /\ CallbackAttach \in BOOLEAN /\ LateCalls \in BOOLEAN
    /\ None \notin Proc \cup Host \cup Runtime \cup Ctx
    /\ Host \cap Runtime = {}
    /\ Proc \cap (Host \cup Runtime) = {}
    /\ Ctx \cap Runtime = {}
    /\ IsFiniteSet(Ctx) /\ IsFiniteSet(Runtime)

Thread == Host \cup Runtime

VARIABLES
    \* per process (struct LFILinuxProc)
    present,      \* processes whose memory is allocated
    attached,     \* attached_threads
    active,       \* active_threads
    threads,      \* the threads list
    pending,      \* pending_free
    lkProc,       \* is lk_proc held by lfi_proc_free?
    lkClone,      \* the thread that holds lk_clone
    waiters,      \* who waits on cond_threads: threads, or p for lfi_proc_free
    terminating,  \* terminating
    fpc,          \* where the embedder's lfi_proc_free(p) is
    \* per attachment context
    ctxProc,      \* its process
    ctxSt,        \* how far its attachment is
    nodes,        \* contexts whose AttachedCtx node is allocated
    \* per host thread
    pc,           \* where it is
    cur,          \* the context it is attaching or detaching
    list,         \* tstate.cleanup_data: the AttachedCtx list
    cleanup,      \* is tstate.cleanup set?
    armed,        \* tstate_armed
    keySet,       \* is the thread's tstate_key value non-null?
    walk,         \* what thread_destructor has left to detach
    leaving,      \* threads whose start routine has returned
    child,        \* the thread it is spawning
    \* per runtime thread
    rproc,        \* its process
    objs,         \* runtime threads whose LFILinuxThread is allocated
    \* the whole program
    aborted       \* abort() was called

procVars   == <<present, attached, active, threads, pending, lkProc, lkClone,
                waiters, terminating, fpc>>
ctxVars    == <<ctxProc, ctxSt, nodes>>
tlsVars    == <<list, cleanup, armed, keySet, walk, leaving>>
vars == <<procVars, ctxVars, pc, cur, tlsVars, child, rproc, objs, aborted>>

-----------------------------------------------------------------------------
CtxState == {"unused", "creating", "live", "freed", "released"}
ThreadPC == {"none", "starting", "host", "sandbox", "spawn", "clone", "creating",
             "attach", "destroying", "detached", "drain", "destroy", "left",
             "exiting", "walk", "done"}
FreePC   == {"idle", "drain", "decide", "destroy", "deferred", "done"}

TypeOK ==
    /\ present \subseteq Proc
    /\ attached \in [Proc -> Nat]
    /\ active \in [Proc -> Nat]
    /\ threads \in [Proc -> SUBSET Runtime]
    /\ pending \in [Proc -> BOOLEAN]
    /\ lkProc \in [Proc -> BOOLEAN]
    /\ lkClone \in [Proc -> Thread \cup {None}]
    /\ waiters \in [Proc -> SUBSET (Thread \cup Proc)]
    /\ terminating \in [Proc -> BOOLEAN]
    /\ fpc \in [Proc -> FreePC]
    /\ ctxProc \in [Ctx -> Proc \cup {None}]
    /\ ctxSt \in [Ctx -> CtxState]
    /\ nodes \subseteq Ctx
    /\ pc \in [Thread -> ThreadPC]
    /\ cur \in [Thread -> Ctx \cup {None}]
    /\ list \in [Thread -> Seq(Ctx)]
    /\ cleanup \in [Thread -> BOOLEAN]
    /\ armed \in [Thread -> BOOLEAN]
    /\ keySet \in [Thread -> BOOLEAN]
    /\ walk \in [Thread -> Seq(Ctx)]
    /\ leaving \subseteq Thread
    /\ child \in [Thread -> Runtime \cup {None}]
    /\ rproc \in [Runtime -> Proc \cup {None}]
    /\ objs \subseteq Runtime
    /\ aborted \in BOOLEAN

Init ==
    /\ present = Proc
    /\ attached = [p \in Proc |-> 0]
    /\ active = [p \in Proc |-> 0]
    /\ threads = [p \in Proc |-> {}]
    /\ pending = [p \in Proc |-> FALSE]
    /\ lkProc = [p \in Proc |-> FALSE]
    /\ lkClone = [p \in Proc |-> None]
    /\ waiters = [p \in Proc |-> {}]
    /\ terminating = [p \in Proc |-> FALSE]
    /\ fpc = [p \in Proc |-> "idle"]
    /\ ctxProc = [c \in Ctx |-> None]
    /\ ctxSt = [c \in Ctx |-> "unused"]
    /\ nodes = {}
    /\ pc = [t \in Thread |-> IF t \in Host THEN "host" ELSE "none"]
    /\ cur = [t \in Thread |-> None]
    /\ list = [t \in Thread |-> <<>>]
    /\ cleanup = [t \in Thread |-> FALSE]
    /\ armed = [t \in Thread |-> FALSE]
    /\ keySet = [t \in Thread |-> FALSE]
    /\ walk = [t \in Thread |-> <<>>]
    /\ leaving = {}
    /\ child = [t \in Thread |-> None]
    /\ rproc = [r \in Runtime |-> None]
    /\ objs = {}
    /\ aborted = FALSE

-----------------------------------------------------------------------------
\* Where a call made by embedder code returns to on this thread.
Home(t) ==
    IF t \in leaving THEN "exiting" ELSE IF t \in Host THEN "host" ELSE "sandbox"

\* Embedder code runs on t: its start routine, a callback, a TLS destructor.
HostCode(t) ==
    \/ pc[t] = "host"
    \/ pc[t] = "sandbox" /\ CallbackAttach
    \/ pc[t] = "exiting" /\ LateCalls

\* The embedder starts no first call once it called lfi_proc_free; callbacks of
\* the sandbox's own threads are out of its hands.
MayEnter(t, p) ==
    \/ fpc[p] = "idle"
    \/ t \in Runtime \ leaving /\ rproc[t] = p

\* Sandbox code of p runs on t.
InSandbox(t, p) ==
    \/ pc[t] = "sandbox" /\ rproc[t] = p
    \/ /\ pc[t] \in {"host", "sandbox"}
       /\ \E i \in DOMAIN list[t] :
              ctxProc[list[t][i]] = p /\ ctxSt[list[t][i]] = "live"

Goto(t, label) == pc' = [pc EXCEPT ![t] = label]

\* Mutants of the next operators, each a slip the code could contain.
SignalNobody(p) == waiters' = waiters
DrainedUnchecked(p) == TRUE
MustDeferOffByOne(p) == attached[p] > 1
DoDestroyNoPending(p) == attached[p] = 1
DoDestroyStaleCount(p) == attached[p] = 0 /\ pending[p]
UnlinkNothing(s, i) == s
UnlinkPrefix(s, i) == SubSeq(s, i + 1, Len(s))
CloneUnlocked(p) == TRUE
PushUncounted(p) == attached' = attached

\* The loop condition on active_threads in lfi_proc_free and detach_ctx.
Drained(p) == active[p] = 0

\* lfi_proc_free must leave the free to the last detach.
MustDefer(p) == attached[p] > 0

\* do_destroy: the value atomic_fetch_sub returned was 1.
DoDestroy(p) == attached[p] = 1 /\ pending[p]

\* *link = node->next.
Unlink(s, i) == SubSeq(s, 1, i - 1) \o SubSeq(s, i + 1, Len(s))

\* lk_clone can be taken.
CloneFree(p) == lkClone[p] = None

\* The increment that opens the clone callback.
CountAttach(p) == attached' = [attached EXCEPT ![p] = @ + 1]

\* pthread_cond_signal(&cond_threads): one waiter, if any.
Signal(p) ==
    IF waiters[p] = {} THEN waiters' = waiters
    ELSE \E w \in waiters[p] : waiters' = [waiters EXCEPT ![p] = @ \ {w}]

\* lfi_set_thread_cleanup(thread_destructor, head); the key is set only once.
SetThreadCleanup(t, head) ==
    /\ list' = [list EXCEPT ![t] = head]
    /\ cleanup' = [cleanup EXCEPT ![t] = TRUE]
    /\ keySet' = [keySet EXCEPT ![t] = @ \/ ~armed[t]]
    /\ armed' = [armed EXCEPT ![t] = TRUE]

\* proc_destroy: the threads still listed, then the process itself.
ProcDestroy(p) ==
    /\ objs' = objs \ threads[p]
    /\ threads' = [threads EXCEPT ![p] = {}]
    /\ present' = present \ {p}

-----------------------------------------------------------------------------
(* Attaching: lfi_clone -> lfi_linux_clone_cb.                              *)

Enter(t, p, c) ==
    /\ HostCode(t) /\ MayEnter(t, p)
    /\ ctxSt[c] = "unused"
    /\ CountAttach(p)
    /\ ctxSt' = [ctxSt EXCEPT ![c] = "creating"]
    /\ ctxProc' = [ctxProc EXCEPT ![c] = p]
    /\ cur' = [cur EXCEPT ![t] = c]
    /\ Goto(t, "clone")
    /\ UNCHANGED <<present, active, threads, pending, lkProc, lkClone, waiters,
                   terminating, fpc, nodes, tlsVars, child, rproc, objs, aborted>>

LockClone(t) ==
    /\ pc[t] = "clone"
    /\ CloneFree(ctxProc[cur[t]])
    /\ lkClone' = [lkClone EXCEPT ![ctxProc[cur[t]]] = t]
    /\ Goto(t, "creating")
    /\ UNCHANGED <<present, attached, active, threads, pending, lkProc, waiters,
                   terminating, fpc, ctxVars, cur, tlsVars, child, rproc, objs,
                   aborted>>

\* The clone syscall inside thread_create made a context; it paused.
CloneRun(t) ==
    LET p == ctxProc[cur[t]] IN
    /\ pc[t] = "creating"
    /\ ~terminating[p]
    /\ ctxSt' = [ctxSt EXCEPT ![cur[t]] = "live"]
    /\ lkClone' = [lkClone EXCEPT ![p] = None]
    /\ Goto(t, "attach")
    /\ UNCHANGED <<present, attached, active, threads, pending, lkProc, waiters,
                   terminating, fpc, ctxProc, nodes, cur, tlsVars, child, rproc,
                   objs, aborted>>

\* thread_create came back without one: thread_clone had no memory, or the
\* checkpoint of its first syscall saw terminating. lfi_clone then aborts.
CloneFail(t) ==
    LET p == ctxProc[cur[t]] IN
    /\ pc[t] = "creating"
    /\ lkClone' = [lkClone EXCEPT ![p] = None]
    /\ attached' = [attached EXCEPT ![p] = @ - 1]
    /\ ctxSt' = [ctxSt EXCEPT ![cur[t]] = "released"]
    /\ cur' = [cur EXCEPT ![t] = None]
    /\ Goto(t, Home(t))
    /\ aborted' = TRUE
    /\ UNCHANGED <<present, active, threads, pending, lkProc, waiters, terminating,
                   fpc, ctxProc, nodes, tlsVars, child, rproc, objs>>

AttachCtx(t) ==
    LET c == cur[t] IN
    /\ pc[t] = "attach"
    /\ nodes' = nodes \cup {c}
    /\ SetThreadCleanup(t, <<c>> \o list[t])
    /\ cur' = [cur EXCEPT ![t] = None]
    /\ Goto(t, Home(t))
    /\ UNCHANGED <<procVars, ctxProc, ctxSt, walk, leaving, child, rproc, objs,
                   aborted>>

\* No memory for the node or no TLS key: the sandbox side is left behind.
AttachFail(t) ==
    LET c == cur[t] IN
    /\ pc[t] = "attach"
    /\ attached' = [attached EXCEPT ![ctxProc[c]] = @ - 1]
    /\ ctxSt' = [ctxSt EXCEPT ![c] = "released"]
    /\ cur' = [cur EXCEPT ![t] = None]
    /\ Goto(t, Home(t))
    /\ aborted' = TRUE
    /\ UNCHANGED <<present, active, threads, pending, lkProc, lkClone, waiters,
                   terminating, fpc, ctxProc, nodes, tlsVars, child, rproc, objs>>

-----------------------------------------------------------------------------
(* Detaching: lfi_linux_detach_thread, thread_destructor, detach_ctx.       *)

\* The first node of p leaves the list; the other nodes keep their order.
Detach(t, p) ==
    \E i \in DOMAIN list[t] :
        LET c == list[t][i] IN
        /\ HostCode(t)
        /\ ctxProc[c] = p
        /\ \A j \in 1 .. i - 1 : ctxProc[list[t][j]] # p
        /\ SetThreadCleanup(t, Unlink(list[t], i))
        /\ nodes' = nodes \ {c}
        /\ cur' = [cur EXCEPT ![t] = c]
        /\ Goto(t, "destroying")
        /\ UNCHANGED <<procVars, ctxProc, ctxSt, walk, leaving, child, rproc,
                       objs, aborted>>

\* tstate_destructor: cleanup is cleared first, cleanup_data is not.
StartDestructor(t) ==
    /\ pc[t] = "exiting"
    /\ keySet[t]
    /\ keySet' = [keySet EXCEPT ![t] = FALSE]
    /\ cleanup' = [cleanup EXCEPT ![t] = FALSE]
    /\ walk' = [walk EXCEPT ![t] = IF cleanup[t] THEN list[t] ELSE <<>>]
    /\ Goto(t, "walk")
    /\ UNCHANGED <<procVars, ctxVars, cur, list, armed, leaving, child, rproc,
                   objs, aborted>>

WalkNext(t) ==
    /\ pc[t] = "walk"
    /\ walk[t] # <<>>
    /\ cur' = [cur EXCEPT ![t] = Head(walk[t])]
    /\ Goto(t, "destroying")
    /\ UNCHANGED <<procVars, ctxVars, tlsVars, child, rproc, objs, aborted>>

WalkEnd(t) ==
    /\ pc[t] = "walk"
    /\ walk[t] = <<>>
    /\ Goto(t, "exiting")
    /\ UNCHANGED <<procVars, ctxVars, cur, tlsVars, child, rproc, objs, aborted>>

\* detach_ctx returns: to the loop, which frees the node, or to the caller.
DetachReturn(t) ==
    /\ cur' = [cur EXCEPT ![t] = None]
    /\ IF walk[t] = <<>>
       THEN /\ Goto(t, Home(t))
            /\ UNCHANGED <<nodes, walk>>
       ELSE /\ nodes' = nodes \ {cur[t]}
            /\ walk' = [walk EXCEPT ![t] = Tail(@)]
            /\ Goto(t, "walk")

\* The sandbox's thread_destroy, then lfi_thread_free.
ThreadDestroy(t) ==
    /\ pc[t] = "destroying"
    /\ ctxSt' = [ctxSt EXCEPT ![cur[t]] = "freed"]
    /\ Goto(t, "detached")
    /\ UNCHANGED <<procVars, ctxProc, nodes, cur, tlsVars, child, rproc, objs,
                   aborted>>

\* The critical section of lk_proc; do_destroy decides who frees the process.
Decrement(t) ==
    LET p == ctxProc[cur[t]] IN
    /\ pc[t] = "detached"
    /\ ~lkProc[p]
    /\ attached' = [attached EXCEPT ![p] = @ - 1]
    /\ ctxSt' = [ctxSt EXCEPT ![cur[t]] = "released"]
    /\ IF DoDestroy(p)
       THEN /\ Goto(t, "drain")
            /\ UNCHANGED <<cur, nodes, walk>>
       ELSE DetachReturn(t)
    /\ UNCHANGED <<present, active, threads, pending, lkProc, lkClone, waiters,
                   terminating, fpc, ctxProc, list, cleanup, armed, keySet,
                   leaving, child, rproc, objs, aborted>>

DrainWait(t) ==
    LET p == ctxProc[cur[t]] IN
    /\ pc[t] = "drain" /\ t \notin waiters[p]
    /\ ~Drained(p)
    /\ waiters' = [waiters EXCEPT ![p] = @ \cup {t}]
    /\ UNCHANGED <<present, attached, active, threads, pending, lkProc, lkClone,
                   terminating, fpc, ctxVars, pc, cur, tlsVars, child, rproc, objs,
                   aborted>>

DrainDone(t) ==
    LET p == ctxProc[cur[t]] IN
    /\ pc[t] = "drain" /\ t \notin waiters[p]
    /\ Drained(p)
    /\ Goto(t, "destroy")
    /\ UNCHANGED <<procVars, ctxVars, cur, tlsVars, child, rproc, objs, aborted>>

LastDetachDestroy(t) ==
    /\ pc[t] = "destroy"
    /\ ProcDestroy(ctxProc[cur[t]])
    /\ DetachReturn(t)
    /\ UNCHANGED <<attached, active, pending, lkProc, lkClone, waiters, terminating,
                   fpc, ctxProc, ctxSt, list, cleanup, armed, keySet, leaving,
                   child, rproc, aborted>>

-----------------------------------------------------------------------------
(* Threads of the sandbox: spawn, threadspawn, thread_exit.                 *)

\* spawn up to pthread_create. The clone syscall begins with a checkpoint.
SpawnAdd(t, p, r) ==
    /\ InSandbox(t, p) /\ ~terminating[p]
    /\ pc[r] = "none"
    /\ threads' = [threads EXCEPT ![p] = @ \cup {r}]
    /\ active' = [active EXCEPT ![p] = @ + 1]
    /\ objs' = objs \cup {r}
    /\ rproc' = [rproc EXCEPT ![r] = p]
    /\ child' = [child EXCEPT ![t] = r]
    /\ pc' = [pc EXCEPT ![t] = "spawn", ![r] = "starting"]
    /\ UNCHANGED <<present, attached, pending, lkProc, lkClone, waiters,
                   terminating, fpc, ctxVars, cur, tlsVars, aborted>>

SpawnOk(t) ==
    /\ pc[t] = "spawn"
    /\ pc' = [pc EXCEPT ![t] = Home(t), ![child[t]] = "sandbox"]
    /\ child' = [child EXCEPT ![t] = None]
    /\ UNCHANGED <<procVars, ctxVars, cur, tlsVars, rproc, objs, aborted>>

\* pthread_create failed: undo under lk_threads, signal, free the thread.
SpawnFail(t) ==
    LET r == child[t]
        p == rproc[r] IN
    /\ pc[t] = "spawn"
    /\ threads' = [threads EXCEPT ![p] = @ \ {r}]
    /\ active' = [active EXCEPT ![p] = @ - 1]
    /\ Signal(p)
    /\ objs' = objs \ {r}
    /\ pc' = [pc EXCEPT ![t] = Home(t), ![r] = "done"]
    /\ child' = [child EXCEPT ![t] = None]
    /\ UNCHANGED <<present, attached, pending, lkProc, lkClone, terminating, fpc,
                   ctxVars, cur, tlsVars, rproc, aborted>>

\* thread_exit on a runtime thread: exit, exit_group or a checkpoint.
ThreadExit(r) ==
    /\ pc[r] = "sandbox" /\ r \in Runtime
    /\ terminating' \in {terminating, [terminating EXCEPT ![rproc[r]] = TRUE]}
    /\ threads' = [threads EXCEPT ![rproc[r]] = @ \ {r}]
    /\ Goto(r, "left")
    /\ UNCHANGED <<present, attached, active, pending, lkProc, lkClone, waiters,
                   fpc, ctxVars, cur, tlsVars, child, rproc, objs, aborted>>

\* sys_lfi_pause on a runtime thread leaves lfi_ctx_run without the list.
ThreadPause(r) ==
    /\ pc[r] = "sandbox" /\ r \in Runtime
    /\ ~terminating[rproc[r]]
    /\ Goto(r, "left")
    /\ UNCHANGED <<procVars, ctxVars, cur, tlsVars, child, rproc, objs, aborted>>

\* exit_group on a host thread's context: the call returns to the embedder.
HostExitGroup(t, p) ==
    /\ t \in Host /\ InSandbox(t, p)
    /\ ~terminating[p]
    /\ terminating' = [terminating EXCEPT ![p] = TRUE]
    /\ UNCHANGED <<present, attached, active, threads, pending, lkProc, lkClone,
                   waiters, fpc, ctxVars, pc, cur, tlsVars, child, rproc, objs,
                   aborted>>

\* The end of threadspawn.
ThreadLeave(r) ==
    LET p == rproc[r] IN
    /\ pc[r] = "left"
    /\ threads' = [threads EXCEPT ![p] = @ \ {r}]
    /\ objs' = objs \ {r}
    /\ active' = [active EXCEPT ![p] = @ - 1]
    /\ Signal(p)
    /\ leaving' = leaving \cup {r}
    /\ Goto(r, "exiting")
    /\ UNCHANGED <<present, attached, pending, lkProc, lkClone, terminating, fpc,
                   ctxVars, cur, list, cleanup, armed, keySet, walk, child, rproc,
                   aborted>>

\* A host thread's start routine returns.
HostReturn(t) ==
    /\ pc[t] = "host"
    /\ leaving' = leaving \cup {t}
    /\ Goto(t, "exiting")
    /\ UNCHANGED <<procVars, ctxVars, cur, list, cleanup, armed, keySet, walk, child,
                   rproc, objs, aborted>>

\* No TLS destructor is left to run.
ThreadDone(t) ==
    /\ pc[t] = "exiting"
    /\ ~keySet[t]
    /\ Goto(t, "done")
    /\ UNCHANGED <<procVars, ctxVars, cur, tlsVars, child, rproc, objs, aborted>>

-----------------------------------------------------------------------------
(* lfi_proc_free, called once per process.                                  *)

FreeCall(p) ==
    /\ fpc[p] = "idle"
    /\ ~lkProc[p]
    /\ lkProc' = [lkProc EXCEPT ![p] = TRUE]
    /\ fpc' = [fpc EXCEPT ![p] = "drain"]
    /\ UNCHANGED <<present, attached, active, threads, pending, lkClone, waiters,
                   terminating, ctxVars, pc, cur, tlsVars, child, rproc, objs,
                   aborted>>

FreeWait(p) ==
    /\ fpc[p] = "drain" /\ p \notin waiters[p]
    /\ ~Drained(p)
    /\ waiters' = [waiters EXCEPT ![p] = @ \cup {p}]
    /\ UNCHANGED <<present, attached, active, threads, pending, lkProc, lkClone,
                   terminating, fpc, ctxVars, pc, cur, tlsVars, child, rproc, objs,
                   aborted>>

FreeDrained(p) ==
    /\ fpc[p] = "drain" /\ p \notin waiters[p]
    /\ Drained(p)
    /\ fpc' = [fpc EXCEPT ![p] = "decide"]
    /\ UNCHANGED <<present, attached, active, threads, pending, lkProc, lkClone,
                   waiters, terminating, ctxVars, pc, cur, tlsVars, child, rproc,
                   objs, aborted>>

FreeDecide(p) ==
    /\ fpc[p] = "decide"
    /\ IF MustDefer(p)
       THEN /\ pending' = [pending EXCEPT ![p] = TRUE]
            /\ fpc' = [fpc EXCEPT ![p] = "deferred"]
       ELSE /\ fpc' = [fpc EXCEPT ![p] = "destroy"]
            /\ pending' = pending
    /\ lkProc' = [lkProc EXCEPT ![p] = FALSE]
    /\ UNCHANGED <<present, attached, active, threads, lkClone, waiters, terminating,
                   ctxVars, pc, cur, tlsVars, child, rproc, objs, aborted>>

FreeDestroy(p) ==
    /\ fpc[p] = "destroy"
    /\ ProcDestroy(p)
    /\ fpc' = [fpc EXCEPT ![p] = "done"]
    /\ UNCHANGED <<attached, active, pending, lkProc, lkClone, waiters, terminating,
                   ctxVars, pc, cur, tlsVars, child, rproc, aborted>>

\* pthread_cond_wait may return without a signal.
SpuriousWake(p) ==
    /\ \E w \in waiters[p] : waiters' = [waiters EXCEPT ![p] = @ \ {w}]
    /\ UNCHANGED <<present, attached, active, threads, pending, lkProc, lkClone,
                   terminating, fpc, ctxVars, pc, cur, tlsVars, child, rproc, objs,
                   aborted>>

-----------------------------------------------------------------------------
AttachStep(t) == LockClone(t) \/ CloneRun(t) \/ CloneFail(t) \/ AttachCtx(t)
                 \/ AttachFail(t)
DetachStep(t) == ThreadDestroy(t) \/ Decrement(t) \/ DrainWait(t) \/ DrainDone(t)
                 \/ LastDetachDestroy(t)
ExitStep(t)   == HostReturn(t) \/ StartDestructor(t) \/ WalkNext(t) \/ WalkEnd(t)
                 \/ ThreadDone(t)
SpawnStep(t)  == SpawnOk(t) \/ SpawnFail(t)
LeaveStep(r)  == ThreadExit(r) \/ ThreadPause(r) \/ ThreadLeave(r)
FreeStep(p)   == FreeWait(p) \/ FreeDrained(p) \/ FreeDecide(p) \/ FreeDestroy(p)

\* The program stopped: abort, or every thread ended and every free is over.
Stopped ==
    \/ aborted
    \/ /\ \A t \in Thread : pc[t] \in {"none", "done"}
       /\ \A p \in Proc : fpc[p] \in {"deferred", "done"}

Next ==
    \/ /\ ~aborted
       /\ \/ \E t \in Thread, p \in Proc, c \in Ctx : Enter(t, p, c)
          \/ \E t \in Thread : AttachStep(t)
          \/ \E t \in Thread, p \in Proc : Detach(t, p)
          \/ \E t \in Thread : DetachStep(t)
          \/ \E t \in Thread : ExitStep(t)
          \/ \E t \in Thread, p \in Proc, r \in Runtime : SpawnAdd(t, p, r)
          \/ \E t \in Thread : SpawnStep(t)
          \/ \E r \in Runtime : LeaveStep(r)
          \/ \E t \in Thread, p \in Proc : HostExitGroup(t, p)
          \/ \E p \in Proc : FreeCall(p) \/ FreeStep(p) \/ SpuriousWake(p)
    \/ Stopped /\ UNCHANGED vars

\* Threads and lfi_proc_free run on; host threads return from their start
\* routine and the sandbox's threads leave the sandbox, sooner or later.
Fairness ==
    /\ \A t \in Thread : WF_vars(~aborted /\ (AttachStep(t) \/ DetachStep(t) \/
                                              ExitStep(t) \/ SpawnStep(t)))
    /\ \A r \in Runtime : WF_vars(~aborted /\ LeaveStep(r))
    /\ \A p \in Proc : WF_vars(~aborted /\ FreeStep(p))

Spec == Init /\ [][Next]_vars

FairSpec == Spec /\ Fairness
-----------------------------------------------------------------------------
(* Properties.                                                              *)

\* The contexts attached_threads counts, the threads active_threads counts.
Holding(p) == {c \in Ctx : ctxProc[c] = p /\ ctxSt[c] \in {"creating", "live", "freed"}}
Spawned(p) == {r \in objs : rproc[r] = p}

\* Thread t is in the middle of something that dereferences p.
Uses(t, p) ==
    \/ /\ pc[t] \in {"clone", "creating", "attach", "destroying", "detached",
                     "drain", "destroy"}
       /\ ctxProc[cur[t]] = p
    \/ pc[t] = "spawn" /\ rproc[child[t]] = p
    \/ t \in Runtime \ leaving /\ pc[t] \notin {"none", "done"} /\ rproc[t] = p
    \/ \E i \in DOMAIN walk[t] : ctxProc[walk[t][i]] = p

\* Who has decided to call proc_destroy(p).
Reclaimers(p) ==
    {t \in Thread : pc[t] \in {"drain", "destroy"} /\ ctxProc[cur[t]] = p}
        \cup (IF fpc[p] = "destroy" THEN {p} ELSE {})

\* No thread, and no lfi_proc_free, uses a process after proc_destroy freed it,
\* and no sandbox thread runs on a freed LFILinuxThread (trampoline.c: "the
\* proc memory we touch above is guaranteed live").
NoUseAfterDestroy ==
    /\ \A t \in Thread, p \in Proc : Uses(t, p) => p \in present
    /\ \A p \in Proc : fpc[p] \in {"drain", "decide", "destroy"} => p \in present
    /\ \A r \in Runtime \ leaving : pc[r] \notin {"none", "done"} => r \in objs

\* A freed proc is claimed by nobody, a live one by at most one, and a deferred
\* free whose last attachment is gone by exactly one: neither a second
\* proc_destroy nor a process nobody will ever free.
OneReclaimer ==
    \A p \in Proc :
        /\ Cardinality(Reclaimers(p)) <= IF p \in present THEN 1 ELSE 0
        /\ pending[p] /\ attached[p] = 0 /\ p \in present /\ ~aborted
               => Reclaimers(p) # {}

\* Nobody sleeps on cond_threads once active_threads is zero: one
\* pthread_cond_signal per exit is enough.
NoLostWakeup == \A p \in Proc : active[p] = 0 => waiters[p] = {}

\* Wherever embedder code may call lfi_linux_detach_thread or be attached again,
\* the cleanup list holds allocated nodes of live contexts only ("if the current
\* thread is not attached to proc, this is a no-op", lfi_linux.h).
ListSound ==
    \A t \in Thread : HostCode(t) =>
        \A i \in DOMAIN list[t] :
            list[t][i] \in nodes /\ ctxSt[list[t][i]] = "live"

\* Every attachment that attached_threads counts is in the hands of a thread that
\* has still to exit, whatever was unlinked or walked: the counter is "decremented
\* when it exits or is explicitly detached" (proc.h), so none is left behind.
ExitDetaches ==
    \A p \in Proc : \A c \in Holding(p) :
        \E t \in Thread :
            /\ pc[t] # "done"
            /\ c = cur[t] \/ \E i \in DOMAIN list[t] : c = list[t][i]

\* The registers of clone_ctx serve one thread_create at a time.
CloneExclusive ==
    \A t, u \in Thread :
        pc[t] = "creating" /\ pc[u] = "creating" /\ ctxProc[cur[t]] = ctxProc[cur[u]]
            => t = u

\* proc_destroy runs only when no thread uses the proc: "Callers must ensure no
\* thread is using the proc anymore (active_threads == 0, attached_threads ==
\* 0)" (proc.h). The list of threads it walks is then empty.
DestroyQuiescent ==
    [][\A p \in present \ present' :
          attached[p] = 0 /\ active[p] = 0 /\ threads[p] = {}]_vars

\* lfi_proc_free frees the process in the end, itself or through the last
\* detach, if the sandbox's threads leave and the host threads exit.
FreeCompletes == \A p \in Proc : fpc[p] # "idle" ~> (p \notin present \/ aborted)

\* The counters, flag and locks implement deferred reclamation.
Abs == INSTANCE DeferredFree WITH
          User <- Ctx \cup Runtime,
          users <- [p \in Proc |-> Holding(p) \cup Spawned(p)],
          requested <- {p \in Proc : fpc[p] # "idle"}

AbsSpec == Abs!Spec
=============================================================================
