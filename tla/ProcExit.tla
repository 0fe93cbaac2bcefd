------------------------------ MODULE ProcExit ------------------------------
(***************************************************************************)
(* How the threads of one sandbox are told to leave, and how those that    *)
(* join them learn of it: thread_exit and its two system calls             *)
(* (linux/sys/sys_exit.c, sys_exit_group.c), sys_checkpoint in sys.h and   *)
(* syshandle, sys_lfi_pause, the parts of sys_clone that concern thread    *)
(* ids and the lazily attached thread, sys_set_tid_address, sys_futex and  *)
(* lfi_proc_exited.                                                        *)
(*                                                                         *)
(* A thread of this module is a sandbox context and the host thread that   *)
(* runs it.  exit_code and terminating are two atomics, so each access is  *)
(* a step of its own.  A thread-id word is cleared by the runtime only;    *)
(* libc gives it to one thread at a time and waits on it for a value that  *)
(* is not zero.  Futexes of other words are between the sandbox and the    *)
(* host kernel.                                                            *)
(***************************************************************************)
EXTENDS Integers, FiniteSets

CONSTANTS
    Main,     \* the thread lfi_thread_new made
    Spawned,  \* threads sys_clone makes a pthread for
    Cloner,   \* proc->clone_ctx, entered by hosts that want to attach
    Lazy,     \* contexts made through it for host threads
    Word,     \* thread-id words in sandbox memory
    Code,     \* exit codes, 0 among them
    None

Thread == {Main, Cloner} \cup Spawned \cup Lazy

ASSUME ExitAssumption ==
    /\ 0 \in Code
    /\ Main \notin Spawned \cup Lazy \cup {Cloner}
    /\ Cloner \notin Spawned \cup Lazy
    /\ Spawned \cap Lazy = {}
    /\ None \notin Thread \cup Word \cup Code
    /\ 0 \notin Thread

VARIABLES
    terminating, exitCode,  \* proc->terminating, proc->exit_code
    owner,                  \* thread->owner
    pc,                     \* where the thread is
    arg,                    \* the code it leaves with, 0 otherwise
    exited, paused,         \* thread->exited, thread->paused
    listed,                 \* proc->threads
    ctid,                   \* thread->ctidp, a word or None
    mem,                    \* the words
    on,                     \* the word a thread sleeps on
    made,                   \* the thread a sys_clone made; of Cloner, new_ctx
    aborted,                \* why and in which thread the host process aborted
    requested               \* ghost: codes passed to exit_group

exitVars == <<terminating, exitCode, owner, pc, arg, exited, paused, listed,
              ctid, mem, on, made, aborted, requested>>

Where == {"unborn", "host", "box", "call", "told", "coded", "exit", "remove", "clear",
          "wake", "out", "asleep", "cloned", "attaching", "gone"}
NoAbort == [why |-> "no", by |-> None]

ExitInit ==
    /\ terminating = FALSE /\ exitCode = 0
    /\ owner = [t \in Thread |-> IF t = Main THEN "main" ELSE
                                 IF t = Cloner THEN "host" ELSE "runtime"]
    /\ pc = [t \in Thread |-> IF t \in {Main, Cloner} THEN "host" ELSE "unborn"]
    /\ arg = [t \in Thread |-> 0]
    /\ exited = [t \in Thread |-> FALSE]
    /\ paused = [t \in Thread |-> t = Cloner]
    /\ listed = {}
    /\ ctid = [t \in Thread |-> None]
    /\ mem = [w \in Word |-> 0]
    /\ on = [t \in Thread |-> None]
    /\ made = [t \in Thread |-> None]
    /\ aborted = NoAbort
    /\ requested = {}

-----------------------------------------------------------------------------
Move(t, from, to) == aborted = NoAbort /\ pc[t] = from /\ pc' = [pc EXCEPT ![t] = to]
Abort(t, from, why) ==
    aborted = NoAbort /\ pc[t] = from /\ aborted' = [why |-> why, by |-> t] /\ UNCHANGED pc

Request == <<terminating, exitCode, requested>>      \* what exit_group changes
Marks == <<owner, exited, paused, listed>>           \* what is known of a thread
Ids == <<ctid, mem, on, made>>                       \* thread ids and who waits

\* A word libc may give to a new thread.
Fresh(w) == mem[w] = 0 /\ \A t \in Thread : ctid[t] = w => pc[t] \in {"unborn", "gone"}

\* The sandbox code that runs was called by the host, through the trampoline.
InCall(t) == paused[t] \/ owner[t] = "host"

-----------------------------------------------------------------------------
(* Entering the sandbox, and the checkpoint every system call begins with. *)

\* lfi_thread_run of the main thread, or a call through the trampoline.  A
\* call on clone_ctx runs thread_create, with new_ctx reset.
EnterBox(t) ==
    /\ t \in Spawned \cup {Main} => ~exited[t]
    /\ Move(t, "host", "box")
    /\ made' = [made EXCEPT ![t] = None]
    /\ UNCHANGED <<Request, Marks, arg, ctid, mem, on, aborted>>

\* The call returns to the host.  lfi_clone aborts when no context was made.
ReturnBox(t) ==
    /\ InCall(t)
    /\ IF t = Cloner /\ made[t] = None
          THEN Abort(t, "box", "attach")
          ELSE Move(t, "box", "host") /\ UNCHANGED aborted
    /\ UNCHANGED <<Request, Marks, arg, Ids>>

Checkpoint(t) ==
    /\ Move(t, "box", IF terminating THEN "told" ELSE "call")
    /\ UNCHANGED <<Request, Marks, arg, Ids, aborted>>

ReadCode(t) ==
    /\ Move(t, "told", "exit")
    /\ arg' = [arg EXCEPT ![t] = exitCode]
    /\ UNCHANGED <<Request, Marks, Ids, aborted>>

-----------------------------------------------------------------------------
(* thread_exit. *)

ExitCall(t) ==
    /\ Move(t, "call", "exit")
    /\ \E c \in Code : arg' = [arg EXCEPT ![t] = c]
    /\ UNCHANGED <<Request, Marks, Ids, aborted>>

\* exit_code first, terminating after it.
FlagFirst(c) == terminating' = TRUE /\ UNCHANGED exitCode
FirstStore(c) == exitCode' = c /\ UNCHANGED terminating

ExitGroup(t) ==
    /\ Move(t, "call", "coded")
    /\ \E c \in Code :
         /\ FirstStore(c)
         /\ arg' = [arg EXCEPT ![t] = c]
         /\ requested' = requested \cup {c}
    /\ UNCHANGED <<Marks, Ids, aborted>>

Publish(t) ==
    /\ Move(t, "coded", "exit")
    /\ terminating' = TRUE
    /\ UNCHANGED <<exitCode, requested, arg, Marks, Ids, aborted>>

\* Who owns the host thread decides.
ExitHost(t) ==
    /\ owner[t] = "host"
    /\ Move(t, "exit", "clear")
    /\ UNCHANGED <<Request, Marks, arg, Ids, aborted>>

ExitPaused(t) ==
    /\ owner[t] # "host" /\ paused[t]
    /\ Abort(t, "exit", "paused")
    /\ UNCHANGED <<Request, Marks, arg, Ids>>

ExitOnce(t) ==
    /\ owner[t] # "host" /\ ~paused[t]
    /\ IF exited[t] THEN Abort(t, "exit", "twice") /\ UNCHANGED exited
                    ELSE /\ Move(t, "exit", "remove") /\ UNCHANGED aborted
                         /\ exited' = [exited EXCEPT ![t] = TRUE]
    /\ UNCHANGED <<Request, arg, owner, paused, listed, Ids>>

KeepListed(t) == listed
Unlisted(t) == listed \ {t}

ExitUnlist(t) ==
    /\ Move(t, "remove", "clear")
    /\ listed' = Unlisted(t)
    /\ UNCHANGED <<Request, arg, owner, exited, paused, Ids, aborted>>

Asleep(w) == {t \in Thread : pc[t] = "asleep" /\ on[t] = w}

\* clearctid: the store, then sys_futex(FUTEX_WAKE, INT_MAX).
Zeroed(t) == IF ctid[t] = None THEN mem ELSE [mem EXCEPT ![ctid[t]] = 0]
JoinersUnlessHost(t) == IF ctid[t] = None \/ owner[t] = "host" THEN {} ELSE Asleep(ctid[t])
OneJoiner(t) == IF ctid[t] = None \/ Asleep(ctid[t]) = {} THEN {}
                ELSE {CHOOSE u \in Asleep(ctid[t]) : TRUE}
Joiners(t) == IF ctid[t] = None THEN {} ELSE Asleep(ctid[t])

ClearStore(t) ==
    /\ Move(t, "clear", "wake")
    /\ mem' = Zeroed(t)
    /\ UNCHANGED <<Request, Marks, arg, ctid, on, made, aborted>>

\* Then out of the sandbox: lfi_ret_end for a host's own thread, whose caller
\* finds no context if it was attaching; lfi_ctx_exit for the others.
Wake(t, S) ==
    /\ on' = [u \in Thread |-> IF u \in S THEN None ELSE on[u]]
    /\ IF t = Cloner /\ made[t] = None
          THEN /\ aborted' = [why |-> "attach", by |-> t]
               /\ pc' = [u \in Thread |-> IF u \in S THEN "box" ELSE pc[u]]
          ELSE /\ UNCHANGED aborted
               /\ pc' = [u \in Thread |-> IF u \in S THEN "box" ELSE
                           IF u # t THEN pc[u] ELSE
                           IF owner[t] = "host" THEN "host" ELSE "out"]

ClearWake(t) ==
    /\ aborted = NoAbort /\ pc[t] = "wake"
    /\ Wake(t, Joiners(t))
    /\ arg' = IF owner[t] = "host" THEN [arg EXCEPT ![t] = 0] ELSE arg
    /\ UNCHANGED <<Request, Marks, ctid, mem, made>>

-----------------------------------------------------------------------------
(* The other system calls, after their checkpoint. *)

OtherCall(t) ==
    /\ Move(t, "call", "box")
    /\ UNCHANGED <<Request, Marks, arg, Ids, aborted>>

\* A host thread's context is under no lfi_ctx_run to leave: either it paused at
\* the end of its start-up, or it left that by exit and lfi_ctx_exit aborts.
Pause(t) ==
    /\ IF paused[t] \/ owner[t] = "host"
          THEN Abort(t, "call", "pause") /\ UNCHANGED arg
          ELSE /\ Move(t, "call", "out") /\ UNCHANGED aborted
               /\ arg' = [arg EXCEPT ![t] = 0]
    /\ paused' = [paused EXCEPT ![t] = TRUE]
    /\ UNCHANGED <<Request, owner, exited, listed, Ids>>

\* libc announces the main thread's word, and stores its id there itself.
SetTidAddress(t, w) ==
    /\ t = Main /\ ctid[t] = None /\ Fresh(w)
    /\ Move(t, "call", "box")
    /\ ctid' = [ctid EXCEPT ![t] = w]
    /\ mem' = [mem EXCEPT ![w] = t]
    /\ UNCHANGED <<Request, Marks, arg, on, made, aborted>>

FutexWait(t, w, v) ==
    /\ IF mem[w] = v THEN Move(t, "call", "asleep") /\ on' = [on EXCEPT ![t] = w]
                     ELSE Move(t, "call", "box") /\ UNCHANGED on
    /\ UNCHANGED <<Request, Marks, arg, ctid, mem, made, aborted>>

\* The timeout of the wait passes, or a signal ends it.
FutexTimeout(t) ==
    /\ Move(t, "asleep", "box")
    /\ on' = [on EXCEPT ![t] = None]
    /\ UNCHANGED <<Request, Marks, arg, ctid, mem, made, aborted>>

\* FUTEX_WAKE of at most one sleeper, as libc does for a word it shares.
FutexWake(t, w) ==
    /\ aborted = NoAbort /\ pc[t] = "call"
    /\ \E S \in SUBSET Asleep(w) :
         /\ Cardinality(S) = IF Asleep(w) = {} THEN 0 ELSE 1
         /\ pc' = [u \in Thread |-> IF u \in S \cup {t} THEN "box" ELSE pc[u]]
         /\ on' = [u \in Thread |-> IF u \in S THEN None ELSE on[u]]
    /\ UNCHANGED <<Request, Marks, arg, ctid, mem, made, aborted>>

Listed(t, u) == IF t = Cloner THEN listed ELSE listed \cup {u}

\* sys_clone up to the new thread's first step: its id is stored in the word
\* before it runs (CLONE_CHILD_SETTID) ...
Clone(t, u, w) ==
    /\ u \in IF t = Cloner THEN Lazy ELSE Spawned
    /\ pc[u] = "unborn" /\ Fresh(w)
    /\ aborted = NoAbort /\ pc[t] = "call"
    /\ pc' = [pc EXCEPT ![t] = IF t = Cloner THEN "attaching" ELSE "cloned", ![u] = "box"]
    /\ ctid' = [ctid EXCEPT ![u] = w]
    /\ mem' = [mem EXCEPT ![w] = u]
    /\ made' = [made EXCEPT ![t] = u]
    /\ listed' = Listed(t, u)
    /\ UNCHANGED <<Request, owner, exited, paused, arg, on, aborted>>

\* ... and the caller returns when pthread_create has.
CloneReturn(t) ==
    /\ Move(t, "cloned", "box")
    /\ made' = [made EXCEPT ![t] = None]
    /\ UNCHANGED <<Request, Marks, arg, ctid, mem, on, aborted>>

\* thread_clone, malloc or pthread_create failed: nothing is left of the
\* thread but, after the last of them, its id in the word.
CloneFails(t, u, w) ==
    /\ u \in IF t = Cloner THEN Lazy ELSE Spawned
    /\ pc[u] = "unborn" /\ Fresh(w)
    /\ Move(t, "call", "box")
    /\ mem' \in {mem, [mem EXCEPT ![w] = u]}
    /\ UNCHANGED <<Request, Marks, arg, ctid, on, made, aborted>>

-----------------------------------------------------------------------------
(* Back in the host. *)

\* lfi_thread_run returns.
MainReturn ==
    /\ Move(Main, "out", IF exited[Main] THEN "gone" ELSE "host")
    /\ arg' = [arg EXCEPT ![Main] = 0]
    /\ UNCHANGED <<Request, Marks, Ids, aborted>>

\* The end of threadspawn.
SpawnedEnd(t) ==
    /\ t \in Spawned
    /\ Move(t, "out", "gone")
    /\ listed' = listed \ {t}
    /\ arg' = [arg EXCEPT ![t] = 0]
    /\ UNCHANGED <<Request, owner, exited, paused, Ids, aborted>>

\* threadspawn_fake returns and sys_clone goes on: assert(code == 0).
HandOverNothing(u) == UNCHANGED owner
HandOver(u) == owner' = [owner EXCEPT ![u] = "host"]

FakeReturn(u) ==
    /\ u \in Lazy /\ made[Cloner] = u /\ pc[Cloner] = "attaching"
    /\ aborted = NoAbort /\ pc[u] = "out"
    /\ IF arg[u] # 0
          THEN aborted' = [why |-> "assert", by |-> Cloner] /\ UNCHANGED <<pc, owner>>
          ELSE /\ pc' = [pc EXCEPT ![u] = "host", ![Cloner] = "box"]
               /\ HandOver(u) /\ UNCHANGED aborted
    /\ UNCHANGED <<Request, exited, paused, listed, arg, Ids>>

\* lfi_proc_exited: the flag, then the code; the flag is never taken back.
ProcExited(c) == terminating /\ exitCode = c

-----------------------------------------------------------------------------
Leave(t) ==
    \/ ReadCode(t) \/ Publish(t) \/ ExitHost(t) \/ ExitPaused(t) \/ ExitOnce(t)
    \/ ExitUnlist(t) \/ ClearStore(t) \/ ClearWake(t)

Call(t) ==
    \/ ExitCall(t) \/ ExitGroup(t) \/ OtherCall(t) \/ Pause(t)
    \/ \E w \in Word : \/ SetTidAddress(t, w) \/ FutexWake(t, w)
                        \/ \E v \in Thread : \/ FutexWait(t, w, v) \/ Clone(t, v, w)
                                              \/ CloneFails(t, v, w)

ExitNext ==
    \/ \E t \in Thread : \/ EnterBox(t) \/ ReturnBox(t) \/ Checkpoint(t) \/ Call(t)
                          \/ Leave(t) \/ FutexTimeout(t) \/ CloneReturn(t)
                          \/ SpawnedEnd(t) \/ FakeReturn(t)
    \/ MainReturn

\* The host kernel schedules a thread that is leaving; what the sandbox's own
\* code does, and when, is up to it.
ExitSpec == ExitInit /\ [][ExitNext]_exitVars
FairExitSpec == ExitSpec /\ \A t \in Thread : WF_exitVars(Leave(t))

-----------------------------------------------------------------------------
\* Types.
ExitTypeOK ==
    /\ terminating \in BOOLEAN /\ exitCode \in Code
    /\ owner \in [Thread -> {"main", "runtime", "host"}]
    /\ pc \in [Thread -> Where]
    /\ arg \in [Thread -> Code]
    /\ exited \in [Thread -> BOOLEAN] /\ paused \in [Thread -> BOOLEAN]
    /\ listed \subseteq Spawned
    /\ ctid \in [Thread -> Word \cup {None}]
    /\ mem \in [Word -> Thread \cup {0}]
    /\ on \in [Thread -> Word \cup {None}]
    /\ made \in [Thread -> Thread \cup {None}]
    /\ requested \subseteq Code

\* Whoever learns of the end of the sandbox, a thread at its checkpoint or the
\* embedder in lfi_proc_exited, gets a code that was passed to exit_group.
CodeRequested ==
    /\ \A c \in Code : ProcExited(c) => c \in requested
    /\ \A t \in Thread : pc[t] = "told" => \E c \in requested : ProcExited(c)

\* A thread asleep on a thread-id word will be woken: the word still holds an
\* id, or the thread that cleared it is about to wake its sleepers.
NoLostJoin ==
    \A w \in Word : Asleep(w) # {} =>
        \/ mem[w] # 0
        \/ \E u \in Thread : ctid[u] = w /\ pc[u] = "wake"

\* proc->threads, which exit and free walk, lists exactly the spawned threads
\* that have not taken themselves off on their way out.
ThreadsListed ==
    listed = {t \in Spawned : pc[t] \notin {"unborn", "gone"} /\
                ~(exited[t] /\ pc[t] # "remove")}

\* In an attached thread exit, exit_group and the end of the sandbox leave that
\* one call and never count as the thread's end: of what aborts the host process,
\* an attached thread comes upon a pause of its own and, while it is being
\* attached, a start-up that made no context or left it with a code.
AttachedLeave ==
    /\ \/ aborted.by \notin Lazy \cup {Cloner}
       \/ aborted.why = "pause"
       \/ aborted.why \in {"attach", "assert"} /\ aborted.by = Cloner
    /\ \A t \in Lazy : owner[t] = "host" => pc[t] \notin {"remove", "out", "gone"}

\* Who sleeps until a thread ends is awake some time after that thread began
\* to leave.
JoinReturns ==
    \A t \in Thread :
        (pc[t] = "asleep" /\ \E u \in Thread : /\ ctid[u] = on[t]
                                              /\ pc[u] \in {"exit", "remove", "clear", "wake"})
          ~> (pc[t] # "asleep" \/ aborted # NoAbort)
=============================================================================
