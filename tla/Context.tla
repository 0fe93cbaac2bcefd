------------------------------- MODULE Context -------------------------------
(***************************************************************************)
(* One host thread that enters and leaves sandbox contexts: core/ctx.c     *)
(* (lfi_ctx_run, lfi_ctx_exit, the abort of a callback, lfi_cur_ctx),      *)
(* core/trampoline.c (lazy clone), core/core.c (lfi_syscall_handler) and   *)
(* the switches of core/arch: lfi_ctx_entry, lfi_ctx_end, lfi_trampoline,  *)
(* lfi_ret, lfi_callback and lfi_syscall_entry.                            *)
(*                                                                         *)
(* The host stack is an array of frames.  A switch finds its frame through *)
(* REGS_HOST_SP of the context, which each switch saves and restores in    *)
(* its own way; nothing in the code compares it with the frame it is meant *)
(* to find, and here it is only a number.  Positions on the sandbox stack  *)
(* are numbers too, deeper is larger.                                      *)
(***************************************************************************)
EXTENDS Integers, Sequences

CONSTANTS
    Ctx,       \* contexts, one per sandbox thread
    None,      \* no context
    Arch,      \* "x64" or "arm64": their lfi_callback differ
    Direct,    \* arm64: contexts whose callbacks may abort or exit (Contract)
    MaxFrames, \* bound on the host stack
    MaxSp      \* bound on the sandbox stacks

ASSUME ConstAssumption ==
    /\ None \notin Ctx
    /\ Arch \in {"x64", "arm64"}
    /\ Direct \subseteq Ctx
    /\ MaxFrames \in Nat \ {0} /\ MaxSp \in Nat

VARIABLES
    frames,       \* the host stack; what is popped is junk
    hsp,          \* the host stack pointer: how many frames are live
    hostSp,       \* regs.host_sp of each context
    rsp,          \* regs.rsp (regs.sp) of each context
    inRun,        \* in_ctx_run
    abortCb,      \* abort_callback
    info,         \* lfi_invoke_info.ctx: the context behind the pointer, and
                  \* the frame that holds the pointed-to variable (0: static)
    who,          \* "host", "box", "aborted", or "lost" after a wild return
    cur,          \* the context whose sandbox code runs
    sp            \* its stack pointer

vars == <<frames, hsp, hostSp, rsp, inRun, abortCb, info, who, cur, sp>>

SP == 0..MaxSp
Kinds == {"run", "invoke", "cloning", "callback", "syscall"}
NoInfo == [ctx |-> None, by |-> 0]
Junk == [kind |-> "junk", ctx |-> None, sp |-> 0, old |-> NoInfo]
Frame(k, c, s, o) == [kind |-> k, ctx |-> c, sp |-> s, old |-> o]

Init ==
    /\ frames = [i \in 1..MaxFrames |-> Junk]
    /\ hsp = 0
    /\ hostSp = [c \in Ctx |-> 0]
    /\ rsp = [c \in Ctx |-> 0]
    /\ inRun = [c \in Ctx |-> FALSE]
    /\ abortCb = [c \in Ctx |-> FALSE]
    /\ info = NoInfo
    /\ who = "host" /\ cur = None /\ sp = 0

-----------------------------------------------------------------------------
\* The frame on top of the host stack while host code runs.
On(k, c) == who = "host" /\ hsp > 0 /\ frames[hsp].kind = k /\ frames[hsp].ctx = c

Idle(c) == \A i \in 1..hsp : frames[i].ctx # c

PushAt(d, f) ==
    /\ d < MaxFrames
    /\ hsp' = d + 1
    /\ frames' = [i \in 1..MaxFrames |->
                    IF i <= d THEN frames[i] ELSE IF i = d + 1 THEN f ELSE Junk]

PopTo(d) ==
    /\ hsp' = d
    /\ frames' = [i \in 1..MaxFrames |-> IF i <= d THEN frames[i] ELSE Junk]

Lands(d, k, c) == d \in 1..hsp /\ frames[d].kind = k /\ frames[d].ctx = c

ToBox(c, s) == who' = "box" /\ cur' = c /\ sp' = s
ToHost == who' = "host" /\ cur' = None /\ sp' = 0
Lose == who' = "lost" /\ cur' = None /\ sp' = 0 /\ UNCHANGED <<frames, hsp>>

\* The variable lfi_ctx_run left a pointer to is gone with its frame.
InfoAfterPop(d) == IF info.by > d THEN NoInfo ELSE info

-----------------------------------------------------------------------------
(* Host code enters a sandbox. *)

\* In a system call handler this is sys_clone attaching a thread, which saves
\* lfi_invoke_info around the run.
Run(c) ==
    /\ who = "host"
    /\ PushAt(hsp, Frame("run", c, 0,
                 IF hsp > 0 /\ frames[hsp].kind = "syscall" THEN info ELSE NoInfo))
    /\ info' = [ctx |-> c, by |-> hsp + 1]
    /\ inRun' = [inRun EXCEPT ![c] = TRUE]
    /\ hostSp' = [hostSp EXCEPT ![c] = hsp + 1]
    /\ ToBox(c, rsp[c])
    /\ UNCHANGED <<rsp, abortCb>>

\* The common part of the trampolines, on top of d frames.
EnterAt(d, c) ==
    /\ rsp[c] < MaxSp
    /\ PushAt(d, Frame("invoke", c, rsp[c], NoInfo))
    /\ hostSp' = [hostSp EXCEPT ![c] = d + 1]
    /\ ToBox(c, rsp[c] + 1)
    /\ UNCHANGED <<rsp, inRun, abortCb>>

Invoke(c) ==
    /\ who = "host"
    /\ EnterAt(hsp, c)
    /\ info' = [ctx |-> c, by |-> 0]

\* LFI_INVOKE through a NULL context pointer: lfi_clone runs the engine's
\* clone callback, which is host code and may enter sandboxes.
InvokeNull ==
    /\ who = "host"
    /\ PushAt(hsp, Frame("cloning", None, 0, NoInfo))
    /\ info' = NoInfo
    /\ UNCHANGED <<hostSp, rsp, inRun, abortCb, who, cur, sp>>

\* *ctxp = ctx; lfi_invoke_info.ctx still points at the caller's variable if
\* the callback entered no sandbox.
Cloned(c) ==
    /\ On("cloning", None)
    /\ EnterAt(hsp - 1, c)
    /\ info' = IF info = NoInfo THEN [ctx |-> c, by |-> 0] ELSE info

CloneFails ==
    /\ On("cloning", None)
    /\ who' = "aborted"
    /\ UNCHANGED <<frames, hsp, hostSp, rsp, inRun, abortCb, info, cur, sp>>

-----------------------------------------------------------------------------
(* Sandbox code. *)

Move ==
    /\ who = "box" /\ sp' \in SP
    /\ UNCHANGED <<frames, hsp, hostSp, rsp, inRun, abortCb, info, who, cur>>

\* Mutation: regs.rsp is left where the invocation ended.
PopInvokeOnly(c, d) ==
    IF Lands(d, "invoke", c)
    THEN PopTo(d - 1) /\ ToHost /\ info' = InfoAfterPop(d - 1) /\ UNCHANGED rsp
    ELSE Lose /\ UNCHANGED <<rsp, info>>

\* lfi_ret.
PopInvoke(c, d) ==
    IF Lands(d, "invoke", c)
    THEN /\ rsp' = [rsp EXCEPT ![c] = frames[d].sp]
         /\ PopTo(d - 1)
         /\ ToHost
         /\ info' = InfoAfterPop(d - 1)
    ELSE Lose /\ UNCHANGED <<rsp, info>>

Ret(c) ==
    /\ who = "box" /\ cur = c
    /\ PopInvoke(c, hostSp[c])
    /\ UNCHANGED <<hostSp, inRun, abortCb>>

Callback(c) ==
    /\ who = "box" /\ cur = c
    /\ PushAt(hostSp[c], Frame("callback", c, rsp[c], NoInfo))
    /\ rsp' = [rsp EXCEPT ![c] = sp]
    \* x64 exchanges the two stack pointers
    /\ hostSp' = IF Arch = "x64" THEN [hostSp EXCEPT ![c] = 0] ELSE hostSp
    /\ ToHost
    /\ UNCHANGED <<inRun, abortCb, info>>

Syscall(c) ==
    /\ who = "box" /\ cur = c
    /\ PushAt(hostSp[c], Frame("syscall", c, 0, NoInfo))
    /\ rsp' = [rsp EXCEPT ![c] = sp]
    /\ ToHost
    /\ UNCHANGED <<hostSp, inRun, abortCb, info>>

-----------------------------------------------------------------------------
(* Host code called from a sandbox. *)

\* lfi_ctx_abort_cb only sets a flag, which the next callback of c to return
\* finds, whoever set it.
AbortRequest(c) ==
    /\ who = "host"
    /\ abortCb' = [abortCb EXCEPT ![c] = TRUE]
    /\ UNCHANGED <<frames, hsp, hostSp, rsp, inRun, info, who, cur, sp>>

CallbackReturn(c) ==
    /\ On("callback", c) /\ ~abortCb[c]
    /\ ToBox(c, rsp[c])
    /\ rsp' = [rsp EXCEPT ![c] = frames[hsp].sp]
    /\ PopTo(hsp - 1)
    /\ hostSp' = [hostSp EXCEPT ![c] = hsp - 1]
    /\ info' = InfoAfterPop(hsp - 1)
    /\ UNCHANGED <<inRun, abortCb>>

\* x64 drops the callback's words and records the stack pointer before it
\* takes the return path; arm64 goes straight to lfi_ret_end.  (Both set
\* abort_status too, for the embedder to read; no switch does.)
HostSpStale(c) == hostSp[c]  \* Mutation: x64 like arm64
HostSpAtAbort(c) == IF Arch = "x64" THEN hsp - 1 ELSE hostSp[c]

CallbackAbort(c) ==
    /\ On("callback", c) /\ abortCb[c]
    /\ abortCb' = [abortCb EXCEPT ![c] = FALSE]
    /\ hostSp' = [hostSp EXCEPT ![c] = HostSpAtAbort(c)]
    /\ PopInvoke(c, hostSp'[c])
    /\ UNCHANGED inRun

SyscallReturn(c) ==
    /\ On("syscall", c)
    /\ PopTo(hsp - 1)
    /\ ToBox(c, rsp[c])
    /\ info' = InfoAfterPop(hsp - 1)
    /\ UNCHANGED <<hostSp, rsp, inRun, abortCb>>

StillInRun(c) == inRun  \* Mutation: a missing reset
RunEnded(c) == [inRun EXCEPT ![c] = FALSE]

\* lfi_ctx_exit tests in_ctx_run and nothing else: the flag stays set while
\* a callback under lfi_ctx_run invokes the context again, and lfi_ctx_end then
\* takes the words of the trampoline for those of lfi_ctx_entry.
Exit(c) ==
    /\ who = "host"
    /\ IF ~inRun[c]
       THEN who' = "aborted" /\ UNCHANGED <<frames, hsp, inRun, info, cur, sp>>
       ELSE LET d == hostSp[c] IN
            IF Lands(d, "run", c)
            THEN /\ PopTo(d - 1)
                 /\ inRun' = RunEnded(c)
                 /\ info' = IF frames[d].old # NoInfo THEN frames[d].old
                                                      ELSE InfoAfterPop(d - 1)
                 /\ ToHost
            ELSE Lose /\ UNCHANGED <<inRun, info>>
    /\ UNCHANGED <<hostSp, rsp, abortCb>>

-----------------------------------------------------------------------------
Next ==
    \/ \E c \in Ctx :
          \/ Run(c) \/ Invoke(c) \/ Cloned(c)
          \/ Ret(c) \/ Callback(c) \/ Syscall(c)
          \/ AbortRequest(c) \/ CallbackReturn(c) \/ CallbackAbort(c)
          \/ SyscallReturn(c) \/ Exit(c)
    \/ InvokeNull \/ CloneFails \/ Move

Spec == Init /\ [][Next]_vars

(* What the callers of the switches must keep to, for nothing in the code   *)
(* checks it; each part says which steps are allowed in a state.            *)

\* lfi_ctx_run is called, and a clone produced, for a context that no frame
\* belongs to: the frames of the old run would lose in_ctx_run and REGS_HOST_SP.
EntersIdle == \A c \in Ctx : ~Idle(c) => ~Run(c) /\ ~Cloned(c)

\* A system call handler does not invoke the context that called it: the
\* return path of a system call leaves REGS_HOST_SP to what lfi_ret left in it.
SyscallsAlone ==
    \A c \in Ctx : (\E i \in 1..hsp : frames[i].kind = "syscall" /\ frames[i].ctx = c) => ~Invoke(c)

\* Sandbox code calls lfi_ret only where lfi_trampoline has entered it.
ReturnsInvocations == \A c \in Ctx : ~Lands(hsp, "invoke", c) => ~Ret(c)

\* An abort is asked for while a callback made by an invocation is on the stack.
\* Under lfi_ctx_run it would go to lfi_ret_end, through words that the
\* trampoline did not push, though lfi_core.h:266-267 makes no exception.
AbortsInvocations ==
    \A c \in Ctx :
        (\A i \in 1..hsp : ~(Lands(i, "callback", c) /\ Lands(i - 1, "invoke", c))) => ~AbortRequest(c)

\* A context that is in lfi_ctx_run exits from a call out made by its run, not by
\* an invocation nested in the run, though lfi_core.h:325-326 promises an abort
\* there.
ExitsRuns ==
    \A c \in Ctx :
        inRun[c] /\ ~((On("callback", c) \/ On("syscall", c)) /\ Lands(hsp - 1, "run", c)) => ~Exit(c)

\* From a callback the exit takes REGS_HOST_SP as it finds it: on x64 that is the
\* sandbox's stack pointer, on arm64 what the last entry left.
CallbackExits ==
    \A c \in Ctx :
        inRun[c] /\ On("callback", c) /\ ~(Arch = "arm64" /\ c \in Direct) => ~Exit(c)

\* So does the abort on arm64; on x64 it puts the word back first.
CallbackAborts == \A c \in Ctx : Arch = "arm64" /\ c \notin Direct => ~AbortRequest(c)

\* The word leads home unless the callback entered its own context in between,
\* so on arm64 the callbacks of a context either unwind or enter it again.
DirectOnce == \A c \in Ctx : Arch = "arm64" /\ c \in Direct /\ ~Idle(c) => ~Invoke(c)

Contract ==
    /\ EntersIdle /\ SyscallsAlone /\ ReturnsInvocations
    /\ AbortsInvocations /\ ExitsRuns
    /\ CallbackExits /\ CallbackAborts /\ DirectOnce

-----------------------------------------------------------------------------
TypeOK ==
    /\ frames \in [1..MaxFrames -> [kind : Kinds \cup {"junk"}, ctx : Ctx \cup {None}, sp : SP,
                                    old : [ctx : Ctx \cup {None}, by : 0..MaxFrames]]]
    /\ hsp \in 0..MaxFrames
    /\ hostSp \in [Ctx -> 0..MaxFrames]
    /\ rsp \in [Ctx -> SP]
    /\ inRun \in [Ctx -> BOOLEAN]
    /\ abortCb \in [Ctx -> BOOLEAN]
    /\ info \in [ctx : Ctx \cup {None}, by : 0..MaxFrames]
    /\ who \in {"host", "box", "aborted", "lost"}
    /\ cur \in Ctx \cup {None}
    /\ sp \in SP

\* No switch ever returns through words that another switch pushed, or through
\* words that are no longer live: lfi_ret, an abort and lfi_ctx_end find the
\* frame of their own entry, whatever nested in between.
ReturnsHome == who # "lost"

\* While sandbox code runs, the host stack pointer saved for its context is
\* the one its entry left, so that the next callback, system call or return
\* neither overwrites live host frames nor resurrects dead ones; and in_ctx_run
\* holds of exactly the contexts with an lfi_ctx_run on the stack.
SavedState ==
    /\ who = "box" => /\ hostSp[cur] = hsp
                      /\ Lands(hsp, "run", cur) \/ Lands(hsp, "invoke", cur)
    /\ \A c \in Ctx : inRun[c] <=> \E i \in 1..hsp : frames[i].kind = "run" /\ frames[i].ctx = c
=============================================================================
