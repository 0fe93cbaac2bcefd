------------------------------ MODULE SboxStack ------------------------------
(***************************************************************************)
(* How a host thread uses the stacks of its sandboxes through the C++      *)
(* binding (sbox/lfi.h, sbox/lfi.cpp): call contexts with in and out       *)
(* parameters, arguments that do not fit in registers, calls, callbacks    *)
(* out of them, and the sandbox that a callback finds in                   *)
(* tls_current_sandbox.                                                    *)
(*                                                                         *)
(* Places on a stack are words below its top, so deeper is larger; sp is   *)
(* the last word in use.                                                   *)
(***************************************************************************)
EXTENDS Integers, Sequences

CONSTANTS
    Sbx,       \* sandboxes
    NoSbx,     \* no sandbox
    MaxDepth,  \* bound on the stacks
    MaxActs,   \* bound on open call contexts, calls and callbacks
    MaxBufs,   \* bound on the parameters of a call context
    BufSizes,  \* words of a parameter
    BufAligns, \* and its alignment
    IntRegs,   \* max_int_reg_args, max_float_reg_args
    FloatRegs,
    Args,      \* how many integers and floating-point numbers a call passes
    Reuse      \* call contexts serve several calls

ASSUME SboxAssumption ==
    /\ NoSbx \notin Sbx /\ MaxDepth \in Nat /\ Reuse \in BOOLEAN
    /\ IntRegs \in Nat /\ FloatRegs \in Nat /\ Args \subseteq Nat \X Nat
    /\ MaxBufs \in Nat /\ BufSizes \subseteq Nat /\ BufAligns \subseteq Nat \ {0}

VARIABLES
    acts,   \* what the thread is in, outermost first: call contexts ("scope"),
            \* calls and callbacks
    regsSp, \* regs.sp of its context in each sandbox
    tls     \* tls_current_sandbox

sboxVars == <<acts, regsSp, tls>>

RoundTo(n, align) == ((n + align - 1) \div align) * align

SboxInit == acts = <<>> /\ regsSp = [s \in Sbx |-> 0] /\ tls = NoSbx

Top == acts[Len(acts)]
TopIs(k) == acts # <<>> /\ Top.k = k
InHost == acts # <<>> => Top.k # "call"
Enters(a) == Len(acts) < MaxActs /\ acts' = Append(acts, a)
Changes(a) == acts' = [acts EXCEPT ![Len(acts)] = a]
Leaves == acts' = SubSeq(acts, 1, Len(acts) - 1)
SetSp(s, p) == p <= MaxDepth /\ regsSp' = [regsSp EXCEPT ![s] = p]

-----------------------------------------------------------------------------
(* Call contexts.  They are objects of a block, so they end in reverse     *)
(* order, and parameters go on the innermost one.  The thread has a context *)
(* of each sandbox: stack_save and stack_push follow the pointer they get   *)
(* untested, and a thread that has called nothing yet has none.             *)

Open(s) ==
    /\ InHost
    /\ TopIs("scope") => ~Top.ending
    /\ Enters([k |-> "scope", sb |-> s, saved |-> regsSp[s], bufs |-> <<>>,
               finalized |-> FALSE, ending |-> FALSE])
    /\ UNCHANGED <<regsSp, tls>>

\* stack_push, for in (out = FALSE), out and inout.
Push(n, align, out) ==
    /\ TopIs("scope") /\ ~Top.ending /\ Len(Top.bufs) < MaxBufs
    /\ Top.finalized => Reuse
    /\ LET p == RoundTo(regsSp[Top.sb] + n, align) IN
       /\ SetSp(Top.sb, p)
       /\ Changes([Top EXCEPT !.bufs = Append(@, [at |-> p, n |-> n,
                                                  st |-> IF out THEN "passed" ELSE "in"])])
    /\ UNCHANGED tls

\* finalize: only the first time.
Finalized(a) ==
    IF a.finalized THEN a
    ELSE [a EXCEPT !.finalized = TRUE,
                   !.bufs = [i \in DOMAIN a.bufs |->
                       IF a.bufs[i].st = "written" THEN [a.bufs[i] EXCEPT !.st = "copied"]
                       ELSE a.bufs[i]]]

\* ~CallContext
Finish ==
    /\ TopIs("scope") /\ ~Top.ending
    /\ Changes([Finalized(Top) EXCEPT !.ending = TRUE])
    /\ UNCHANGED <<regsSp, tls>>
RestoredNot(a) == regsSp[a.sb]  \* Mutation: the stack is not given back
Restored(a) == a.saved
Close ==
    /\ TopIs("scope") /\ Top.ending
    /\ Leaves
    /\ SetSp(Top.sb, Restored(Top))
    /\ UNCHANGED tls

-----------------------------------------------------------------------------
(* Calls. *)

\* The arguments that do not fit in registers, and stage_stack_args for n of
\* them.
Over(n, regs) == IF n > regs THEN n - regs ELSE 0
Spill(args) == Over(args[1], IntRegs) + Over(args[2], FloatRegs)
Staged(p, n) == IF n = 0 THEN p ELSE RoundTo(p + n, 2)

\* The guard of tls_current_sandbox.
Guard(s) == tls' = s
Unguard == tls' = Top.prev

\* call_ptr up to the switch, which aligns the stack and, on x86-64, puts the
\* return address on it.
Enter(s, n, withContext) ==
    /\ InHost
    /\ TopIs("scope") => ~Top.ending
    /\ withContext => TopIs("scope") /\ Top.sb = s
    /\ LET p == Staged(regsSp[s], n) IN
       /\ RoundTo(p, 2) + 1 <= MaxDepth
       /\ Enters([k |-> "call", sb |-> s, saved |-> regsSp[s], args |-> n, staged |-> p,
                  entry |-> RoundTo(p, 2) + 1, prev |-> tls, withContext |-> withContext])
       /\ SetSp(s, p)
    /\ Guard(s)

\* The sandbox has written the parameters of this call.
Written(a) ==
    [a EXCEPT !.bufs = [i \in DOMAIN a.bufs |->
        IF a.bufs[i].st = "passed" THEN [a.bufs[i] EXCEPT !.st = "written"] ELSE a.bufs[i]]]

\* Mutation: finalized before the sandbox's results are there
FinalizedEarly(a) == IF Top.withContext THEN Written(Finalized(a)) ELSE Written(a)
\* A call with a context finalizes it.
FinalizeCall(a) == IF Top.withContext THEN Finalized(Written(a)) ELSE Written(a)
Return ==
    /\ TopIs("call")
    /\ SetSp(Top.sb, Top.saved)
    /\ Unguard
    /\ LET below == SubSeq(acts, 1, Len(acts) - 1)
           n == Len(below)
       IN  IF n > 0 /\ below[n].k = "scope" /\ below[n].sb = Top.sb
           THEN acts' = [below EXCEPT ![n] = FinalizeCall(@)]
           ELSE acts' = below

\* Sandbox code calls back from any depth; the switch puts its stack pointer
\* in regs.sp, and takes the old value back from the host stack at the end.
CallBack(d) ==
    /\ TopIs("call") /\ d >= Top.entry
    /\ Enters([k |-> "callback", sb |-> Top.sb, old |-> regsSp[Top.sb], at |-> d])
    /\ SetSp(Top.sb, d)
    /\ UNCHANGED tls

CallBackEnds ==
    /\ TopIs("callback")
    /\ Leaves
    /\ SetSp(Top.sb, Top.old)
    /\ UNCHANGED tls

SboxNext ==
    \/ \E s \in Sbx : Open(s) \/ \E n \in {Spill(a) : a \in Args}, c \in BOOLEAN : Enter(s, n, c)
    \/ \E n \in BufSizes, a \in BufAligns, out \in BOOLEAN : Push(n, a, out)
    \/ Finish \/ Close \/ Return \/ CallBackEnds
    \/ \E d \in 0..MaxDepth : CallBack(d)

SboxSpec == SboxInit /\ [][SboxNext]_sboxVars

-----------------------------------------------------------------------------
\* The words in use on the stack of s: parameters, staged arguments, and what
\* a function uses from its entry down to where it called back, or may use.
AreaOf(i) ==
    LET a == acts[i] IN
    CASE a.k = "scope" -> [j \in DOMAIN a.bufs |-> (a.bufs[j].at - a.bufs[j].n + 1)..a.bufs[j].at]
      [] a.k = "call" -> << (a.staged - a.args + 1)..a.staged,
                            a.entry..(IF i < Len(acts) THEN acts[i + 1].at ELSE MaxDepth) >>
      [] OTHER -> <<>>

Areas(s) == {<<i, j>> : i \in {x \in DOMAIN acts : acts[x].sb = s}, j \in 1..(MaxBufs + 2)}
Words(x) == IF x[2] \in DOMAIN AreaOf(x[1]) THEN AreaOf(x[1])[x[2]] ELSE {}

\* However call contexts, calls and callbacks of several sandboxes nest, no
\* parameter, staged argument or frame of a function shares a word with
\* another one, regs.sp is back where it began when the last of them ends,
\* and a callback finds the sandbox that made it in tls_current_sandbox.
StackSound ==
    \A s \in Sbx :
        /\ \A x, y \in Areas(s) : x # y => Words(x) \cap Words(y) = {}
        /\ (\A i \in DOMAIN acts : acts[i].sb # s) => regsSp[s] = 0
        /\ TopIs("call") /\ Top.sb = s => tls = s

\* in(), out() and inout() "automatically manage copying data between the host
\* and sandbox" (sbox/README.md): what a sandbox function wrote to an out
\* parameter has reached the host when the call context ends.  With Reuse it
\* fails: finalize does nothing the second time.
OutCopied ==
    \A i \in DOMAIN acts : acts[i].k = "scope" /\ acts[i].ending =>
        \A j \in DOMAIN acts[i].bufs : acts[i].bufs[j].st # "written"
=============================================================================
