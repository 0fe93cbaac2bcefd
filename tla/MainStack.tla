------------------------------ MODULE MainStack ------------------------------
(***************************************************************************)
(* The main thread of a process: lfi_thread_new, stack_init and            *)
(* lfi_thread_free of linux/thread.c.  stack_init counts the arguments     *)
(* that fit, then computes downwards from the top of the stack where the   *)
(* strings, the random bytes and the block of argc, argv, envp and auxv    *)
(* go.  Strings are their lengths; addresses are numbers.                  *)
(***************************************************************************)
EXTENDS Integers

CONSTANTS
    StackSize,   \* opts.stacksize
    StackBase,   \* where the sandbox maps the stack
    Word,        \* sizeof(lfiptr), and of argc
    Align,       \* 16
    Random,      \* bytes of AT_RANDOM
    AuxvSize,    \* sizeof(struct AuxvList)
    Window,      \* STACK_RND_RANGE
    ArgvMax, EnvpMax,  \* how many arguments are looked at
    MaxLen,      \* ARGV_MAXLEN, ENVP_MAXLEN
    Lengths      \* lengths of the strings the embedder passes

ASSUME StackAssumption ==
    /\ {StackSize, StackBase, Word, Random, AuxvSize, ArgvMax, EnvpMax, MaxLen} \subseteq Nat
    /\ Align \in Nat \ {0} /\ Window \in Nat \ {0}
    /\ Lengths \subseteq Nat

VARIABLES
    step,           \* "new", "argv", "envp", "layout", "ready", "freed" or "failed"
    used, strsLen,  \* bytes counted so far, and those of the strings
    nargv, nenvp,   \* strings counted so far
    strsStart, randStart, stackStart  \* the layout; stackStart is the initial sp

stackVars == <<step, used, strsLen, nargv, nenvp, strsStart, randStart, stackStart>>

StackInit ==
    /\ step = "new"
    /\ used = 0 /\ strsLen = 0 /\ nargv = 0 /\ nenvp = 0
    /\ strsStart = 0 /\ randStart = 0 /\ stackStart = 0

\* What the layout takes besides strings and their pointers, at most.
Fixed == AuxvSize + Random + Word + 2 * Word + Window + 2 * Align
Budget == IF StackSize > Fixed THEN StackSize - Fixed ELSE 0

Counted == <<used, strsLen, nargv, nenvp>>
Layout == <<strsStart, randStart, stackStart>>

\* lfi_thread_new: the thread, its context and the mapping of its stack, or
\* nothing if one of them is refused.
ThreadNew == step = "new" /\ step' \in {"argv", "failed"} /\ UNCHANGED <<Counted, Layout>>

-----------------------------------------------------------------------------
(* Counting. *)

CostOfString(len) == len + 1  \* Mutation: the pointer is not counted
Cost(len) == len + 1 + Word
Fits(len) == used + Cost(len) <= Budget
Cut(len) == IF len < MaxLen THEN len ELSE MaxLen

Count(len) ==
    /\ Fits(Cut(len))
    /\ used' = used + Cost(Cut(len))
    /\ strsLen' = strsLen + Cut(len) + 1
    /\ UNCHANGED <<step, Layout>>

CountArg(len) == step = "argv" /\ nargv < ArgvMax /\ Count(len) /\ nargv' = nargv + 1 /\ UNCHANGED nenvp
CountEnv(len) == step = "envp" /\ nenvp < EnvpMax /\ Count(len) /\ nenvp' = nenvp + 1 /\ UNCHANGED nargv

\* The list ends, is longer than what is looked at, or no longer fits.
EndOfArgs == step = "argv" /\ step' = "envp" /\ UNCHANGED <<Counted, Layout>>
EndOfEnv == step = "envp" /\ step' = "layout" /\ UNCHANGED <<Counted, Layout>>

-----------------------------------------------------------------------------
(* Layout. *)

Down(x) == x - (x % Align)

\* argc, argv and envp with their final zeroes, auxv.
BlockSize == Word + Word * (nargv + 1) + Word * (nenvp + 1) + AuxvSize

\* rnd is the random offset of the top; 0 without ASLR.
LayOut(rnd) ==
    /\ step = "layout"
    /\ strsStart' = Down(StackBase + StackSize - rnd - strsLen)
    /\ randStart' = strsStart' - Random
    /\ stackStart' = Down(randStart' - BlockSize)
    /\ step' = "ready"
    /\ UNCHANGED Counted

\* lfi_thread_free: the stack, the context, the thread.
ThreadFree == step = "ready" /\ step' = "freed" /\ UNCHANGED <<Counted, Layout>>

StackNext ==
    \/ ThreadNew
    \/ \E len \in Lengths : CountArg(len) \/ CountEnv(len)
    \/ EndOfArgs \/ EndOfEnv
    \/ \E rnd \in 0..(Window - 1) : LayOut(rnd)
    \/ ThreadFree

StackSpec == StackInit /\ [][StackNext]_stackVars

-----------------------------------------------------------------------------
\* The block, the random bytes and the strings follow each other without
\* overlap inside the stack, with an aligned stack pointer, whatever the
\* arguments, the random offset and the rounding, on a stack that has room
\* for the fixed part (stack_init: "does not fit in stack").
LayoutFits ==
    step = "ready" /\ StackSize >= Fixed =>
        /\ StackBase <= stackStart
        /\ stackStart % Align = 0
        /\ stackStart + BlockSize <= randStart
        /\ randStart + Random <= strsStart
        /\ strsStart + strsLen <= StackBase + StackSize
=============================================================================
