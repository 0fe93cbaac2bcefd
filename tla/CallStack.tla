------------------------------ MODULE CallStack ------------------------------
(***************************************************************************)
(* What the context switches of liblfi promise the code on both sides:     *)
(* calls into sandboxes and calls out of them nest like ordinary calls on  *)
(* one thread.  A return ends the innermost call and nothing else, a call  *)
(* out resumes at the stack position it was made from, and an exit or an   *)
(* abort ends exactly the innermost entry.                                 *)
(***************************************************************************)
EXTENDS Integers, Sequences

CONSTANTS Ctx,   \* sandbox contexts
          None,  \* no context
          SP     \* positions on a sandbox stack, deeper is larger

VARIABLES calls,    \* the active calls, innermost last
          running,  \* the context whose sandbox code runs, or None
          at,       \* its stack position
          rest      \* rest[c]: where the stack of c rests between entries

absvars == <<calls, running, at, rest>>

Entries == {"run", "invoke"}
Outs == {"callback", "syscall"}
Call == [kind : Entries \cup Outs \cup {"cloning"}, ctx : Ctx \cup {None}, sp : SP]

Top == calls[Len(calls)]
Active(c) == {i \in DOMAIN calls : calls[i].ctx = c}

\* Where an entry into c finds the stack: where the innermost suspended call
\* out of c was made, or at rest.
Start(c) ==
    IF Active(c) = {} THEN rest[c]
    ELSE calls[CHOOSE i \in Active(c) : \A j \in Active(c) : j <= i].sp

Pop(n) == calls' = SubSeq(calls, 1, Len(calls) - n)
Push(k, c, s) == calls' = Append(calls, [kind |-> k, ctx |-> c, sp |-> s])
ToHost == running' = None /\ at' = 0

Init ==
    /\ calls = <<>> /\ running = None /\ at = 0
    /\ rest = [c \in Ctx |-> 0]

Run(c) ==
    /\ running = None /\ Active(c) = {}
    /\ Push("run", c, 0)
    /\ running' = c /\ at' = rest[c]
    /\ rest' = [rest EXCEPT ![c] = 0]

Invoke(c) ==
    /\ running = None
    /\ Push("invoke", c, Start(c))
    /\ running' = c /\ at' = Start(c) + 1
    /\ UNCHANGED rest

StartClone == running = None /\ Push("cloning", None, 0) /\ UNCHANGED <<running, at, rest>>

\* The clone produced a context with no active call and becomes its entry.
EnterClone(c) ==
    /\ running = None /\ calls # <<>> /\ Top.kind = "cloning" /\ Active(c) = {}
    /\ calls' = [calls EXCEPT ![Len(calls)] = [kind |-> "invoke", ctx |-> c, sp |-> rest[c]]]
    /\ running' = c /\ at' = rest[c] + 1
    /\ UNCHANGED rest

Move == running # None /\ at' \in SP /\ UNCHANGED <<calls, running, rest>>

Out(kind) ==
    /\ running # None
    /\ Push(kind, running, at)
    /\ ToHost /\ UNCHANGED rest

\* Back to the sandbox code that called out.
Resume ==
    /\ running = None /\ calls # <<>> /\ Top.kind \in Outs
    /\ Pop(1)
    /\ running' = Top.ctx /\ at' = Top.sp
    /\ UNCHANGED rest

\* The invocation that is running returns.
Return ==
    /\ running # None /\ Top.kind = "invoke" /\ Top.ctx = running
    /\ Pop(1) /\ ToHost /\ UNCHANGED rest

\* The call out never resumes; the entry that made it ends.
Unwind(kind) ==
    /\ running = None /\ Len(calls) > 1 /\ Top.kind \in Outs
    /\ LET entry == calls[Len(calls) - 1] IN
       /\ entry.kind = kind /\ entry.ctx = Top.ctx
       /\ rest' = IF kind = "run" THEN [rest EXCEPT ![entry.ctx] = Top.sp] ELSE rest
    /\ Pop(2) /\ ToHost

Next ==
    \/ \E c \in Ctx : Run(c) \/ Invoke(c) \/ EnterClone(c)
    \/ StartClone \/ Move \/ Resume \/ Return
    \/ \E k \in Outs : Out(k)
    \/ \E k \in Entries : Unwind(k)

Spec == Init /\ [][Next]_absvars
=============================================================================
