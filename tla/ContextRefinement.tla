--------------------------- MODULE ContextRefinement ---------------------------
(***************************************************************************)
(* Context implements CallStack.  The resume positions that CallStack      *)
(* keeps in each call are scattered over the code: the position of the     *)
(* innermost call out of c is regs.rsp, those of outer ones are the words  *)
(* the trampoline pushed over them.                                        *)
(***************************************************************************)
EXTENDS Context

FirstOf(S) == CHOOSE i \in S : \A j \in S : i <= j

Resume(i) ==
    LET later == {j \in (i + 1)..hsp : frames[j].ctx = frames[i].ctx /\ frames[j].kind = "invoke"}
    IN  IF later = {} THEN rsp[frames[i].ctx] ELSE frames[FirstOf(later)].sp

AbsCalls ==
    [i \in 1..hsp |->
       [kind |-> frames[i].kind, ctx |-> frames[i].ctx,
        sp |-> IF frames[i].kind \in {"callback", "syscall"} THEN Resume(i) ELSE frames[i].sp]]

AbsRest ==
    [c \in Ctx |->
       LET S == {i \in 1..hsp : frames[i].ctx = c}
       IN  IF S = {} THEN rsp[c] ELSE frames[FirstOf(S)].sp]

Abs == INSTANCE CallStack WITH
         calls <- AbsCalls, running <- IF who = "box" THEN cur ELSE None,
         at <- sp, rest <- AbsRest

\* Entries, calls out, returns, aborts and exits nest like calls on one stack,
\* and every call out resumes where it was made.
CallSpec == Abs!Spec
=============================================================================
