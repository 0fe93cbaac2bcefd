------------------------------ MODULE MCProcess ------------------------------
(***************************************************************************)
(* What the threads of a running sandbox do to the process they share:     *)
(* requests on its memory (BoxMemory), and exits (ProcExit) with a main    *)
(* thread, one it spawned and one that was attached.  The two share no     *)
(* variable: a thread that leaves keeps its stack until the runtime frees  *)
(* it.  Each behaviour follows one and leaves the other in its initial     *)
(* state.                                                                  *)
(***************************************************************************)
EXTENDS BoxMemory, ProcExit

VARIABLE part  \* the one this behaviour follows

MCProts == {{}, {"r", "w"}, {"r", "x"}, {"r", "w", "x"}}

MCInit == part \in {"pages", "exits"} /\ Init /\ ExitInit
MCNext ==
    /\ UNCHANGED part
    /\ \/ part = "pages" /\ Next /\ UNCHANGED exitVars
       \/ part = "exits" /\ ExitNext /\ UNCHANGED vars
MCSpec ==
    /\ MCInit /\ [][MCNext]_<<vars, exitVars, part>>
    /\ \A t \in Thread : WF_exitVars(Leave(t))
=============================================================================
