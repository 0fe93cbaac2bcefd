------------------------------- MODULE MCCalls -------------------------------
(***************************************************************************)
(* The context switches of a thread, the callback table of a sandbox, and  *)
(* the C++ binding's use of stacks and contexts.  They share no variable:  *)
(* a call out enters host code through the table, and what it does to the  *)
(* stacks does not depend on the slot; the binding sees a switch as one    *)
(* step.  Each behaviour follows one of the four and leaves the others in  *)
(* their initial states.                                                   *)
(***************************************************************************)
EXTENDS ContextRefinement, CallbackTable, SboxStack, SboxThreads

CONSTANTS
    Parts,  \* the parts to follow
    Broken  \* the parts of Contract that the callers do not keep to
VARIABLE part   \* the one this behaviour follows

Arm == INSTANCE Context WITH Arch <- "arm64"

Kept ==
    /\ EntersIdle /\ SyscallsAlone /\ ReturnsInvocations /\ DirectOnce
    /\ "AbortsInvocations" \in Broken \/ AbortsInvocations
    /\ "ExitsRuns" \in Broken \/ ExitsRuns
    /\ "CallbackExits" \in Broken \/ CallbackExits
    /\ "CallbackAborts" \in Broken \/ CallbackAborts

MCArgs == {<<1, 0>>, <<2, 1>>}

MCInit ==
    /\ part \in Parts
    /\ Init /\ TableInit /\ SboxInit /\ ThreadsInit
MCNext ==
    /\ UNCHANGED part
    /\ \/ part = "stacks" /\ Next /\ Kept /\ UNCHANGED <<tableVars, sboxVars, threadsVars>>
       \/ part = "arm64" /\ Arm!Next /\ Arm!Contract /\ UNCHANGED <<tableVars, sboxVars, threadsVars>>
       \/ part = "table" /\ TableNext /\ UNCHANGED <<vars, sboxVars, threadsVars>>
       \/ part = "parameters" /\ SboxNext /\ UNCHANGED <<vars, tableVars, threadsVars>>
       \/ part = "threads" /\ ThreadsNext /\ UNCHANGED <<vars, tableVars, sboxVars>>
MCSpec == MCInit /\ [][MCNext]_<<vars, tableVars, sboxVars, threadsVars, part>>
=============================================================================
