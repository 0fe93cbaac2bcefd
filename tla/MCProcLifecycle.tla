--------------------------- MODULE MCProcLifecycle ---------------------------
(* Instances of ProcLifecycle for TLC. *)
EXTENDS ProcLifecycle, TLC

\* Threads of one kind and contexts are interchangeable; so are the processes.
Symmetry == Permutations(Host) \cup Permutations(Runtime) \cup Permutations(Ctx)
            \cup Permutations(Proc)
=============================================================================
