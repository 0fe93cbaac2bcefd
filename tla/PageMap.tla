------------------------------- MODULE PageMap -------------------------------
(***************************************************************************)
(* What the mapping tracker of a sandbox promises: a page table.  Each     *)
(* page is free or carries the information of the last mapping over it,    *)
(* and one operation changes one contiguous range of pages.                *)
(***************************************************************************)
EXTENDS Integers

CONSTANTS Page,  \* the usable pages of the sandbox, an interval of integers
          Info,  \* what a mapping records: [prot |-> _, src |-> _]
          Free   \* a page without a mapping

VARIABLE table

Init == table = [p \in Page |-> Free]

Ranges == {R \in SUBSET Page :
              R # {} /\ \A a, b \in R : \A p \in Page : a <= p /\ p <= b => p \in R}

\* A mapping at a place of the runtime's choice takes free pages only.
Place(R, i) ==
    /\ \A p \in R : table[p] = Free
    /\ table' = [p \in Page |-> IF p \in R THEN i ELSE table[p]]

\* A fixed mapping replaces whatever was there.
Replace(R, i) == table' = [p \in Page |-> IF p \in R THEN i ELSE table[p]]

Clear(R) == table' = [p \in Page |-> IF p \in R THEN Free ELSE table[p]]

\* Pages without a mapping have no protection to change.
Protect(R, prot) ==
    table' = [p \in Page |-> IF p \in R /\ table[p] # Free
                             THEN [table[p] EXCEPT !.prot = prot] ELSE table[p]]

Next ==
    \E R \in Ranges :
        \/ \E i \in Info : Place(R, i) \/ Replace(R, i) \/ Protect(R, i.prot)
        \/ Clear(R)

Spec == Init /\ [][Next]_table
=============================================================================
