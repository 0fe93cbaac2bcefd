----------------------------- MODULE Descriptors -----------------------------
(***************************************************************************)
(* What a descriptor table promises to sandbox threads that use it at      *)
(* once: a number means one file until it is closed or replaced, a new     *)
(* descriptor takes the lowest free number, and a call keeps the file that *)
(* its number meant when the call began.                                   *)
(***************************************************************************)
EXTENDS Integers

CONSTANTS Thread, File, None, Slot

VARIABLES
    tab,   \* the file behind each number, or None
    using  \* the file that each thread's call works on, or None

Free == {s \in Slot : tab[s] = None}
Lowest == CHOOSE s \in Free : \A u \in Free : s <= u

Init == tab \in [Slot -> File \cup {None}] /\ using = [t \in Thread |-> None]

New(f) == Free # {} /\ tab' = [tab EXCEPT ![Lowest] = f] /\ UNCHANGED using
Copy(s, u) == tab[s] # None /\ tab' = [tab EXCEPT ![u] = tab[s]] /\ UNCHANGED using
Close(s) == tab' = [tab EXCEPT ![s] = None] /\ UNCHANGED using
CloseAll ==
    /\ \A t \in Thread : using[t] = None
    /\ tab' = [s \in Slot |-> None] /\ UNCHANGED using

Begin(t, s) ==
    /\ using[t] = None /\ tab[s] # None
    /\ using' = [using EXCEPT ![t] = tab[s]] /\ UNCHANGED tab
End(t) == using' = [using EXCEPT ![t] = None] /\ UNCHANGED tab

Next ==
    \/ \E f \in File : New(f)
    \/ \E s \in Slot : Close(s) \/ (\E u \in Slot : Copy(s, u)) \/ (\E t \in Thread : Begin(t, s))
    \/ \E t \in Thread : End(t)
    \/ CloseAll

Spec == Init /\ [][Next]_<<tab, using>>
=============================================================================
