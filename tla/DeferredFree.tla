---------------------------- MODULE DeferredFree ----------------------------
(***************************************************************************)
(* What the sandbox runtime promises about the lifetime of a process       *)
(* object: users come and go, the embedder asks for the object to be freed *)
(* once, and the object is reclaimed exactly once, after the request and   *)
(* at a moment when it has no user.  ProcLifecycle implements this with    *)
(* two counters, a pending flag and two locks.                             *)
(***************************************************************************)
CONSTANTS Proc,  \* process objects
          User   \* whatever may keep a process object alive

VARIABLES users,      \* users[p]: who uses p now
          requested,  \* the objects whose free was requested
          present     \* the objects that are still allocated

vars == <<users, requested, present>>

Init ==
    /\ users = [p \in Proc |-> {}]
    /\ requested = {}
    /\ present = Proc

\* A new user: before the free is requested, or brought in by a present user.
Join(p, u) ==
    /\ p \in present
    /\ u \notin users[p]
    /\ p \in requested => users[p] # {}
    /\ users' = [users EXCEPT ![p] = @ \cup {u}]
    /\ UNCHANGED <<requested, present>>

Leave(p, u) ==
    /\ p \in present
    /\ u \in users[p]
    /\ users' = [users EXCEPT ![p] = @ \ {u}]
    /\ UNCHANGED <<requested, present>>

Request(p) ==
    /\ p \in present \ requested
    /\ requested' = requested \cup {p}
    /\ UNCHANGED <<users, present>>

Reclaim(p) ==
    /\ p \in present \cap requested
    /\ users[p] = {}
    /\ present' = present \ {p}
    /\ UNCHANGED <<users, requested>>

Next ==
    \E p \in Proc :
        \/ \E u \in User : Join(p, u) \/ Leave(p, u)
        \/ Request(p)
        \/ Reclaim(p)

Spec == Init /\ [][Next]_vars
=============================================================================
