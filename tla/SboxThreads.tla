----------------------------- MODULE SboxThreads -----------------------------
(***************************************************************************)
(* The sandbox objects of the C++ binding (sbox/lfi.h, sbox/lfi.cpp): the  *)
(* process-wide engine, sandboxes that are created and destroyed, and the  *)
(* context each host thread uses in each sandbox, which it finds in a map  *)
(* of the sandbox or, for the last sandbox it used, in a pointer into that *)
(* map which it keeps.                                                     *)
(*                                                                         *)
(* A sandbox object sits at a place in memory that a later one may take    *)
(* again, and so do contexts and thread ids; only id_ is never reused.     *)
(* The embedder's duties: a thread makes no call after its thread-local    *)
(* objects are gone; workers detach (or end) before their sandbox goes,    *)
(* and the engine goes after the sandboxes.                                *)
(***************************************************************************)
EXTENDS Naturals, Sequences, FiniteSets

CONSTANTS
    Worker,    \* host threads, by std::thread::id
    Place,     \* where sandbox objects may be
    MaxId,     \* bound on the sandboxes ever created
    MaxCalls,  \* bound on nested calls of a thread
    Capacities \* what init may ask for

ASSUME ThreadsAssumption ==
    /\ MaxId \in Nat /\ MaxCalls \in Nat /\ Capacities \subseteq Nat \ {0}
    /\ IsFiniteSet(Worker)

NoEntry == 0
Unattached == 1  \* an entry whose context is null
Context == 2..(1 + Cardinality(Worker) * MaxId)
NoSandbox == [id |-> 0]

VARIABLES
    engine,  \* boxes linux_engine_ has room for, 0 when there is no engine
    nextId,  \* sandbox_id_counter
    sandbox, \* at each place: id_, main_thread_tid_ and the main thread's context
    entry,   \* thread_ctxs_ of the sandbox at each place
    made,    \* each context in use: the id of its sandbox and the thread it is for
    last,    \* last_sandbox_id of each thread, and whether last_ctxp points to
             \* an entry that is still there
    attached, \* tls_cleanup.attachments of each thread
    inside,  \* the calls of each thread: sandbox and context
    leaving  \* what each thread is taking down: an attachment, or itself

threadsVars == <<engine, nextId, sandbox, entry, made, last, attached, inside, leaving>>

ThreadsInit ==
    /\ engine = 0 /\ nextId = 1
    /\ sandbox = [p \in Place |-> NoSandbox]
    /\ entry = [p \in Place |-> [t \in Worker |-> NoEntry]]
    /\ made = <<>>
    /\ last = [t \in Worker |-> [id |-> 0, there |-> FALSE]]
    /\ attached = [t \in Worker |-> {}]
    /\ inside = [t \in Worker |-> <<>>]
    /\ leaving = [t \in Worker |-> <<>>]

Live == {p \in Place : sandbox[p].id # 0}
Free == Context \ DOMAIN made
NewContext == CHOOSE c \in Free : \A d \in Free : c <= d
Hold(c, id, t) == [x \in DOMAIN made \cup {c} |-> IF x = c THEN [id |-> id, for |-> t] ELSE made[x]]
Dropped(cs) == [x \in DOMAIN made \ cs |-> made[x]]
Ready(t) == leaving[t] = <<>> /\ Len(inside[t]) < MaxCalls

-----------------------------------------------------------------------------
(* The engine and the sandboxes. *)

EngineInit(n) ==
    /\ engine = 0 /\ engine' = n
    /\ UNCHANGED <<nextId, sandbox, entry, made, last, attached, inside, leaving>>

EngineDestroy ==
    /\ engine # 0 /\ Live = {} /\ engine' = 0
    /\ UNCHANGED <<nextId, sandbox, entry, made, last, attached, inside, leaving>>

\* create: without an engine, one with room for one box.  Loading or running
\* the library may fail.
Create(t, p) ==
    /\ Ready(t) /\ p \notin Live /\ nextId <= MaxId
    /\ engine' = (IF engine = 0 THEN 1 ELSE engine)
    /\ nextId' = nextId + 1
    /\ \/ UNCHANGED <<sandbox, made>>
       \/ /\ Cardinality(Live) < engine'
          /\ sandbox' = [sandbox EXCEPT ![p] = [id |-> nextId, main |-> t, ctx |-> NewContext]]
          /\ made' = Hold(NewContext, nextId, t)
    /\ UNCHANGED <<entry, last, attached, inside, leaving>>

Destroy(t, p) ==
    /\ Ready(t) /\ p \in Live
    /\ \A u \in Worker : /\ p \notin attached[u]
                         /\ leaving[u] # <<"detach", p>>
                         /\ \A i \in DOMAIN inside[u] : inside[u][i].at # p
    /\ made' = Dropped({sandbox[p].ctx})
    /\ entry' = [entry EXCEPT ![p] = [u \in Worker |-> NoEntry]]
    /\ last' = [u \in Worker |-> IF last[u].id = sandbox[p].id
                                 THEN [last[u] EXCEPT !.there = FALSE] ELSE last[u]]
    /\ sandbox' = [sandbox EXCEPT ![p] = NoSandbox]
    /\ UNCHANGED <<engine, nextId, attached, inside, leaving>>

-----------------------------------------------------------------------------
(* Calls.  get_thread_ctx, lfi_clone for a worker's first call, and the    *)
(* call itself, which may lead to calls from its callbacks.                *)

Cached(t, p) == last[t].id = sandbox[p].id

\* What the slow path finds or makes, under thread_ctx_mutex_.
SlowPath(t, p) ==
    IF entry[p][t] # NoEntry THEN entry[p][t]
    ELSE IF sandbox[p].main = t THEN sandbox[p].ctx ELSE Unattached

AttachedBy(t, p) ==
    IF ~Cached(t, p) /\ entry[p][t] = NoEntry /\ sandbox[p].main # t THEN {p} ELSE {}

Call(t, p) ==
    /\ Ready(t) /\ p \in Live
    /\ LET here == IF Cached(t, p) THEN entry[p][t] ELSE SlowPath(t, p)
           c == IF here = Unattached THEN NewContext ELSE here
       IN  /\ entry' = [entry EXCEPT ![p][t] = c]
           /\ made' = IF here = Unattached THEN Hold(c, sandbox[p].id, t) ELSE made
           /\ inside' = [inside EXCEPT ![t] = Append(@, [at |-> p, ctx |-> c])]
    /\ last' = IF Cached(t, p) THEN last
               ELSE [last EXCEPT ![t] = [id |-> sandbox[p].id, there |-> TRUE]]
    /\ attached' = [attached EXCEPT ![t] = @ \cup AttachedBy(t, p)]
    /\ UNCHANGED <<engine, nextId, sandbox, leaving>>

CallEnds(t) ==
    /\ inside[t] # <<>>
    /\ inside' = [inside EXCEPT ![t] = SubSeq(@, 1, Len(@) - 1)]
    /\ UNCHANGED <<engine, nextId, sandbox, entry, made, last, attached, leaving>>

-----------------------------------------------------------------------------
(* Threads that leave a sandbox, or end. *)

Erase(p, t) == entry' = [entry EXCEPT ![p][t] = NoEntry]
Gone(l, p) == IF l.id = sandbox[p].id THEN [l EXCEPT !.there = FALSE] ELSE l
\* The contexts lfi_clone made for t.
Clones(t) == {c \in DOMAIN made : made[c].for = t /\ \A p \in Live : c # sandbox[p].ctx}

\* detach_thread: the runtime frees the context,
Detach(t, p) ==
    /\ Ready(t) /\ p \in Live
    /\ \A i \in DOMAIN inside[t] : inside[t][i].at # p
    /\ made' = Dropped({c \in Clones(t) : made[c].id = sandbox[p].id})
    /\ leaving' = [leaving EXCEPT ![t] = <<"detach", p>>]
    /\ UNCHANGED <<engine, nextId, sandbox, entry, last, attached, inside>>

\* and then the entry goes and whatever leads to it.
StillCached(t, p) == Gone(last[t], p)  \* Mutation: the last sandbox is not forgotten
Forgotten(t, p) == IF Cached(t, p) THEN [id |-> 0, there |-> FALSE] ELSE last[t]
DetachEnds(t) ==
    /\ leaving[t] # <<>> /\ leaving[t][1] = "detach"
    /\ LET p == leaving[t][2] IN
       /\ Erase(p, t)
       /\ attached' = [attached EXCEPT ![t] = @ \ {p}]
       /\ last' = [last EXCEPT ![t] = Forgotten(t, p)]
    /\ leaving' = [leaving EXCEPT ![t] = <<>>]
    /\ UNCHANGED <<engine, nextId, sandbox, made, inside>>

\* A thread that ends first destroys its thread-local objects; ThreadCleanup
\* takes the mutex of one sandbox after the other.
End(t) ==
    /\ leaving[t] = <<>> /\ inside[t] = <<>>
    /\ leaving' = [leaving EXCEPT ![t] = <<"end">>]
    /\ UNCHANGED <<engine, nextId, sandbox, entry, made, last, attached, inside>>

CleanUp(t, p) ==
    /\ leaving[t] = <<"end">> /\ p \in attached[t]
    /\ Erase(p, t)
    /\ last' = [last EXCEPT ![t] = Gone(@, p)]
    /\ attached' = [attached EXCEPT ![t] = @ \ {p}]
    /\ UNCHANGED <<engine, nextId, sandbox, made, inside, leaving>>

\* Then the runtime's key destructor frees its contexts; a new thread may get
\* the same id.
Ended(t) ==
    /\ leaving[t] = <<"end">> /\ attached[t] = {}
    /\ made' = Dropped(Clones(t))
    /\ last' = [last EXCEPT ![t] = [id |-> 0, there |-> FALSE]]
    /\ leaving' = [leaving EXCEPT ![t] = <<>>]
    /\ UNCHANGED <<engine, nextId, sandbox, entry, attached, inside>>

ThreadsNext ==
    \/ \E n \in Capacities : EngineInit(n)
    \/ EngineDestroy
    \/ \E t \in Worker :
        \/ CallEnds(t) \/ DetachEnds(t) \/ End(t) \/ Ended(t)
        \/ \E p \in Place : \/ Create(t, p) \/ Destroy(t, p) \/ Call(t, p)
                            \/ Detach(t, p) \/ CleanUp(t, p)

ThreadsSpec == ThreadsInit /\ [][ThreadsNext]_threadsVars

-----------------------------------------------------------------------------
\* The context a thread would use next, found by its cache or in the map, is
\* one the runtime has not freed, is of that sandbox and made for a thread of
\* that id; a pointer kept from the last call is followed only while its entry
\* exists; no two threads are inside with the same context; and a thread that
\* ends takes down only entries of sandboxes that exist.
ContextsOwn ==
    /\ \A t \in Worker, p \in Live :
        /\ Cached(t, p) /\ leaving[t] # <<"end">> => last[t].there
        /\ entry[p][t] \in Context /\ leaving[t] # <<"detach", p>> =>
               /\ entry[p][t] \in DOMAIN made
               /\ made[entry[p][t]] = [id |-> sandbox[p].id, for |-> t]
    /\ \A t \in Worker : attached[t] \subseteq Live
    /\ \A t, u \in Worker : \A i \in DOMAIN inside[t], j \in DOMAIN inside[u] :
        /\ inside[t][i].ctx \in DOMAIN made
        /\ t # u => inside[t][i].ctx # inside[u][j].ctx
=============================================================================
