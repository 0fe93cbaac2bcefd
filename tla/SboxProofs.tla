------------------------------ MODULE SboxProofs ------------------------------
(***************************************************************************)
(* The C++ binding, for any number of threads, sandboxes, places and       *)
(* nested calls, and for any sizes of parameters and arguments.            *)
(*                                                                         *)
(* A thread's context: OwnInv follows the contexts the runtime holds.      *)
(* There is at most one for each sandbox id and thread, and as ids are not *)
(* used again, an entry, a kept pointer or a call that leads to one of the *)
(* right id and thread leads to the only one.                              *)
(***************************************************************************)
EXTENDS SboxStack, SboxThreads, CallbackTable, FiniteSetTheorems, SequenceTheorems,
        WellFoundedInduction, TLAPS

\* Types of the variables of sbox/lfi.h and sbox/lfi.cpp.
ThreadTypes ==
    /\ nextId \in 1..(MaxId + 1)
    /\ sandbox \in [Place -> {NoSandbox} \cup [id : 1..MaxId, main : Worker, ctx : Context]]
    /\ entry \in [Place -> [Worker -> {NoEntry} \cup Context]]
    /\ DOMAIN made \subseteq Context /\ made \in [DOMAIN made -> [id : 1..MaxId, for : Worker]]
    /\ last \in [Worker -> [id : 0..MaxId, there : BOOLEAN]]
    /\ attached \in [Worker -> SUBSET Place]
    /\ inside \in [Worker -> Seq([at : Place, ctx : Context])]
    /\ leaving \in [Worker -> {<<>>, <<"end">>} \cup {<<"detach", p>> : p \in Place}]

\* An id is given once.
IdsFresh ==
    /\ \A p \in Live : sandbox[p].id < nextId
    /\ \A p, q \in Live : sandbox[p].id = sandbox[q].id => p = q
    /\ \A c \in DOMAIN made : made[c].id < nextId
    /\ \A t \in Worker : last[t].id < nextId

\* c is a context that is in use, of the sandbox at p and made for t.
Belongs(c, p, t) == c \in DOMAIN made /\ made[c] = [id |-> sandbox[p].id, for |-> t]

\* There is one context for a thread in a sandbox, and while the sandbox and
\* the thread are there, its entry leads to it.
MadeOnce ==
    /\ \A c, d \in DOMAIN made : made[c] = made[d] => c = d
    /\ \A p \in Live : Belongs(sandbox[p].ctx, p, sandbox[p].main)
    /\ \A c \in DOMAIN made, p \in Live : made[c].id = sandbox[p].id =>
          \/ c = sandbox[p].ctx
          \/ leaving[made[c].for] = <<"end">>
          \/ entry[p][made[c].for] = c /\ leaving[made[c].for] # <<"detach", p>>

\* Where there is an entry there is a context, and who takes it down.
EntriesOwn ==
    \A t \in Worker, p \in Place :
        /\ p \notin Live => entry[p][t] = NoEntry
        /\ entry[p][t] # NoEntry =>
              /\ sandbox[p].main # t => p \in attached[t]
              /\ leaving[t] # <<"detach", p>> => Belongs(entry[p][t], p, t)

\* last_ctxp points to an entry as long as it is followed.
CachesSound ==
    \A t \in Worker, p \in Live : Cached(t, p) =>
        /\ leaving[t] # <<"end">> => last[t].there
        /\ last[t].there => entry[p][t] # NoEntry

\* Sandboxes outlive what threads do in them.
SandboxesStay ==
    \A t \in Worker :
        /\ attached[t] \subseteq Live
        /\ leaving[t] = <<"end">> => inside[t] = <<>>
        /\ \A p \in Place : leaving[t] = <<"detach", p>> => p \in Live
        /\ \A i \in DOMAIN inside[t] :
              /\ inside[t][i].at \in Live
              /\ leaving[t] # <<"detach", inside[t][i].at>>
              /\ Belongs(inside[t][i].ctx, inside[t][i].at, t)

OwnInv == ThreadTypes /\ IdsFresh /\ MadeOnce /\ EntriesOwn /\ CachesSound /\ SandboxesStay

-----------------------------------------------------------------------------
\* A set of naturals has a least element.
LEMMA LeastOf ==
    ASSUME NEW S \in SUBSET Nat, S # {}
    PROVE  \E x \in S : \A y \in S : x <= y
<1> DEFINE R == OpToRel(<, Nat)
<1>1. IsWellFoundedOn(R, Nat)
  BY NatLessThanWellFounded
<1>2. PICK x \in S : \A y \in S : ~(<<y, x>> \in R)
  <2> HIDE DEF R
  <2> QED BY <1>1, WFMin
<1>3. \A y \in S : ~(y < x)
  BY <1>2 DEF OpToRel
<1> QED BY <1>3

\* A stack without its top, and with another one.
LEMMA Popped ==
    ASSUME NEW T, NEW s \in Seq(T), s # <<>>
    PROVE  /\ SubSeq(s, 1, Len(s) - 1) \in Seq(T)
           /\ Len(SubSeq(s, 1, Len(s) - 1)) = Len(s) - 1
           /\ \A i \in 1..(Len(s) - 1) : SubSeq(s, 1, Len(s) - 1)[i] = s[i]
           /\ Len(s) \in Nat /\ Len(s) > 0
<1>1. Len(s) \in Nat /\ Len(s) > 0 /\ \A i \in 1..Len(s) : s[i] \in T
  BY EmptySeq, LenProperties, ElementOfSeq
<1>2. PICK n : n = Len(s) - 1
  OBVIOUS
<1>3. n \in Int /\ 1 \in Int /\ \A i \in 1..n : s[i] \in T
  BY <1>1, <1>2
<1>4. /\ SubSeq(s, 1, n) \in Seq(T)
      /\ Len(SubSeq(s, 1, n)) = IF 1 <= n THEN n - 1 + 1 ELSE 0
      /\ \A i \in 1..(n - 1 + 1) : SubSeq(s, 1, n)[i] = s[1 + i - 1]
  BY <1>3, SubSeqProperties
<1>5. n >= 0 /\ n - 1 + 1 = n /\ \A i \in 1..n : 1 + i - 1 = i
  BY <1>1, <1>2
<1>6. Len(SubSeq(s, 1, n)) = n /\ \A i \in 1..n : SubSeq(s, 1, n)[i] = s[i]
  BY <1>3, <1>4, <1>5
<1> QED BY <1>1, <1>2, <1>4, <1>6

\* A sequence with one more element.
LEMMA Pushed ==
    ASSUME NEW T, NEW s \in Seq(T), NEW a \in T
    PROVE  /\ Append(s, a) \in Seq(T) /\ Len(Append(s, a)) = Len(s) + 1
           /\ \A i \in 1..Len(s) : Append(s, a)[i] = s[i]
           /\ Append(s, a)[Len(s) + 1] = a
           /\ Len(s) \in Nat
BY AppendProperties, LenProperties

\* The steps of a thread that leaves are told apart.
LEMMA Leavings ==
    /\ <<"end">> # <<>>
    /\ \A p : /\ <<"detach", p>> # <<>> /\ <<"detach", p>> # <<"end">>
              /\ <<"detach", p>>[1] = "detach" /\ <<"detach", p>>[2] = p
    /\ \A p, q : <<"detach", p>> = <<"detach", q>> => p = q
    /\ <<"end">>[1] # "detach"
<1>1. <<"end">>[1] = "end" /\ Len(<<"end">>) = 1 /\ Len(<<>>) = 0
  OBVIOUS
<1>2. ASSUME NEW p PROVE <<"detach", p>>[1] = "detach" /\ <<"detach", p>>[2] = p /\ Len(<<"detach", p>>) = 2
  OBVIOUS
<1> QED BY <1>1, <1>2

\* Contexts are words above the two marks of an entry.
LEMMA Contexts ==
    /\ Context \subseteq Nat /\ IsFiniteSet(Context)
    /\ Cardinality(Context) = Cardinality(Worker) * MaxId
    /\ NoEntry \notin Context /\ Unattached \notin Context /\ NoEntry # Unattached
<1>1. Cardinality(Worker) \in Nat /\ MaxId \in Nat
  BY ThreadsAssumption, FS_CardinalityType
<1>2. Cardinality(Worker) * MaxId \in Nat
  BY <1>1
<1>3. PICK n \in Nat : n = Cardinality(Worker) * MaxId
  BY <1>2
<1>4. IsFiniteSet(2..(1 + n)) /\ Cardinality(2..(1 + n)) = n
  BY FS_Interval
<1> QED BY <1>3, <1>4 DEF Context, NoEntry, Unattached

\* A live sandbox has an id, a main thread and its context.
LEMMA LiveIs ==
    ASSUME ThreadTypes, NEW p \in Live
    PROVE  /\ p \in Place
           /\ sandbox[p] \in [id : 1..MaxId, main : Worker, ctx : Context]
BY DEF ThreadTypes, Live, NoSandbox

\* lfi_clone finds a context as long as a thread has one per sandbox at most.
LEMMA SomeContext ==
    ASSUME OwnInv, NEW id \in 1..MaxId, NEW t \in Worker,
           \A c \in DOMAIN made : made[c] # [id |-> id, for |-> t]
    PROVE  NewContext \in Context \ DOMAIN made
<1>1. /\ DOMAIN made \subseteq Context /\ made \in [DOMAIN made -> [id : 1..MaxId, for : Worker]]
      /\ \A c, d \in DOMAIN made : made[c] = made[d] => c = d
  BY DEF OwnInv, ThreadTypes, MadeOnce
<1>2. SUFFICES Free # {}
  <2>1. Free \subseteq Nat
    BY Contexts DEF Free
  <2>2. \E c \in Free : \A d \in Free : c <= d
    BY <1>2, <2>1, LeastOf
  <2> QED BY <2>2 DEF NewContext, Free
<1>3. SUFFICES ASSUME Context \subseteq DOMAIN made PROVE FALSE
  BY DEF Free
<1>4. DOMAIN made = Context
  BY <1>1, <1>3
<1> DEFINE Pairs == (1..MaxId) \X Worker
           Left == Pairs \ {<<id, t>>}
           f == [c \in Context |-> <<made[c].id, made[c].for>>]
<1>5. f \in Injection(Context, Left)
  <2>1. \A c \in Context : f[c] \in Left
    <3> SUFFICES ASSUME NEW c \in Context PROVE f[c] \in Left
      OBVIOUS
    <3>1. made[c] \in [id : 1..MaxId, for : Worker]
      BY <1>1, <1>4
    <3>2. made[c] # [id |-> id, for |-> t]
      BY <1>4
    <3> QED BY <3>1, <3>2
  <2>2. \A c, d \in Context : f[c] = f[d] => c = d
    <3> SUFFICES ASSUME NEW c \in Context, NEW d \in Context, f[c] = f[d] PROVE c = d
      OBVIOUS
    <3>1. made[c].id = made[d].id /\ made[c].for = made[d].for
      OBVIOUS
    <3>2. made[c] = made[d]
      BY <1>1, <1>4, <3>1
    <3> QED BY <1>1, <1>4, <3>2
  <2> QED BY <2>1, <2>2 DEF Injection, IsInjective
<1>6. IsFiniteSet(Pairs) /\ Cardinality(Pairs) = MaxId * Cardinality(Worker)
  <2>1. IsFiniteSet(1..MaxId) /\ Cardinality(1..MaxId) = MaxId
    BY ThreadsAssumption, FS_Interval
  <2> QED BY <2>1, FS_Product, ThreadsAssumption
<1>7. /\ IsFiniteSet(Left) /\ Cardinality(Left) = Cardinality(Pairs) - 1
  <2>1. <<id, t>> \in Pairs
    OBVIOUS
  <2> HIDE DEF Pairs
  <2> QED BY <1>6, <2>1, FS_RemoveElement
<1>8. Cardinality(Context) <= Cardinality(Left)
  <2> HIDE DEF Left, f
  <2> QED BY <1>5, <1>7, FS_Injection
<1>9. Cardinality(Worker) \in Nat /\ MaxId \in Nat
  BY ThreadsAssumption, FS_CardinalityType
<1> HIDE DEF Pairs, Left, f
<1>10. Cardinality(Worker) * MaxId = MaxId * Cardinality(Worker) /\ Cardinality(Worker) * MaxId \in Nat
  BY <1>9
<1> QED BY <1>6, <1>7, <1>8, <1>10, Contexts

-----------------------------------------------------------------------------
(* The steps of the threads. *)

\* Nothing changes for a thread but, perhaps, the next id.
LEMMA ThreadsSame ==
    ASSUME OwnInv, UNCHANGED <<sandbox, made, entry, last, attached, inside, leaving>>
    PROVE  MadeOnce' /\ EntriesOwn' /\ CachesSound' /\ SandboxesStay'
<1>1. MadeOnce'
  BY DEF OwnInv, MadeOnce, Live, Belongs
<1>2. EntriesOwn'
  BY DEF OwnInv, EntriesOwn, Live, Belongs
<1>3. CachesSound'
  BY DEF OwnInv, CachesSound, Live, Cached
<1>4. SandboxesStay'
  BY DEF OwnInv, SandboxesStay, Live, Belongs
<1> QED BY <1>1, <1>2, <1>3, <1>4

\* EngineInit and EngineDestroy touch nothing of a thread's.
LEMMA EngineStep ==
    ASSUME OwnInv, UNCHANGED <<nextId, sandbox, entry, made, last, attached, inside, leaving>>
    PROVE  OwnInv'
<1>1. ThreadTypes'
  BY DEF OwnInv, ThreadTypes
<1>2. IdsFresh'
  BY DEF OwnInv, IdsFresh, Live
<1> QED BY <1>1, <1>2, ThreadsSame DEF OwnInv

\* A sandbox that could not be loaded has used up an id.
LEMMA CreateFails ==
    ASSUME OwnInv, nextId <= MaxId, nextId' = nextId + 1,
           UNCHANGED <<sandbox, made, entry, last, attached, inside, leaving>>
    PROVE  OwnInv'
<1>1. nextId' \in 1..(MaxId + 1) /\ nextId \in Nat
  BY ThreadsAssumption DEF OwnInv, ThreadTypes
<1>2. IdsFresh'
  <2>1. \A p \in Live : sandbox[p].id \in Nat
    BY LiveIs DEF OwnInv
  <2>2. \A c \in DOMAIN made : made[c].id \in Nat
    BY DEF OwnInv, ThreadTypes
  <2>3. \A t \in Worker : last[t].id \in Nat
    BY DEF OwnInv, ThreadTypes
  <2> QED BY <1>1, <2>1, <2>2, <2>3 DEF OwnInv, IdsFresh, Live
<1>3. ThreadTypes'
  BY <1>1 DEF OwnInv, ThreadTypes
<1> QED BY <1>2, <1>3, ThreadsSame DEF OwnInv

\* A new sandbox comes to a free place with a new id and a context of its own.
LEMMA CreateSucceeds ==
    ASSUME OwnInv, NEW t \in Worker, NEW p \in Place, p \notin Live,
           nextId <= MaxId, nextId' = nextId + 1,
           sandbox' = [sandbox EXCEPT ![p] = [id |-> nextId, main |-> t, ctx |-> NewContext]],
           made' = Hold(NewContext, nextId, t),
           UNCHANGED <<entry, last, attached, inside, leaving>>
    PROVE  OwnInv'
<1>1. nextId' \in 1..(MaxId + 1) /\ nextId \in 1..MaxId
  BY ThreadsAssumption DEF OwnInv, ThreadTypes
<1>2. PICK c : c = NewContext
  OBVIOUS
<1>3. c \in Context /\ c \notin DOMAIN made
  <2>1. \A d \in DOMAIN made : made[d] # [id |-> nextId, for |-> t]
    <3> SUFFICES ASSUME NEW d \in DOMAIN made, made[d] = [id |-> nextId, for |-> t] PROVE FALSE
      OBVIOUS
    <3>1. made[d].id < nextId /\ made[d].id = nextId
      BY DEF OwnInv, IdsFresh
    <3> QED BY <1>1, <3>1
  <2> QED BY <1>1, <1>2, <2>1, SomeContext
<1>4. /\ DOMAIN made' = DOMAIN made \cup {c} /\ made'[c] = [id |-> nextId, for |-> t]
      /\ \A d \in DOMAIN made : made'[d] = made[d]
  BY <1>2, <1>3 DEF Hold
<1>5. /\ sandbox'[p] = [id |-> nextId, main |-> t, ctx |-> c]
      /\ \A q \in Place : q # p => sandbox'[q] = sandbox[q]
      /\ Live' = Live \cup {p}
  <2>1. sandbox \in [Place -> {NoSandbox} \cup [id : 1..MaxId, main : Worker, ctx : Context]]
    BY DEF OwnInv, ThreadTypes
  <2>2. /\ sandbox'[p] = [id |-> nextId, main |-> t, ctx |-> c]
        /\ \A q \in Place : q # p => sandbox'[q] = sandbox[q]
    BY <1>2, <2>1
  <2> QED BY <1>1, <2>2 DEF Live
<1>6. ThreadTypes'
  <2>1. sandbox' \in [Place -> {NoSandbox} \cup [id : 1..MaxId, main : Worker, ctx : Context]]
    BY <1>1, <1>2, <1>3 DEF OwnInv, ThreadTypes
  <2>2. DOMAIN made' \subseteq Context /\ made' \in [DOMAIN made' -> [id : 1..MaxId, for : Worker]]
    <3>1. made' = [x \in DOMAIN made \cup {c} |-> IF x = c THEN [id |-> nextId, for |-> t] ELSE made[x]]
      BY <1>2 DEF Hold
    <3> QED BY <1>1, <1>3, <3>1 DEF OwnInv, ThreadTypes
  <2> QED BY <1>1, <2>1, <2>2 DEF OwnInv, ThreadTypes
<1>7. IdsFresh'
  <2>1. \A q \in Live : sandbox[q].id \in Nat /\ sandbox[q].id < nextId
    BY LiveIs DEF OwnInv, IdsFresh
  <2>2. \A d \in DOMAIN made : made[d].id \in Nat /\ made[d].id < nextId
    BY DEF OwnInv, ThreadTypes, IdsFresh
  <2>3. \A u \in Worker : last[u].id \in Nat /\ last[u].id < nextId
    BY DEF OwnInv, ThreadTypes, IdsFresh
  <2>4. \A q, r \in Live' : sandbox'[q].id = sandbox'[r].id => q = r
    BY <1>1, <1>5, <2>1, LiveIs DEF OwnInv, IdsFresh
  <2>5. \A q \in Live' : sandbox'[q].id < nextId'
    BY <1>1, <1>5, <2>1, LiveIs DEF OwnInv
  <2>6. \A d \in DOMAIN made' : made'[d].id < nextId'
    BY <1>1, <1>4, <2>2
  <2>7. \A u \in Worker : last'[u].id < nextId'
    BY <1>1, <2>3
  <2> QED BY <2>4, <2>5, <2>6, <2>7 DEF IdsFresh
<1>8. \A q \in Live, u \in Worker : \A d : Belongs(d, q, u) => Belongs(d, q, u)'
  BY <1>4, <1>5, LiveIs DEF OwnInv, Belongs
<1>9. \A d \in DOMAIN made : made[d].id # nextId /\ made[d].for \in Worker
  BY <1>1 DEF OwnInv, IdsFresh, ThreadTypes
<1>10. MadeOnce'
  <2>1. \A d, e \in DOMAIN made' : made'[d] = made'[e] => d = e
    BY <1>4, <1>9 DEF OwnInv, MadeOnce
  <2>2. \A q \in Live' : Belongs(sandbox[q].ctx, q, sandbox[q].main)'
    <3>1. Belongs(sandbox[p].ctx, p, sandbox[p].main)'
      BY <1>4, <1>5 DEF Belongs
    <3>2. ASSUME NEW q \in Live PROVE Belongs(sandbox[q].ctx, q, sandbox[q].main)'
      <4>1. Belongs(sandbox[q].ctx, q, sandbox[q].main) /\ sandbox[q].main \in Worker
        BY LiveIs DEF OwnInv, MadeOnce
      <4>2. sandbox'[q] = sandbox[q]
        BY <1>5, LiveIs DEF OwnInv
      <4> QED BY <1>4, <4>1, <4>2 DEF Belongs
    <3> QED BY <1>5, <3>1, <3>2
  <2>3. ASSUME NEW d \in DOMAIN made', NEW q \in Live', made'[d].id = sandbox'[q].id
        PROVE  \/ d = sandbox'[q].ctx
               \/ leaving'[made'[d].for] = <<"end">>
               \/ entry'[q][made'[d].for] = d /\ leaving'[made'[d].for] # <<"detach", q>>
    <3>1. CASE q = p
      BY <1>4, <1>5, <1>9, <2>3, <3>1
    <3>2. CASE q # p
      <4>1. q \in Live /\ sandbox'[q] = sandbox[q] /\ sandbox[q].id # nextId
        BY <1>1, <1>5, <3>2, LiveIs DEF OwnInv, IdsFresh
      <4>2. d \in DOMAIN made /\ made'[d] = made[d]
        BY <1>4, <2>3, <4>1
      <4> QED BY <2>3, <4>1, <4>2 DEF OwnInv, MadeOnce
    <3> QED BY <3>1, <3>2
  <2> QED BY <2>1, <2>2, <2>3 DEF MadeOnce
<1>11. EntriesOwn'
  <2> SUFFICES ASSUME NEW u \in Worker, NEW q \in Place
               PROVE  /\ q \notin Live' => entry'[q][u] = NoEntry
                      /\ entry'[q][u] # NoEntry =>
                            /\ sandbox'[q].main # u => q \in attached'[u]
                            /\ leaving'[u] # <<"detach", q>> => Belongs(entry[q][u], q, u)'
    BY DEF EntriesOwn
  <2>1. q \notin Live => entry[q][u] = NoEntry
    BY DEF OwnInv, EntriesOwn
  <2>2. CASE q \in Live
    <3>1. sandbox'[q] = sandbox[q]
      BY <1>5, <2>2
    <3>2. entry[q][u] # NoEntry => /\ sandbox[q].main # u => q \in attached[u]
                                   /\ leaving[u] # <<"detach", q>> => Belongs(entry[q][u], q, u)
      BY DEF OwnInv, EntriesOwn
    <3>3. Belongs(entry[q][u], q, u) => Belongs(entry[q][u], q, u)'
      BY <1>4, <3>1 DEF Belongs
    <3> QED BY <1>5, <2>2, <3>1, <3>2, <3>3
  <2> QED BY <1>5, <2>1, <2>2
<1>12. CachesSound'
  <2>1. \A u \in Worker : ~Cached(u, p)'
    BY <1>1, <1>5 DEF OwnInv, IdsFresh, Cached, ThreadTypes
  <2>2. \A u \in Worker, q \in Live : Cached(u, q)' <=> Cached(u, q)
    BY <1>5, LiveIs DEF OwnInv, Cached
  <2> QED BY <1>5, <2>1, <2>2 DEF OwnInv, CachesSound
<1>13. SandboxesStay'
  <2>1. \A u \in Worker : \A i \in DOMAIN inside[u] :
              /\ inside[u][i].at \in Live
              /\ leaving[u] # <<"detach", inside[u][i].at>>
              /\ Belongs(inside[u][i].ctx, inside[u][i].at, u)
    BY DEF OwnInv, SandboxesStay
  <2>2. \A u \in Worker : \A i \in DOMAIN inside'[u] :
              /\ inside'[u][i].at \in Live'
              /\ leaving'[u] # <<"detach", inside'[u][i].at>>
              /\ Belongs(inside[u][i].ctx, inside[u][i].at, u)'
    <3> SUFFICES ASSUME NEW u \in Worker, NEW i \in DOMAIN inside[u]
                 PROVE  /\ inside[u][i].at \in Live'
                        /\ leaving[u] # <<"detach", inside[u][i].at>>
                        /\ Belongs(inside[u][i].ctx, inside[u][i].at, u)'
      OBVIOUS
    <3>1. PICK q, d : q = inside[u][i].at /\ d = inside[u][i].ctx
      OBVIOUS
    <3>2. q \in Live /\ Belongs(d, q, u) /\ leaving[u] # <<"detach", q>>
      BY <2>1, <3>1
    <3>3. Belongs(d, q, u)'
      BY <1>8, <3>2
    <3> QED BY <1>5, <3>1, <3>2, <3>3 DEF Belongs
  <2> QED BY <1>5, <2>2 DEF OwnInv, SandboxesStay
<1> QED BY <1>6, <1>7, <1>10, <1>11, <1>12, <1>13 DEF OwnInv

\* The main thread's context of a sandbox belongs to no other one.
LEMMA MainApart ==
    ASSUME OwnInv, NEW p \in Live, NEW q \in Live, p # q, NEW u, NEW c, Belongs(c, q, u)
    PROVE  c # sandbox[p].ctx /\ sandbox[p].id # sandbox[q].id
<1>1. sandbox[p].id # sandbox[q].id
  BY DEF OwnInv, IdsFresh
<1>2. Belongs(sandbox[p].ctx, p, sandbox[p].main)
  BY DEF OwnInv, MadeOnce
<1>3. made[sandbox[p].ctx].id = sandbox[p].id
  BY <1>2 DEF Belongs
<1>4. made[c].id = sandbox[q].id
  BY DEF Belongs
<1> QED BY <1>1, <1>3, <1>4

\* A sandbox goes with the context of its main thread and all its entries.
LEMMA DestroyStep ==
    ASSUME OwnInv, NEW t \in Worker, NEW p \in Place, Destroy(t, p)
    PROVE  OwnInv'
<1>1. /\ p \in Live
      /\ \A u \in Worker : /\ p \notin attached[u]
                           /\ leaving[u] # <<"detach", p>>
                           /\ \A i \in DOMAIN inside[u] : inside[u][i].at # p
      /\ UNCHANGED <<nextId, attached, inside, leaving>>
  BY DEF Destroy
<1>2. /\ sandbox'[p] = NoSandbox /\ \A q \in Place : q # p => sandbox'[q] = sandbox[q]
      /\ sandbox' \in [Place -> {NoSandbox} \cup [id : 1..MaxId, main : Worker, ctx : Context]]
      /\ Live' = Live \ {p}
  <2>1. /\ sandbox' = [sandbox EXCEPT ![p] = NoSandbox]
        /\ sandbox \in [Place -> {NoSandbox} \cup [id : 1..MaxId, main : Worker, ctx : Context]]
    BY DEF Destroy, OwnInv, ThreadTypes
  <2>2. /\ sandbox'[p] = NoSandbox /\ \A q \in Place : q # p => sandbox'[q] = sandbox[q]
        /\ sandbox' \in [Place -> {NoSandbox} \cup [id : 1..MaxId, main : Worker, ctx : Context]]
    BY <2>1
  <2> QED BY <2>2 DEF Live, NoSandbox
<1>3. PICK g : g = sandbox[p].ctx
  OBVIOUS
<1>4. /\ DOMAIN made' = DOMAIN made \ {g} /\ \A d \in DOMAIN made' : made'[d] = made[d]
      /\ DOMAIN made' \subseteq Context /\ made' \in [DOMAIN made' -> [id : 1..MaxId, for : Worker]]
  <2>1. made' = [x \in DOMAIN made \ {g} |-> made[x]]
    BY <1>3 DEF Destroy, Dropped
  <2>2. DOMAIN made \subseteq Context /\ made \in [DOMAIN made -> [id : 1..MaxId, for : Worker]]
    BY DEF OwnInv, ThreadTypes
  <2> QED BY <2>1, <2>2
<1>5. /\ \A u \in Worker : entry'[p][u] = NoEntry
      /\ \A q \in Place : q # p => entry'[q] = entry[q]
      /\ entry' \in [Place -> [Worker -> {NoEntry} \cup Context]]
  BY DEF Destroy, OwnInv, ThreadTypes
<1>6. /\ \A u \in Worker : last'[u].id = last[u].id
      /\ \A u \in Worker : last[u].id # sandbox[p].id => last'[u] = last[u]
      /\ last' \in [Worker -> [id : 0..MaxId, there : BOOLEAN]]
  BY DEF Destroy, OwnInv, ThreadTypes
<1>7. ASSUME NEW q \in Live, q # p, NEW u, NEW c, Belongs(c, q, u)
      PROVE  Belongs(c, q, u)'
  <2>1. c # g
    BY <1>1, <1>3, <1>7, MainApart
  <2> QED BY <1>2, <1>4, <1>7, <2>1, LiveIs DEF Belongs, OwnInv
<1>8. ThreadTypes'
  BY <1>1, <1>2, <1>4, <1>5, <1>6 DEF OwnInv, ThreadTypes
<1>9. IdsFresh'
  BY <1>1, <1>2, <1>4, <1>6, LiveIs DEF OwnInv, IdsFresh
<1>10. MadeOnce'
  <2>1. \A d, e \in DOMAIN made' : made'[d] = made'[e] => d = e
    BY <1>4 DEF OwnInv, MadeOnce
  <2>2. ASSUME NEW q \in Live' PROVE Belongs(sandbox[q].ctx, q, sandbox[q].main)'
    <3>1. q \in Live /\ q # p /\ sandbox'[q] = sandbox[q]
      BY <1>2, LiveIs DEF OwnInv
    <3>2. Belongs(sandbox[q].ctx, q, sandbox[q].main)
      BY <3>1 DEF OwnInv, MadeOnce
    <3>3. PICK c, u : c = sandbox[q].ctx /\ u = sandbox[q].main
      OBVIOUS
    <3>4. Belongs(c, q, u)'
      BY <1>7, <3>1, <3>2, <3>3
    <3> QED BY <3>1, <3>3, <3>4 DEF Belongs
  <2>3. ASSUME NEW d \in DOMAIN made', NEW q \in Live', made'[d].id = sandbox'[q].id
        PROVE  \/ d = sandbox'[q].ctx
               \/ leaving'[made'[d].for] = <<"end">>
               \/ entry'[q][made'[d].for] = d /\ leaving'[made'[d].for] # <<"detach", q>>
    <3>1. q \in Live /\ q # p /\ sandbox'[q] = sandbox[q] /\ entry'[q] = entry[q]
      BY <1>2, <1>5, LiveIs DEF OwnInv
    <3>2. d \in DOMAIN made /\ made'[d] = made[d] /\ made[d].id = sandbox[q].id
      BY <1>4, <2>3, <3>1
    <3>3. \/ d = sandbox[q].ctx
          \/ leaving[made[d].for] = <<"end">>
          \/ entry[q][made[d].for] = d /\ leaving[made[d].for] # <<"detach", q>>
      BY <3>1, <3>2 DEF OwnInv, MadeOnce
    <3> QED BY <1>1, <3>1, <3>2, <3>3
  <2> QED BY <2>1, <2>2, <2>3 DEF MadeOnce
<1>11. EntriesOwn'
  <2> SUFFICES ASSUME NEW u \in Worker, NEW q \in Place
               PROVE  /\ q \notin Live' => entry'[q][u] = NoEntry
                      /\ entry'[q][u] # NoEntry =>
                            /\ sandbox'[q].main # u => q \in attached'[u]
                            /\ leaving'[u] # <<"detach", q>> => Belongs(entry[q][u], q, u)'
    BY DEF EntriesOwn
  <2>1. CASE q = p
    BY <1>5, <2>1
  <2>2. CASE q # p
    <3>1. entry'[q] = entry[q] /\ sandbox'[q] = sandbox[q] /\ (q \in Live' <=> q \in Live)
      BY <1>2, <1>5, <2>2
    <3>2. /\ q \notin Live => entry[q][u] = NoEntry
          /\ entry[q][u] # NoEntry => /\ sandbox[q].main # u => q \in attached[u]
                                      /\ leaving[u] # <<"detach", q>> => Belongs(entry[q][u], q, u)
      BY DEF OwnInv, EntriesOwn
    <3>3. PICK c : c = entry[q][u]
      OBVIOUS
    <3>4. c # NoEntry /\ Belongs(c, q, u) => Belongs(c, q, u)'
      BY <1>7, <2>2, <3>2, <3>3
    <3>5. Belongs(c, q, u)' => Belongs(entry[q][u], q, u)'
      BY <3>1, <3>3 DEF Belongs
    <3> QED BY <1>1, <3>1, <3>2, <3>3, <3>4, <3>5
  <2> QED BY <2>1, <2>2
<1>12. CachesSound'
  <2> SUFFICES ASSUME NEW u \in Worker, NEW q \in Live', Cached(u, q)'
               PROVE  /\ leaving'[u] # <<"end">> => last'[u].there
                      /\ last'[u].there => entry'[q][u] # NoEntry
    BY DEF CachesSound
  <2>1. q \in Live /\ q # p /\ sandbox'[q] = sandbox[q] /\ entry'[q] = entry[q]
    BY <1>2, <1>5, LiveIs DEF OwnInv
  <2>2. Cached(u, q) /\ last[u].id = sandbox[q].id
    BY <1>6, <2>1 DEF Cached
  <2>3. last'[u] = last[u]
    BY <1>1, <1>6, <2>1, <2>2 DEF OwnInv, IdsFresh
  <2> QED BY <1>1, <2>1, <2>2, <2>3 DEF OwnInv, CachesSound
<1>13. SandboxesStay'
  <2> SUFFICES ASSUME NEW u \in Worker
               PROVE  /\ attached'[u] \subseteq Live'
                      /\ leaving'[u] = <<"end">> => inside'[u] = <<>>
                      /\ \A q \in Place : leaving'[u] = <<"detach", q>> => q \in Live'
                      /\ \A i \in DOMAIN inside'[u] :
                            /\ inside'[u][i].at \in Live'
                            /\ leaving'[u] # <<"detach", inside'[u][i].at>>
                            /\ Belongs(inside[u][i].ctx, inside[u][i].at, u)'
    BY DEF SandboxesStay
  <2>1. /\ attached'[u] \subseteq Live'
        /\ leaving'[u] = <<"end">> => inside'[u] = <<>>
        /\ \A q \in Place : leaving'[u] = <<"detach", q>> => q \in Live'
    BY <1>1, <1>2 DEF OwnInv, SandboxesStay
  <2>2. ASSUME NEW i \in DOMAIN inside[u]
        PROVE  /\ inside'[u][i].at \in Live'
               /\ leaving'[u] # <<"detach", inside'[u][i].at>>
               /\ Belongs(inside[u][i].ctx, inside[u][i].at, u)'
    <3>1. PICK q, d : q = inside[u][i].at /\ d = inside[u][i].ctx
      OBVIOUS
    <3>2. q \in Live /\ q # p /\ Belongs(d, q, u) /\ leaving[u] # <<"detach", q>>
      BY <1>1, <3>1 DEF OwnInv, SandboxesStay
    <3>3. Belongs(d, q, u)'
      BY <1>7, <3>2
    <3> QED BY <1>1, <1>2, <3>1, <3>2, <3>3 DEF Belongs
  <2> QED BY <1>1, <2>1, <2>2
<1> QED BY <1>8, <1>9, <1>10, <1>11, <1>12, <1>13 DEF OwnInv

\* get_thread_ctx: what a call runs on.  It is found, or it is the main
\* thread's, or lfi_clone makes it.
LEMMA CallContext ==
    ASSUME OwnInv, NEW t \in Worker, NEW p \in Place, Call(t, p)
    PROVE  \E c \in Context :
              /\ entry' = [entry EXCEPT ![p][t] = c]
              /\ inside' = [inside EXCEPT ![t] = Append(@, [at |-> p, ctx |-> c])]
              /\ Belongs(c, p, t)'
              /\ \/ made' = made
                 \/ /\ made' = Hold(c, sandbox[p].id, t) /\ c \notin DOMAIN made
                    /\ \A d \in DOMAIN made : made[d] # [id |-> sandbox[p].id, for |-> t]
              /\ attached[t] \subseteq attached'[t] /\ attached'[t] \subseteq attached[t] \cup {p}
              /\ sandbox[p].main # t => p \in attached'[t]
              /\ \A u \in Worker : u # t => attached'[u] = attached[u]
<1>1. p \in Live /\ leaving[t] = <<>> /\ sandbox' = sandbox
  BY DEF Call, Ready
<1>2. sandbox[p] \in [id : 1..MaxId, main : Worker, ctx : Context]
  BY <1>1, LiveIs DEF OwnInv
<1>3. /\ entry[p][t] \in {NoEntry} \cup Context
      /\ attached' = [attached EXCEPT ![t] = @ \cup AttachedBy(t, p)]
      /\ attached \in [Worker -> SUBSET Place]
  BY DEF Call, OwnInv, ThreadTypes
<1>4. /\ \A u \in Worker : u # t => attached'[u] = attached[u]
      /\ attached'[t] = attached[t] \cup AttachedBy(t, p)
  BY <1>3
<1>5. /\ entry[p][t] # NoEntry => Belongs(entry[p][t], p, t) /\ (sandbox[p].main # t => p \in attached[t])
      /\ Cached(t, p) => entry[p][t] # NoEntry
  <2>1. <<>> # <<"detach", p>> /\ <<>> # <<"end">>
    BY Leavings
  <2> QED BY <1>1, <2>1 DEF OwnInv, EntriesOwn, CachesSound
<1> DEFINE here == IF Cached(t, p) THEN entry[p][t] ELSE SlowPath(t, p)
           run == IF here = Unattached THEN NewContext ELSE here
<1>6. /\ entry' = [entry EXCEPT ![p][t] = run]
      /\ inside' = [inside EXCEPT ![t] = Append(@, [at |-> p, ctx |-> run])]
      /\ made' = IF here = Unattached THEN Hold(run, sandbox[p].id, t) ELSE made
  BY DEF Call
<1>7. CASE entry[p][t] # NoEntry
  <2>1. here = entry[p][t] /\ entry[p][t] \in Context /\ AttachedBy(t, p) = {}
    BY <1>3, <1>7 DEF SlowPath, AttachedBy
  <2>2. run = entry[p][t] /\ made' = made
    BY <1>6, <2>1, Contexts
  <2>3. PICK c : c = entry[p][t]
    OBVIOUS
  <2>4. run = c /\ c \in Context /\ Belongs(c, p, t)
    BY <1>5, <1>7, <2>1, <2>2, <2>3
  <2>5. Belongs(c, p, t)'
    BY <1>1, <2>2, <2>4 DEF Belongs
  <2> HIDE DEF run, here
  <2> QED BY <1>4, <1>5, <1>6, <1>7, <2>1, <2>2, <2>4, <2>5
<1>8. CASE entry[p][t] = NoEntry /\ sandbox[p].main = t
  <2>1. here = sandbox[p].ctx /\ AttachedBy(t, p) = {}
    BY <1>5, <1>8 DEF SlowPath, AttachedBy
  <2>2. run = sandbox[p].ctx /\ made' = made
    BY <1>2, <1>6, <2>1, Contexts
  <2>3. PICK c : c = sandbox[p].ctx
    OBVIOUS
  <2>4. run = c /\ c \in Context /\ Belongs(c, p, t)
    BY <1>1, <1>2, <1>8, <2>2, <2>3 DEF OwnInv, MadeOnce
  <2>5. Belongs(c, p, t)'
    BY <1>1, <2>2, <2>4 DEF Belongs
  <2> HIDE DEF run, here
  <2> QED BY <1>4, <1>6, <1>8, <2>1, <2>2, <2>4, <2>5
<1>9. CASE entry[p][t] = NoEntry /\ sandbox[p].main # t
  <2>1. here = Unattached /\ AttachedBy(t, p) = {p}
    BY <1>5, <1>9 DEF SlowPath, AttachedBy
  <2>2. run = NewContext /\ made' = Hold(run, sandbox[p].id, t)
    BY <1>6, <2>1
  <2>3. PICK c : c = NewContext
    OBVIOUS
  <2>4. ASSUME NEW d \in DOMAIN made, made[d] = [id |-> sandbox[p].id, for |-> t] PROVE FALSE
    <3>1. made[d].id = sandbox[p].id /\ made[d].for = t
      BY <2>4
    <3>2. d = sandbox[p].ctx \/ leaving[t] = <<"end">> \/ entry[p][t] = d
      BY <1>1, <3>1 DEF OwnInv, MadeOnce
    <3>3. d # sandbox[p].ctx
      <4>1. made[sandbox[p].ctx] = [id |-> sandbox[p].id, for |-> sandbox[p].main]
        BY <1>1 DEF OwnInv, MadeOnce, Belongs
      <4>2. made[sandbox[p].ctx].for = sandbox[p].main
        BY <4>1
      <4> QED BY <1>9, <3>1, <4>2
    <3>4. d \in Context
      BY DEF OwnInv, ThreadTypes
    <3> QED BY <1>1, <1>9, <3>2, <3>3, <3>4, Leavings, Contexts
  <2>5. c \in Context /\ c \notin DOMAIN made
    BY <1>2, <2>3, <2>4, SomeContext
  <2>6. run = c /\ made' = Hold(c, sandbox[p].id, t)
    BY <2>2, <2>3
  <2>7. Belongs(c, p, t)'
    BY <1>1, <2>6 DEF Belongs, Hold
  <2> HIDE DEF run, here
  <2> QED BY <1>4, <1>6, <1>9, <2>1, <2>4, <2>5, <2>6, <2>7
<1> QED BY <1>7, <1>8, <1>9

\* A call goes on a context of the thread's own.
LEMMA CallStep ==
    ASSUME OwnInv, NEW t \in Worker, NEW p \in Place, Call(t, p)
    PROVE  OwnInv'
<1>1. /\ p \in Live /\ leaving[t] = <<>> /\ UNCHANGED <<nextId, sandbox, leaving>>
      /\ last' = IF Cached(t, p) THEN last
                 ELSE [last EXCEPT ![t] = [id |-> sandbox[p].id, there |-> TRUE]]
      /\ Live' = Live
  BY DEF Call, Ready, Live
<1>2. PICK c \in Context :
              /\ entry' = [entry EXCEPT ![p][t] = c]
              /\ inside' = [inside EXCEPT ![t] = Append(@, [at |-> p, ctx |-> c])]
              /\ Belongs(c, p, t)'
              /\ \/ made' = made
                 \/ /\ made' = Hold(c, sandbox[p].id, t) /\ c \notin DOMAIN made
                    /\ \A d \in DOMAIN made : made[d] # [id |-> sandbox[p].id, for |-> t]
              /\ attached[t] \subseteq attached'[t] /\ attached'[t] \subseteq attached[t] \cup {p}
              /\ sandbox[p].main # t => p \in attached'[t]
              /\ \A u \in Worker : u # t => attached'[u] = attached[u]
  BY CallContext
<1>3. PICK id : id = sandbox[p].id
  OBVIOUS
<1>4. id \in 1..MaxId /\ id < nextId /\ nextId \in Nat
  <2>1. sandbox[p] \in [id : 1..MaxId, main : Worker, ctx : Context]
    BY <1>1, LiveIs DEF OwnInv
  <2>2. nextId \in Nat
    BY DEF OwnInv, ThreadTypes
  <2>3. sandbox[p].id < nextId
    BY <1>1 DEF OwnInv, IdsFresh
  <2> QED BY <1>3, <2>1, <2>2, <2>3
<1>5. /\ DOMAIN made \subseteq DOMAIN made' /\ DOMAIN made' \subseteq DOMAIN made \cup {c}
      /\ \A d \in DOMAIN made : made'[d] = made[d]
      /\ made'[c] = [id |-> id, for |-> t] /\ c \in DOMAIN made'
      /\ DOMAIN made' \subseteq Context /\ made' \in [DOMAIN made' -> [id : 1..MaxId, for : Worker]]
      /\ \A d, e \in DOMAIN made' : made'[d] = made'[e] => d = e
  <2>1. c \in DOMAIN made' /\ made'[c] = [id |-> id, for |-> t]
    BY <1>1, <1>2, <1>3 DEF Belongs
  <2>2. /\ DOMAIN made \subseteq Context /\ made \in [DOMAIN made -> [id : 1..MaxId, for : Worker]]
        /\ \A d, e \in DOMAIN made : made[d] = made[e] => d = e
    BY DEF OwnInv, ThreadTypes, MadeOnce
  <2>3. CASE made' = made
    BY <2>1, <2>2, <2>3
  <2>4. CASE /\ made' = Hold(c, id, t) /\ c \notin DOMAIN made
             /\ \A d \in DOMAIN made : made[d] # [id |-> id, for |-> t]
    <3>1. made' = [x \in DOMAIN made \cup {c} |-> IF x = c THEN [id |-> id, for |-> t] ELSE made[x]]
      BY <2>4 DEF Hold
    <3>2. /\ DOMAIN made' = DOMAIN made \cup {c}
          /\ \A d \in DOMAIN made : made'[d] = made[d]
      BY <2>4, <3>1
    <3>3. made' \in [DOMAIN made' -> [id : 1..MaxId, for : Worker]]
      BY <1>4, <2>2, <3>1
    <3> QED BY <2>1, <2>2, <2>4, <3>2, <3>3
  <2> QED BY <1>2, <1>3, <2>3, <2>4
<1>6. /\ entry'[p][t] = c /\ entry' \in [Place -> [Worker -> {NoEntry} \cup Context]]
      /\ \A q \in Place, u \in Worker : q # p \/ u # t => entry'[q][u] = entry[q][u]
  BY <1>2 DEF OwnInv, ThreadTypes
<1>7. /\ last' \in [Worker -> [id : 0..MaxId, there : BOOLEAN]]
      /\ \A u \in Worker : u # t => last'[u] = last[u]
      /\ Cached(t, p) => last' = last
      /\ ~Cached(t, p) => last'[t] = [id |-> id, there |-> TRUE]
  <2>1. last \in [Worker -> [id : 0..MaxId, there : BOOLEAN]]
    BY DEF OwnInv, ThreadTypes
  <2> QED BY <1>1, <1>3, <1>4, <2>1
<1>8. /\ \A u \in Worker : u # t => inside'[u] = inside[u]
      /\ inside' \in [Worker -> Seq([at : Place, ctx : Context])]
      /\ DOMAIN inside'[t] = DOMAIN inside[t] \cup {Len(inside[t]) + 1}
      /\ inside'[t][Len(inside[t]) + 1] = [at |-> p, ctx |-> c]
      /\ \A i \in DOMAIN inside[t] : inside'[t][i] = inside[t][i]
  <2>1. inside \in [Worker -> Seq([at : Place, ctx : Context])]
    BY DEF OwnInv, ThreadTypes
  <2>2. PICK s, a : s = inside[t] /\ a = [at |-> p, ctx |-> c]
    OBVIOUS
  <2>3. s \in Seq([at : Place, ctx : Context]) /\ a \in [at : Place, ctx : Context]
    BY <2>1, <2>2
  <2>4. /\ Append(s, a) \in Seq([at : Place, ctx : Context])
        /\ DOMAIN Append(s, a) = DOMAIN s \cup {Len(s) + 1}
        /\ Append(s, a)[Len(s) + 1] = a
        /\ \A i \in DOMAIN s : Append(s, a)[i] = s[i]
    BY <2>3
  <2>5. inside' = [inside EXCEPT ![t] = Append(s, a)]
    BY <1>2, <2>2
  <2>6. inside'[t] = Append(s, a) /\ \A u \in Worker : u # t => inside'[u] = inside[u]
    BY <2>1, <2>5
  <2>7. inside' \in [Worker -> Seq([at : Place, ctx : Context])]
    BY <2>1, <2>4, <2>5
  <2> QED BY <2>2, <2>4, <2>6, <2>7
<1>9. ASSUME NEW q, NEW u, NEW d, Belongs(d, q, u) PROVE Belongs(d, q, u)'
  BY <1>1, <1>5, <1>9 DEF Belongs
<1>10. ThreadTypes'
  <2>1. attached' \in [Worker -> SUBSET Place]
    <3>1. attached' = [attached EXCEPT ![t] = @ \cup AttachedBy(t, p)]
      BY DEF Call
    <3>2. AttachedBy(t, p) \subseteq Place
      BY DEF AttachedBy
    <3> QED BY <3>1, <3>2 DEF OwnInv, ThreadTypes
  <2> QED BY <1>1, <1>5, <1>6, <1>7, <1>8, <2>1 DEF OwnInv, ThreadTypes
<1>11. IdsFresh'
  <2>1. \A d \in DOMAIN made' : made'[d].id < nextId'
    BY <1>1, <1>4, <1>5 DEF OwnInv, IdsFresh
  <2>2. \A u \in Worker : last'[u].id < nextId'
    BY <1>1, <1>4, <1>7 DEF OwnInv, IdsFresh
  <2>3. /\ \A q \in Live' : sandbox'[q].id < nextId'
        /\ \A q, r \in Live' : sandbox'[q].id = sandbox'[r].id => q = r
    BY <1>1 DEF OwnInv, IdsFresh
  <2> QED BY <2>1, <2>2, <2>3 DEF IdsFresh
<1>12. MadeOnce'
  <2>2. ASSUME NEW q \in Live' PROVE Belongs(sandbox[q].ctx, q, sandbox[q].main)'
    <3>1. q \in Live /\ Belongs(sandbox[q].ctx, q, sandbox[q].main)
      BY <1>1 DEF OwnInv, MadeOnce
    <3>2. PICK e, u : e = sandbox[q].ctx /\ u = sandbox[q].main
      OBVIOUS
    <3>3. Belongs(e, q, u)'
      BY <1>9, <3>1, <3>2
    <3> QED BY <1>1, <3>2, <3>3
  <2>3. ASSUME NEW d \in DOMAIN made', NEW q \in Live', made'[d].id = sandbox'[q].id
        PROVE  \/ d = sandbox'[q].ctx
               \/ leaving'[made'[d].for] = <<"end">>
               \/ entry'[q][made'[d].for] = d /\ leaving'[made'[d].for] # <<"detach", q>>
    <3>1. q \in Live /\ q \in Place /\ sandbox'[q] = sandbox[q]
      BY <1>1, LiveIs DEF OwnInv
    <3>2. CASE d = c
      <4>1. made'[d].id = id /\ made'[d].for = t
        BY <1>5, <3>2
      <4>2. q = p
        BY <1>1, <1>3, <2>3, <3>1, <4>1 DEF OwnInv, IdsFresh
      <4>3. leaving'[t] # <<"detach", q>>
        BY <1>1, Leavings
      <4> QED BY <1>6, <3>2, <4>1, <4>2, <4>3
    <3>3. CASE d # c
      <4>1. d \in DOMAIN made /\ made'[d] = made[d] /\ made[d].id = sandbox[q].id
        BY <1>5, <2>3, <3>1, <3>3
      <4>2. \/ d = sandbox[q].ctx
            \/ leaving[made[d].for] = <<"end">>
            \/ entry[q][made[d].for] = d /\ leaving[made[d].for] # <<"detach", q>>
        BY <3>1, <4>1 DEF OwnInv, MadeOnce
      <4>3. made[d].for \in Worker
        BY <4>1 DEF OwnInv, ThreadTypes
      <4>4. q = p /\ made[d].for = t => FALSE
        <5> SUFFICES ASSUME q = p, made[d].for = t PROVE FALSE
          OBVIOUS
        <5>1. made[d] = [id |-> id, for |-> t]
          BY <1>3, <4>1 DEF OwnInv, ThreadTypes
        <5> QED BY <1>5, <3>3, <4>1, <5>1
      <4>5. entry'[q][made[d].for] = entry[q][made[d].for]
        BY <1>6, <3>1, <4>3, <4>4
      <4> QED BY <1>1, <3>1, <4>1, <4>2, <4>5
    <3> QED BY <3>2, <3>3
  <2> QED BY <1>5, <2>2, <2>3 DEF MadeOnce
<1>13. EntriesOwn'
  <2> SUFFICES ASSUME NEW u \in Worker, NEW q \in Place
               PROVE  /\ q \notin Live' => entry'[q][u] = NoEntry
                      /\ entry'[q][u] # NoEntry =>
                            /\ sandbox'[q].main # u => q \in attached'[u]
                            /\ leaving'[u] # <<"detach", q>> => Belongs(entry[q][u], q, u)'
    BY DEF EntriesOwn
  <2>1. CASE q = p /\ u = t
    <3>1. Belongs(entry[q][u], q, u)'
      BY <1>2, <1>6, <2>1 DEF Belongs
    <3> QED BY <1>1, <1>2, <2>1, <3>1
  <2>2. CASE q # p \/ u # t
    <3>1. PICK e : e = entry[q][u]
      OBVIOUS
    <3>2. entry'[q][u] = e
      BY <1>6, <2>2, <3>1
    <3>3. /\ q \notin Live => e = NoEntry
          /\ e # NoEntry => /\ sandbox[q].main # u => q \in attached[u]
                            /\ leaving[u] # <<"detach", q>> => Belongs(e, q, u)
      BY <3>1 DEF OwnInv, EntriesOwn
    <3>4. Belongs(e, q, u) => Belongs(entry[q][u], q, u)'
      BY <1>9, <3>2 DEF Belongs
    <3>5. attached[u] \subseteq attached'[u]
      BY <1>2
    <3> QED BY <1>1, <3>2, <3>3, <3>4, <3>5
  <2> QED BY <2>1, <2>2
<1>14. CachesSound'
  <2> SUFFICES ASSUME NEW u \in Worker, NEW q \in Live', Cached(u, q)'
               PROVE  /\ leaving'[u] # <<"end">> => last'[u].there
                      /\ last'[u].there => entry'[q][u] # NoEntry
    BY DEF CachesSound
  <2>1. q \in Live /\ q \in Place /\ last'[u].id = sandbox[q].id
    BY <1>1, LiveIs DEF OwnInv, Cached
  <2>2. CASE last'[u] = last[u]
    <3>1. Cached(u, q)
      BY <2>1, <2>2 DEF Cached
    <3>2. /\ leaving[u] # <<"end">> => last[u].there
          /\ last[u].there => entry[q][u] # NoEntry
      BY <2>1, <3>1 DEF OwnInv, CachesSound
    <3>3. c # NoEntry
      BY Contexts
    <3> QED BY <1>1, <1>6, <2>1, <2>2, <3>2, <3>3
  <2>3. CASE last'[u] # last[u]
    <3>1. u = t /\ last'[t] = [id |-> id, there |-> TRUE]
      BY <1>7, <2>3
    <3>2. last'[t].id = id /\ last'[t].there
      BY <3>1
    <3>3. q = p
      BY <1>1, <1>3, <2>1, <3>1, <3>2 DEF OwnInv, IdsFresh
    <3>4. c # NoEntry
      BY Contexts
    <3> QED BY <1>6, <3>1, <3>2, <3>3, <3>4
  <2> QED BY <2>2, <2>3
<1>15. SandboxesStay'
  <2> SUFFICES ASSUME NEW u \in Worker
               PROVE  /\ attached'[u] \subseteq Live'
                      /\ leaving'[u] = <<"end">> => inside'[u] = <<>>
                      /\ \A q \in Place : leaving'[u] = <<"detach", q>> => q \in Live'
                      /\ \A i \in DOMAIN inside'[u] :
                            /\ inside'[u][i].at \in Live'
                            /\ leaving'[u] # <<"detach", inside'[u][i].at>>
                            /\ Belongs(inside[u][i].ctx, inside[u][i].at, u)'
    BY DEF SandboxesStay
  <2>1. /\ attached[u] \subseteq Live
        /\ leaving[u] = <<"end">> => inside[u] = <<>>
        /\ \A q \in Place : leaving[u] = <<"detach", q>> => q \in Live
        /\ \A i \in DOMAIN inside[u] :
              /\ inside[u][i].at \in Live
              /\ leaving[u] # <<"detach", inside[u][i].at>>
              /\ Belongs(inside[u][i].ctx, inside[u][i].at, u)
    BY DEF OwnInv, SandboxesStay
  <2>2. attached'[u] \subseteq Live'
    BY <1>1, <1>2, <2>1
  <2>3. leaving'[u] = <<"end">> => inside'[u] = <<>>
    BY <1>1, <1>8, <2>1, Leavings
  <2>4. ASSUME NEW i \in DOMAIN inside[u], inside'[u][i] = inside[u][i]
        PROVE  /\ inside'[u][i].at \in Live'
               /\ leaving'[u] # <<"detach", inside'[u][i].at>>
               /\ Belongs(inside[u][i].ctx, inside[u][i].at, u)'
    <3>1. PICK q, d : q = inside[u][i].at /\ d = inside[u][i].ctx
      OBVIOUS
    <3>2. q \in Live /\ Belongs(d, q, u) /\ leaving[u] # <<"detach", q>>
      BY <2>1, <3>1
    <3>3. Belongs(d, q, u)'
      BY <1>9, <3>2
    <3> QED BY <1>1, <2>4, <3>1, <3>2, <3>3 DEF Belongs
  <2>5. ASSUME NEW i \in DOMAIN inside'[t], inside'[t][i] = [at |-> p, ctx |-> c]
        PROVE  /\ inside'[t][i].at \in Live'
               /\ leaving'[t] # <<"detach", inside'[t][i].at>>
               /\ Belongs(inside[t][i].ctx, inside[t][i].at, t)'
    <3>1. inside'[t][i].at = p /\ inside'[t][i].ctx = c
      BY <2>5
    <3>2. leaving'[t] # <<"detach", p>>
      BY <1>1, Leavings
    <3> QED BY <1>1, <1>2, <3>1, <3>2 DEF Belongs
  <2>6. CASE u = t
    BY <1>1, <1>8, <2>1, <2>2, <2>3, <2>4, <2>5, <2>6
  <2>7. CASE u # t
    BY <1>1, <1>8, <2>1, <2>2, <2>3, <2>4, <2>7
  <2> QED BY <2>6, <2>7
<1> QED BY <1>10, <1>11, <1>12, <1>13, <1>14, <1>15 DEF OwnInv

\* When a call returns, only the calls of its thread change.
LEMMA CallEndsStep ==
    ASSUME OwnInv, NEW t \in Worker, CallEnds(t)
    PROVE  OwnInv'
<1>1. /\ inside[t] # <<>> /\ inside' = [inside EXCEPT ![t] = SubSeq(@, 1, Len(@) - 1)]
      /\ UNCHANGED <<nextId, sandbox, made, entry, last, attached, leaving>>
  BY DEF CallEnds
<1>2. PICK s : s = inside[t]
  OBVIOUS
<1>3. inside \in [Worker -> Seq([at : Place, ctx : Context])] /\ s \in Seq([at : Place, ctx : Context])
  BY <1>2 DEF OwnInv, ThreadTypes
<1>4. PICK r : r = SubSeq(s, 1, Len(s) - 1)
  OBVIOUS
<1>5. /\ r \in Seq([at : Place, ctx : Context]) /\ DOMAIN r \subseteq DOMAIN s
      /\ \A i \in DOMAIN r : r[i] = s[i]
  <2>1. PICK n : n = Len(s) - 1
    OBVIOUS
  <2>2. /\ r \in Seq([at : Place, ctx : Context]) /\ Len(r) = n /\ n \in Nat
        /\ \A i \in 1..n : r[i] = s[i]
        /\ Len(s) = n + 1
    <3>1. s # <<>>
      BY <1>1, <1>2
    <3>2. PICK T : T = [at : Place, ctx : Context]
      OBVIOUS
    <3>3. s \in Seq(T)
      BY <1>3, <3>2
    <3>4. /\ SubSeq(s, 1, Len(s) - 1) \in Seq(T) /\ Len(SubSeq(s, 1, Len(s) - 1)) = Len(s) - 1
          /\ \A i \in 1..(Len(s) - 1) : SubSeq(s, 1, Len(s) - 1)[i] = s[i]
          /\ Len(s) \in Nat /\ Len(s) > 0
      BY <3>1, <3>3, Popped
    <3> QED BY <1>4, <2>1, <3>2, <3>4
  <2>3. DOMAIN r = 1..n /\ DOMAIN s = 1..(n + 1)
    BY <1>3, <2>2
  <2> QED BY <2>2, <2>3
<1>6. inside' = [inside EXCEPT ![t] = r]
  BY <1>1, <1>2, <1>4
<1>7. /\ inside'[t] = r /\ \A u \in Worker : u # t => inside'[u] = inside[u]
      /\ inside' \in [Worker -> Seq([at : Place, ctx : Context])]
  BY <1>3, <1>5, <1>6
<1>8. \A u \in Worker : /\ DOMAIN inside'[u] \subseteq DOMAIN inside[u]
                        /\ \A i \in DOMAIN inside'[u] : inside'[u][i] = inside[u][i]
  BY <1>2, <1>5, <1>7
<1>9. ThreadTypes'
  BY <1>1, <1>7 DEF OwnInv, ThreadTypes
<1>10. IdsFresh'
  BY <1>1 DEF OwnInv, IdsFresh, Live
<1>11. MadeOnce'
  BY <1>1 DEF OwnInv, MadeOnce, Live, Belongs
<1>12. EntriesOwn'
  BY <1>1 DEF OwnInv, EntriesOwn, Live, Belongs
<1>13. CachesSound'
  BY <1>1 DEF OwnInv, CachesSound, Live, Cached
<1>14. SandboxesStay'
  <2> SUFFICES ASSUME NEW u \in Worker
               PROVE  /\ attached'[u] \subseteq Live'
                      /\ leaving'[u] = <<"end">> => inside'[u] = <<>>
                      /\ \A q \in Place : leaving'[u] = <<"detach", q>> => q \in Live'
                      /\ \A i \in DOMAIN inside'[u] :
                            /\ inside'[u][i].at \in Live'
                            /\ leaving'[u] # <<"detach", inside'[u][i].at>>
                            /\ Belongs(inside[u][i].ctx, inside[u][i].at, u)'
    BY DEF SandboxesStay
  <2>1. /\ attached[u] \subseteq Live
        /\ leaving[u] = <<"end">> => inside[u] = <<>>
        /\ \A q \in Place : leaving[u] = <<"detach", q>> => q \in Live
        /\ \A i \in DOMAIN inside[u] :
              /\ inside[u][i].at \in Live
              /\ leaving[u] # <<"detach", inside[u][i].at>>
              /\ Belongs(inside[u][i].ctx, inside[u][i].at, u)
    BY DEF OwnInv, SandboxesStay
  <2>2. Live' = Live
    BY <1>1 DEF Live
  <2>3. leaving'[u] = <<"end">> => inside'[u] = <<>>
    BY <1>1, <1>7, <2>1
  <2>4. ASSUME NEW i \in DOMAIN inside'[u]
        PROVE  /\ inside'[u][i].at \in Live'
               /\ leaving'[u] # <<"detach", inside'[u][i].at>>
               /\ Belongs(inside[u][i].ctx, inside[u][i].at, u)'
    <3>1. i \in DOMAIN inside[u] /\ inside'[u][i] = inside[u][i]
      BY <1>8
    <3> QED BY <1>1, <2>1, <2>2, <3>1 DEF Belongs
  <2> QED BY <1>1, <2>1, <2>2, <2>3, <2>4
<1> QED BY <1>9, <1>10, <1>11, <1>12, <1>13, <1>14 DEF OwnInv

\* What remains when the runtime frees the contexts of a set.
LEMMA Dropping ==
    ASSUME OwnInv, NEW G, made' = Dropped(G), sandbox' = sandbox
    PROVE  /\ DOMAIN made' = DOMAIN made \ G /\ \A d \in DOMAIN made' : made'[d] = made[d]
           /\ DOMAIN made' \subseteq Context /\ made' \in [DOMAIN made' -> [id : 1..MaxId, for : Worker]]
           /\ \A d, e \in DOMAIN made' : made'[d] = made'[e] => d = e
           /\ \A d, q, u : Belongs(d, q, u) /\ d \notin G => Belongs(d, q, u)'
           /\ \A d \in DOMAIN made' : made'[d].id < nextId
<1>1. made' = [x \in DOMAIN made \ G |-> made[x]]
  BY DEF Dropped
<1>2. /\ DOMAIN made \subseteq Context /\ made \in [DOMAIN made -> [id : 1..MaxId, for : Worker]]
      /\ \A d, e \in DOMAIN made : made[d] = made[e] => d = e
      /\ \A d \in DOMAIN made : made[d].id < nextId
  BY DEF OwnInv, ThreadTypes, MadeOnce, IdsFresh
<1>3. DOMAIN made' = DOMAIN made \ G /\ \A d \in DOMAIN made' : made'[d] = made[d]
  BY <1>1
<1>4. \A d, q, u : Belongs(d, q, u) /\ d \notin G => Belongs(d, q, u)'
  BY <1>3 DEF Belongs
<1>5. made' \in [DOMAIN made' -> [id : 1..MaxId, for : Worker]]
  BY <1>1, <1>2
<1> QED BY <1>2, <1>3, <1>4, <1>5

\* Main threads keep their contexts.
LEMMA MainsKept ==
    ASSUME OwnInv, NEW G, made' = Dropped(G), sandbox' = sandbox,
           \A q \in Live : sandbox[q].ctx \notin G
    PROVE  \A q \in Live' : Belongs(sandbox[q].ctx, q, sandbox[q].main)'
<1> SUFFICES ASSUME NEW q \in Live' PROVE Belongs(sandbox[q].ctx, q, sandbox[q].main)'
  OBVIOUS
<1>1. q \in Live
  BY DEF Live
<1>2. PICK e, u : e = sandbox[q].ctx /\ u = sandbox[q].main
  OBVIOUS
<1>3. Belongs(e, q, u) /\ e \notin G
  BY <1>1, <1>2 DEF OwnInv, MadeOnce
<1>4. Belongs(e, q, u)'
  BY <1>3, Dropping
<1> QED BY <1>2, <1>4

\* A context of t's that is no clone is the main thread's of its sandbox.
LEMMA NoClone ==
    ASSUME OwnInv, NEW t, NEW q \in Live, NEW d \in DOMAIN made,
           made[d].for = t, made[d].id = sandbox[q].id, d \notin Clones(t)
    PROVE  d = sandbox[q].ctx
<1>1. PICK r \in Live : d = sandbox[r].ctx
  BY DEF Clones
<1>2. Belongs(sandbox[r].ctx, r, sandbox[r].main)
  BY DEF OwnInv, MadeOnce
<1>3. made[d].id = sandbox[r].id
  BY <1>1, <1>2 DEF Belongs
<1>4. \A x, y \in Live : sandbox[x].id = sandbox[y].id => x = y
  BY DEF OwnInv, IdsFresh
<1> QED BY <1>1, <1>3, <1>4

\* detach_thread frees the context of one thread in one sandbox.
LEMMA DetachStep ==
    ASSUME OwnInv, NEW t \in Worker, NEW p \in Place, Detach(t, p)
    PROVE  OwnInv'
<1>1. /\ leaving[t] = <<>> /\ p \in Live
      /\ \A i \in DOMAIN inside[t] : inside[t][i].at # p
      /\ leaving' = [leaving EXCEPT ![t] = <<"detach", p>>]
      /\ UNCHANGED <<nextId, sandbox, entry, last, attached, inside>>
      /\ Live' = Live
  BY DEF Detach, Ready, Live
<1>2. PICK G : G = {c \in Clones(t) : made[c].id = sandbox[p].id}
  OBVIOUS
<1>3. made' = Dropped(G)
  BY <1>2 DEF Detach
<1>4. \A c \in G : c \in DOMAIN made /\ made[c].for = t /\ made[c].id = sandbox[p].id
                   /\ \A q \in Live : c # sandbox[q].ctx
  BY <1>2 DEF Clones
<1>5. /\ DOMAIN made' = DOMAIN made \ G /\ \A d \in DOMAIN made' : made'[d] = made[d]
      /\ DOMAIN made' \subseteq Context /\ made' \in [DOMAIN made' -> [id : 1..MaxId, for : Worker]]
      /\ \A d, e \in DOMAIN made' : made'[d] = made'[e] => d = e
      /\ \A d, q, u : Belongs(d, q, u) /\ d \notin G => Belongs(d, q, u)'
      /\ \A d \in DOMAIN made' : made'[d].id < nextId
  BY <1>1, <1>3, Dropping
<1>6. ASSUME NEW q \in Live, NEW u, NEW d, Belongs(d, q, u), u # t \/ q # p
      PROVE  Belongs(d, q, u)'
  <2>1. made[d].for = u /\ made[d].id = sandbox[q].id
    BY <1>6 DEF Belongs
  <2>2. q # p => sandbox[q].id # sandbox[p].id
    BY <1>1 DEF OwnInv, IdsFresh
  <2> QED BY <1>4, <1>5, <1>6, <2>1, <2>2
<1>7. /\ leaving'[t] = <<"detach", p>> /\ \A u \in Worker : u # t => leaving'[u] = leaving[u]
      /\ leaving' \in [Worker -> {<<>>, <<"end">>} \cup {<<"detach", q>> : q \in Place}]
  <2>1. leaving \in [Worker -> {<<>>, <<"end">>} \cup {<<"detach", q>> : q \in Place}]
    BY DEF OwnInv, ThreadTypes
  <2>2. <<"detach", p>> \in {<<"detach", q>> : q \in Place}
    OBVIOUS
  <2> QED BY <1>1, <2>1, <2>2
<1>8. ThreadTypes'
  BY <1>1, <1>5, <1>7 DEF OwnInv, ThreadTypes
<1>9. IdsFresh'
  BY <1>1, <1>5 DEF OwnInv, IdsFresh
<1>10. MadeOnce'
  <2>1. \A q \in Live' : Belongs(sandbox[q].ctx, q, sandbox[q].main)'
    BY <1>1, <1>3, <1>4, MainsKept
  <2>2. ASSUME NEW d \in DOMAIN made', NEW q \in Live', made'[d].id = sandbox'[q].id
        PROVE  \/ d = sandbox'[q].ctx
               \/ leaving'[made'[d].for] = <<"end">>
               \/ entry'[q][made'[d].for] = d /\ leaving'[made'[d].for] # <<"detach", q>>
    <3>1. q \in Live /\ d \in DOMAIN made /\ made'[d] = made[d] /\ made[d].id = sandbox[q].id
      BY <1>1, <1>5, <2>2
    <3>2. \/ d = sandbox[q].ctx
          \/ leaving[made[d].for] = <<"end">>
          \/ entry[q][made[d].for] = d /\ leaving[made[d].for] # <<"detach", q>>
      BY <3>1 DEF OwnInv, MadeOnce
    <3>3. made[d].for \in Worker
      BY <3>1 DEF OwnInv, ThreadTypes
    <3>4. CASE made[d].for # t
      BY <1>1, <1>7, <3>1, <3>2, <3>3, <3>4
    <3>5. CASE made[d].for = t /\ q # p
      <4>1. leaving[t] # <<"end">> /\ leaving'[t] # <<"detach", q>>
        BY <1>1, <1>7, <3>5, Leavings
      <4> QED BY <1>1, <3>1, <3>2, <3>5, <4>1
    <3>6. CASE made[d].for = t /\ q = p
      <4>1. d \notin Clones(t)
        BY <1>2, <1>5, <3>1, <3>6
      <4>2. d = sandbox[q].ctx
        BY <3>1, <3>6, <4>1, NoClone
      <4> QED BY <1>1, <4>2
    <3> QED BY <3>4, <3>5, <3>6
  <2> QED BY <1>5, <2>1, <2>2 DEF MadeOnce
<1>11. EntriesOwn'
  <2> SUFFICES ASSUME NEW u \in Worker, NEW q \in Place
               PROVE  /\ q \notin Live' => entry'[q][u] = NoEntry
                      /\ entry'[q][u] # NoEntry =>
                            /\ sandbox'[q].main # u => q \in attached'[u]
                            /\ leaving'[u] # <<"detach", q>> => Belongs(entry[q][u], q, u)'
    BY DEF EntriesOwn
  <2>1. PICK e : e = entry[q][u]
    OBVIOUS
  <2>2. /\ q \notin Live => e = NoEntry
        /\ e # NoEntry => /\ sandbox[q].main # u => q \in attached[u]
                          /\ leaving[u] # <<"detach", q>> => Belongs(e, q, u)
    BY <2>1 DEF OwnInv, EntriesOwn
  <2>3. CASE u = t /\ q = p
    BY <1>1, <1>7, <2>1, <2>2, <2>3
  <2>4. CASE u # t \/ q # p
    <3>1. leaving'[u] # <<"detach", q>> => leaving[u] # <<"detach", q>>
      BY <1>1, <1>7, Leavings
    <3>2. q \in Live /\ Belongs(e, q, u) => Belongs(e, q, u)'
      BY <1>6, <2>4
    <3>3. Belongs(e, q, u)' => Belongs(entry[q][u], q, u)'
      BY <1>1, <2>1 DEF Belongs
    <3> QED BY <1>1, <2>1, <2>2, <3>1, <3>2, <3>3
  <2> QED BY <2>3, <2>4
<1>12. CachesSound'
  <2> SUFFICES ASSUME NEW u \in Worker, NEW q \in Live', Cached(u, q)'
               PROVE  /\ leaving'[u] # <<"end">> => last'[u].there
                      /\ last'[u].there => entry'[q][u] # NoEntry
    BY DEF CachesSound
  <2>1. q \in Live /\ Cached(u, q)
    BY <1>1 DEF Cached
  <2>2. leaving'[u] # <<"end">> => leaving[u] # <<"end">>
    BY <1>1, <1>7, Leavings
  <2> QED BY <1>1, <2>1, <2>2 DEF OwnInv, CachesSound
<1>13. SandboxesStay'
  <2> SUFFICES ASSUME NEW u \in Worker
               PROVE  /\ attached'[u] \subseteq Live'
                      /\ leaving'[u] = <<"end">> => inside'[u] = <<>>
                      /\ \A q \in Place : leaving'[u] = <<"detach", q>> => q \in Live'
                      /\ \A i \in DOMAIN inside'[u] :
                            /\ inside'[u][i].at \in Live'
                            /\ leaving'[u] # <<"detach", inside'[u][i].at>>
                            /\ Belongs(inside[u][i].ctx, inside[u][i].at, u)'
    BY DEF SandboxesStay
  <2>1. /\ attached[u] \subseteq Live
        /\ leaving[u] = <<"end">> => inside[u] = <<>>
        /\ \A q \in Place : leaving[u] = <<"detach", q>> => q \in Live
    BY DEF OwnInv, SandboxesStay
  <2>2. /\ leaving'[u] = <<"end">> => leaving[u] = <<"end">>
        /\ \A q \in Place : leaving'[u] = <<"detach", q>> => q \in Live
    BY <1>1, <1>7, <2>1, Leavings
  <2>3. ASSUME NEW i \in DOMAIN inside[u]
        PROVE  /\ inside'[u][i].at \in Live'
               /\ leaving'[u] # <<"detach", inside'[u][i].at>>
               /\ Belongs(inside[u][i].ctx, inside[u][i].at, u)'
    <3>1. PICK q, d : q = inside[u][i].at /\ d = inside[u][i].ctx
      OBVIOUS
    <3>2. q \in Live /\ Belongs(d, q, u) /\ leaving[u] # <<"detach", q>> /\ (u # t \/ q # p)
      BY <1>1, <3>1 DEF OwnInv, SandboxesStay
    <3>3. Belongs(d, q, u)'
      BY <1>6, <3>2
    <3>4. leaving'[u] # <<"detach", q>>
      BY <1>7, <3>2, Leavings
    <3> QED BY <1>1, <3>1, <3>2, <3>3, <3>4 DEF Belongs
  <2> QED BY <1>1, <2>1, <2>2, <2>3
<1> QED BY <1>8, <1>9, <1>10, <1>11, <1>12, <1>13 DEF OwnInv

\* Then the entry of that thread goes, and what leads to it.
LEMMA DetachEndsStep ==
    ASSUME OwnInv, NEW t \in Worker, DetachEnds(t)
    PROVE  OwnInv'
<1>1. PICK p \in Place : leaving[t] = <<"detach", p>>
  <2>1. leaving[t] # <<>> /\ leaving[t][1] = "detach"
    BY DEF DetachEnds
  <2>2. leaving[t] \in {<<>>, <<"end">>} \cup {<<"detach", q>> : q \in Place}
    BY DEF OwnInv, ThreadTypes
  <2> QED BY <2>1, <2>2, Leavings
<1>2. leaving[t][2] = p /\ p \in Live
  BY <1>1, Leavings DEF OwnInv, SandboxesStay
<1>3. /\ entry' = [entry EXCEPT ![p][t] = NoEntry]
      /\ attached' = [attached EXCEPT ![t] = @ \ {p}]
      /\ last' = [last EXCEPT ![t] = Forgotten(t, p)]
      /\ leaving' = [leaving EXCEPT ![t] = <<>>]
      /\ UNCHANGED <<nextId, sandbox, made, inside>>
      /\ Live' = Live
  BY <1>2 DEF DetachEnds, Erase, Live
<1>4. /\ entry' \in [Place -> [Worker -> {NoEntry} \cup Context]] /\ entry'[p][t] = NoEntry
      /\ \A q \in Place, u \in Worker : q # p \/ u # t => entry'[q][u] = entry[q][u]
  BY <1>3 DEF OwnInv, ThreadTypes
<1>5. /\ attached' \in [Worker -> SUBSET Place] /\ attached'[t] = attached[t] \ {p}
      /\ \A u \in Worker : u # t => attached'[u] = attached[u]
  BY <1>3 DEF OwnInv, ThreadTypes
<1>6. /\ last' \in [Worker -> [id : 0..MaxId, there : BOOLEAN]]
      /\ \A u \in Worker : u # t => last'[u] = last[u]
      /\ Cached(t, p) => last'[t].id = 0
      /\ ~Cached(t, p) => last'[t] = last[t]
  <2>1. last \in [Worker -> [id : 0..MaxId, there : BOOLEAN]]
    BY DEF OwnInv, ThreadTypes
  <2>2. Forgotten(t, p) \in [id : 0..MaxId, there : BOOLEAN]
    BY <2>1, ThreadsAssumption DEF Forgotten
  <2>3. last'[t] = Forgotten(t, p)
    BY <1>3, <2>1
  <2> QED BY <1>3, <2>1, <2>2, <2>3 DEF Forgotten
<1>7. /\ leaving'[t] = <<>> /\ \A u \in Worker : u # t => leaving'[u] = leaving[u]
      /\ leaving' \in [Worker -> {<<>>, <<"end">>} \cup {<<"detach", q>> : q \in Place}]
  BY <1>3 DEF OwnInv, ThreadTypes
<1>8. ThreadTypes'
  BY <1>3, <1>4, <1>5, <1>6, <1>7 DEF OwnInv, ThreadTypes
<1>9. nextId \in Nat /\ nextId > 0 /\ \A q \in Live : sandbox[q].id # 0
  BY DEF OwnInv, ThreadTypes, Live
<1>10. IdsFresh'
  <2>1. \A u \in Worker : last'[u].id < nextId
    BY <1>6, <1>9 DEF OwnInv, IdsFresh
  <2> QED BY <1>3, <2>1 DEF OwnInv, IdsFresh
<1>11. MadeOnce'
  <2>1. \A q \in Live' : Belongs(sandbox[q].ctx, q, sandbox[q].main)'
    BY <1>3 DEF OwnInv, MadeOnce, Belongs
  <2>2. ASSUME NEW d \in DOMAIN made', NEW q \in Live', made'[d].id = sandbox'[q].id
        PROVE  \/ d = sandbox'[q].ctx
               \/ leaving'[made'[d].for] = <<"end">>
               \/ entry'[q][made'[d].for] = d /\ leaving'[made'[d].for] # <<"detach", q>>
    <3>1. q \in Live /\ q \in Place /\ d \in DOMAIN made /\ made[d].id = sandbox[q].id
      BY <1>3, <2>2, LiveIs DEF OwnInv
    <3>2. \/ d = sandbox[q].ctx
          \/ leaving[made[d].for] = <<"end">>
          \/ entry[q][made[d].for] = d /\ leaving[made[d].for] # <<"detach", q>>
      BY <3>1 DEF OwnInv, MadeOnce
    <3>3. PICK u : u = made[d].for
      OBVIOUS
    <3>4. u \in Worker
      BY <3>1, <3>3 DEF OwnInv, ThreadTypes
    <3>5. CASE u # t
      BY <1>3, <1>4, <1>7, <3>1, <3>2, <3>3, <3>4, <3>5
    <3>6. CASE u = t
      <4>1. leaving[t] # <<"end">> /\ leaving'[t] # <<"detach", q>> /\ (q = p => leaving[t] = <<"detach", q>>)
        BY <1>1, <1>7, Leavings
      <4> QED BY <1>3, <1>4, <3>1, <3>2, <3>3, <3>6, <4>1
    <3> QED BY <3>5, <3>6
  <2> QED BY <1>3, <2>1, <2>2 DEF OwnInv, MadeOnce
<1>12. EntriesOwn'
  <2> SUFFICES ASSUME NEW u \in Worker, NEW q \in Place
               PROVE  /\ q \notin Live' => entry'[q][u] = NoEntry
                      /\ entry'[q][u] # NoEntry =>
                            /\ sandbox'[q].main # u => q \in attached'[u]
                            /\ leaving'[u] # <<"detach", q>> => Belongs(entry[q][u], q, u)'
    BY DEF EntriesOwn
  <2>1. PICK e : e = entry[q][u]
    OBVIOUS
  <2>2. /\ q \notin Live => e = NoEntry
        /\ e # NoEntry => /\ sandbox[q].main # u => q \in attached[u]
                          /\ leaving[u] # <<"detach", q>> => Belongs(e, q, u)
    BY <2>1 DEF OwnInv, EntriesOwn
  <2>3. CASE u = t /\ q = p
    BY <1>4, <2>3
  <2>4. CASE u # t \/ q # p
    <3>1. entry'[q][u] = e
      BY <1>4, <2>1, <2>4
    <3>2. leaving'[u] # <<"detach", q>> => leaving[u] # <<"detach", q>>
      BY <1>1, <1>7, <2>4, Leavings
    <3>3. Belongs(e, q, u) => Belongs(entry[q][u], q, u)'
      BY <1>3, <3>1 DEF Belongs
    <3>4. q \in attached[u] => q \in attached'[u]
      BY <1>5, <2>4
    <3> QED BY <1>3, <2>2, <3>1, <3>2, <3>3, <3>4
  <2> QED BY <2>3, <2>4
<1>13. CachesSound'
  <2> SUFFICES ASSUME NEW u \in Worker, NEW q \in Live', Cached(u, q)'
               PROVE  /\ leaving'[u] # <<"end">> => last'[u].there
                      /\ last'[u].there => entry'[q][u] # NoEntry
    BY DEF CachesSound
  <2>1. q \in Live /\ q \in Place /\ last'[u].id = sandbox[q].id
    BY <1>3, LiveIs DEF Cached, OwnInv
  <2>2. last'[u] = last[u] /\ (u = t => ~Cached(t, p))
    BY <1>6, <1>9, <2>1
  <2>3. Cached(u, q) /\ (u = t => q # p)
    BY <2>1, <2>2 DEF Cached
  <2>4. entry'[q][u] = entry[q][u]
    BY <1>4, <2>1, <2>3
  <2>5. leaving'[u] # <<"end">> => leaving[u] # <<"end">>
    BY <1>1, <1>7, Leavings
  <2> QED BY <2>1, <2>2, <2>3, <2>4, <2>5 DEF OwnInv, CachesSound
<1>14. SandboxesStay'
  <2> SUFFICES ASSUME NEW u \in Worker
               PROVE  /\ attached'[u] \subseteq Live'
                      /\ leaving'[u] = <<"end">> => inside'[u] = <<>>
                      /\ \A q \in Place : leaving'[u] = <<"detach", q>> => q \in Live'
                      /\ \A i \in DOMAIN inside'[u] :
                            /\ inside'[u][i].at \in Live'
                            /\ leaving'[u] # <<"detach", inside'[u][i].at>>
                            /\ Belongs(inside[u][i].ctx, inside[u][i].at, u)'
    BY DEF SandboxesStay
  <2>1. /\ attached[u] \subseteq Live
        /\ leaving[u] = <<"end">> => inside[u] = <<>>
        /\ \A q \in Place : leaving[u] = <<"detach", q>> => q \in Live
        /\ \A i \in DOMAIN inside[u] :
              /\ inside[u][i].at \in Live
              /\ leaving[u] # <<"detach", inside[u][i].at>>
              /\ Belongs(inside[u][i].ctx, inside[u][i].at, u)
    BY DEF OwnInv, SandboxesStay
  <2>2. /\ leaving'[u] = <<"end">> => leaving[u] = <<"end">>
        /\ \A q \in Place : leaving'[u] = <<"detach", q>> => leaving[u] = <<"detach", q>>
        /\ \A q : leaving[u] # <<"detach", q>> => leaving'[u] # <<"detach", q>>
    BY <1>1, <1>7, Leavings
  <2>3. attached'[u] \subseteq attached[u]
    BY <1>5
  <2>4. \A i \in DOMAIN inside[u] : Belongs(inside[u][i].ctx, inside[u][i].at, u)'
    BY <1>3, <2>1 DEF Belongs
  <2> QED BY <1>3, <2>1, <2>2, <2>3, <2>4
<1> QED BY <1>8, <1>10, <1>11, <1>12, <1>13, <1>14 DEF OwnInv

\* A thread that ends has no call left.
LEMMA EndStep ==
    ASSUME OwnInv, NEW t \in Worker, End(t)
    PROVE  OwnInv'
<1>1. /\ leaving[t] = <<>> /\ inside[t] = <<>> /\ leaving' = [leaving EXCEPT ![t] = <<"end">>]
      /\ UNCHANGED <<nextId, sandbox, entry, made, last, attached, inside>>
      /\ Live' = Live
  BY DEF End, Live
<1>2. /\ leaving'[t] = <<"end">> /\ \A u \in Worker : u # t => leaving'[u] = leaving[u]
      /\ leaving' \in [Worker -> {<<>>, <<"end">>} \cup {<<"detach", q>> : q \in Place}]
  BY <1>1 DEF OwnInv, ThreadTypes
<1>3. ThreadTypes'
  BY <1>1, <1>2 DEF OwnInv, ThreadTypes
<1>4. IdsFresh'
  BY <1>1 DEF OwnInv, IdsFresh
<1>5. MadeOnce'
  <2>1. \A q \in Live' : Belongs(sandbox[q].ctx, q, sandbox[q].main)'
    BY <1>1 DEF OwnInv, MadeOnce, Belongs
  <2>2. ASSUME NEW d \in DOMAIN made', NEW q \in Live', made'[d].id = sandbox'[q].id
        PROVE  \/ d = sandbox'[q].ctx
               \/ leaving'[made'[d].for] = <<"end">>
               \/ entry'[q][made'[d].for] = d /\ leaving'[made'[d].for] # <<"detach", q>>
    <3>1. q \in Live /\ d \in DOMAIN made /\ made[d].id = sandbox[q].id
      BY <1>1, <2>2
    <3>2. \/ d = sandbox[q].ctx
          \/ leaving[made[d].for] = <<"end">>
          \/ entry[q][made[d].for] = d /\ leaving[made[d].for] # <<"detach", q>>
      BY <3>1 DEF OwnInv, MadeOnce
    <3>3. made[d].for \in Worker
      BY <3>1 DEF OwnInv, ThreadTypes
    <3> QED BY <1>1, <1>2, <3>2, <3>3
  <2> QED BY <1>1, <2>1, <2>2 DEF OwnInv, MadeOnce
<1>6. EntriesOwn'
  <2> SUFFICES ASSUME NEW u \in Worker, NEW q \in Place
               PROVE  /\ q \notin Live' => entry'[q][u] = NoEntry
                      /\ entry'[q][u] # NoEntry =>
                            /\ sandbox'[q].main # u => q \in attached'[u]
                            /\ leaving'[u] # <<"detach", q>> => Belongs(entry[q][u], q, u)'
    BY DEF EntriesOwn
  <2>1. PICK e : e = entry[q][u]
    OBVIOUS
  <2>2. /\ q \notin Live => e = NoEntry
        /\ e # NoEntry => /\ sandbox[q].main # u => q \in attached[u]
                          /\ leaving[u] # <<"detach", q>> => Belongs(e, q, u)
    BY <2>1 DEF OwnInv, EntriesOwn
  <2>3. leaving'[u] # <<"detach", q>> => leaving[u] # <<"detach", q>>
    BY <1>1, <1>2, Leavings
  <2>4. Belongs(e, q, u) => Belongs(entry[q][u], q, u)'
    BY <1>1, <2>1 DEF Belongs
  <2> QED BY <1>1, <2>1, <2>2, <2>3, <2>4
<1>7. CachesSound'
  <2> SUFFICES ASSUME NEW u \in Worker, NEW q \in Live', Cached(u, q)'
               PROVE  /\ leaving'[u] # <<"end">> => last'[u].there
                      /\ last'[u].there => entry'[q][u] # NoEntry
    BY DEF CachesSound
  <2>1. q \in Live /\ Cached(u, q)
    BY <1>1 DEF Cached
  <2>2. leaving'[u] # <<"end">> => leaving[u] # <<"end">>
    BY <1>1, <1>2
  <2> QED BY <1>1, <2>1, <2>2 DEF OwnInv, CachesSound
<1>8. SandboxesStay'
  <2> SUFFICES ASSUME NEW u \in Worker
               PROVE  /\ attached'[u] \subseteq Live'
                      /\ leaving'[u] = <<"end">> => inside'[u] = <<>>
                      /\ \A q \in Place : leaving'[u] = <<"detach", q>> => q \in Live'
                      /\ \A i \in DOMAIN inside'[u] :
                            /\ inside'[u][i].at \in Live'
                            /\ leaving'[u] # <<"detach", inside'[u][i].at>>
                            /\ Belongs(inside[u][i].ctx, inside[u][i].at, u)'
    BY DEF SandboxesStay
  <2>1. /\ attached[u] \subseteq Live
        /\ leaving[u] = <<"end">> => inside[u] = <<>>
        /\ \A q \in Place : leaving[u] = <<"detach", q>> => q \in Live
        /\ \A i \in DOMAIN inside[u] :
              /\ inside[u][i].at \in Live
              /\ leaving[u] # <<"detach", inside[u][i].at>>
              /\ Belongs(inside[u][i].ctx, inside[u][i].at, u)
    BY DEF OwnInv, SandboxesStay
  <2>2. /\ leaving'[u] = <<"end">> => inside[u] = <<>>
        /\ \A q : leaving'[u] = <<"detach", q>> => leaving[u] = <<"detach", q>>
    BY <1>1, <1>2, <2>1, Leavings
  <2>3. \A i \in DOMAIN inside[u] : Belongs(inside[u][i].ctx, inside[u][i].at, u)'
    BY <1>1, <2>1 DEF Belongs
  <2> QED BY <1>1, <2>1, <2>2, <2>3
<1> QED BY <1>3, <1>4, <1>5, <1>6, <1>7, <1>8 DEF OwnInv

\* ThreadCleanup erases the thread from one sandbox after the other.
LEMMA CleanUpStep ==
    ASSUME OwnInv, NEW t \in Worker, NEW p \in Place, CleanUp(t, p)
    PROVE  OwnInv'
<1>1. /\ leaving[t] = <<"end">> /\ p \in attached[t]
      /\ entry' = [entry EXCEPT ![p][t] = NoEntry]
      /\ attached' = [attached EXCEPT ![t] = @ \ {p}]
      /\ last' = [last EXCEPT ![t] = Gone(@, p)]
      /\ UNCHANGED <<nextId, sandbox, made, inside, leaving>>
      /\ Live' = Live
  BY DEF CleanUp, Erase, Live
<1>2. p \in Live
  BY <1>1 DEF OwnInv, SandboxesStay
<1>4. /\ entry' \in [Place -> [Worker -> {NoEntry} \cup Context]] /\ entry'[p][t] = NoEntry
      /\ \A q \in Place, u \in Worker : q # p \/ u # t => entry'[q][u] = entry[q][u]
  BY <1>1 DEF OwnInv, ThreadTypes
<1>5. /\ attached' \in [Worker -> SUBSET Place] /\ attached'[t] = attached[t] \ {p}
      /\ \A u \in Worker : u # t => attached'[u] = attached[u]
  BY <1>1 DEF OwnInv, ThreadTypes
<1>6. /\ last' \in [Worker -> [id : 0..MaxId, there : BOOLEAN]]
      /\ \A u \in Worker : u # t => last'[u] = last[u]
      /\ last'[t].id = last[t].id
      /\ last[t].id = sandbox[p].id => ~last'[t].there
      /\ last[t].id # sandbox[p].id => last'[t] = last[t]
  <2>1. last \in [Worker -> [id : 0..MaxId, there : BOOLEAN]]
    BY DEF OwnInv, ThreadTypes
  <2>2. last' = [last EXCEPT ![t] = Gone(last[t], p)]
    BY <1>1, <2>1
  <2>3. /\ Gone(last[t], p) \in [id : 0..MaxId, there : BOOLEAN]
        /\ Gone(last[t], p).id = last[t].id
        /\ last[t].id = sandbox[p].id => ~Gone(last[t], p).there
        /\ last[t].id # sandbox[p].id => Gone(last[t], p) = last[t]
    BY <2>1 DEF Gone
  <2> QED BY <2>1, <2>2, <2>3
<1>8. ThreadTypes'
  BY <1>1, <1>4, <1>5, <1>6 DEF OwnInv, ThreadTypes
<1>10. IdsFresh'
  <2>1. \A u \in Worker : last'[u].id < nextId
    BY <1>6 DEF OwnInv, IdsFresh
  <2> QED BY <1>1, <2>1 DEF OwnInv, IdsFresh
<1>11. MadeOnce'
  <2>1. \A q \in Live' : Belongs(sandbox[q].ctx, q, sandbox[q].main)'
    BY <1>1 DEF OwnInv, MadeOnce, Belongs
  <2>2. ASSUME NEW d \in DOMAIN made', NEW q \in Live', made'[d].id = sandbox'[q].id
        PROVE  \/ d = sandbox'[q].ctx
               \/ leaving'[made'[d].for] = <<"end">>
               \/ entry'[q][made'[d].for] = d /\ leaving'[made'[d].for] # <<"detach", q>>
    <3>1. q \in Live /\ q \in Place /\ d \in DOMAIN made /\ made[d].id = sandbox[q].id
      BY <1>1, <2>2, LiveIs DEF OwnInv
    <3>2. \/ d = sandbox[q].ctx
          \/ leaving[made[d].for] = <<"end">>
          \/ entry[q][made[d].for] = d /\ leaving[made[d].for] # <<"detach", q>>
      BY <3>1 DEF OwnInv, MadeOnce
    <3>3. PICK u : u = made[d].for
      OBVIOUS
    <3>4. u \in Worker
      BY <3>1, <3>3 DEF OwnInv, ThreadTypes
    <3>5. CASE u # t
      BY <1>1, <1>4, <3>1, <3>2, <3>3, <3>4, <3>5
    <3>6. CASE u = t
      BY <1>1, <3>3, <3>6
    <3> QED BY <3>5, <3>6
  <2> QED BY <1>1, <2>1, <2>2 DEF OwnInv, MadeOnce
<1>12. EntriesOwn'
  <2> SUFFICES ASSUME NEW u \in Worker, NEW q \in Place
               PROVE  /\ q \notin Live' => entry'[q][u] = NoEntry
                      /\ entry'[q][u] # NoEntry =>
                            /\ sandbox'[q].main # u => q \in attached'[u]
                            /\ leaving'[u] # <<"detach", q>> => Belongs(entry[q][u], q, u)'
    BY DEF EntriesOwn
  <2>1. PICK e : e = entry[q][u]
    OBVIOUS
  <2>2. /\ q \notin Live => e = NoEntry
        /\ e # NoEntry => /\ sandbox[q].main # u => q \in attached[u]
                          /\ leaving[u] # <<"detach", q>> => Belongs(e, q, u)
    BY <2>1 DEF OwnInv, EntriesOwn
  <2>3. CASE u = t /\ q = p
    BY <1>4, <2>3
  <2>4. CASE u # t \/ q # p
    <3>1. entry'[q][u] = e
      BY <1>4, <2>1, <2>4
    <3>3. Belongs(e, q, u) => Belongs(entry[q][u], q, u)'
      BY <1>1, <3>1 DEF Belongs
    <3>4. q \in attached[u] => q \in attached'[u]
      BY <1>5, <2>4
    <3> QED BY <1>1, <2>2, <3>1, <3>3, <3>4
  <2> QED BY <2>3, <2>4
<1>13. CachesSound'
  <2> SUFFICES ASSUME NEW u \in Worker, NEW q \in Live', Cached(u, q)'
               PROVE  /\ leaving'[u] # <<"end">> => last'[u].there
                      /\ last'[u].there => entry'[q][u] # NoEntry
    BY DEF CachesSound
  <2>1. q \in Live /\ q \in Place /\ last'[u].id = sandbox[q].id
    BY <1>1, LiveIs DEF Cached, OwnInv
  <2>2. CASE u = t /\ q = p
    BY <1>1, <1>6, <2>1, <2>2
  <2>3. CASE u # t \/ q # p
    <3>1. last'[u] = last[u]
      BY <1>2, <1>6, <2>1, <2>3 DEF OwnInv, IdsFresh
    <3>2. Cached(u, q) /\ entry'[q][u] = entry[q][u]
      BY <1>4, <2>1, <2>3, <3>1 DEF Cached
    <3> QED BY <1>1, <2>1, <3>1, <3>2 DEF OwnInv, CachesSound
  <2> QED BY <2>2, <2>3
<1>14. SandboxesStay'
  <2> SUFFICES ASSUME NEW u \in Worker
               PROVE  /\ attached'[u] \subseteq Live'
                      /\ leaving'[u] = <<"end">> => inside'[u] = <<>>
                      /\ \A q \in Place : leaving'[u] = <<"detach", q>> => q \in Live'
                      /\ \A i \in DOMAIN inside'[u] :
                            /\ inside'[u][i].at \in Live'
                            /\ leaving'[u] # <<"detach", inside'[u][i].at>>
                            /\ Belongs(inside[u][i].ctx, inside[u][i].at, u)'
    BY DEF SandboxesStay
  <2>1. /\ attached[u] \subseteq Live
        /\ leaving[u] = <<"end">> => inside[u] = <<>>
        /\ \A q \in Place : leaving[u] = <<"detach", q>> => q \in Live
        /\ \A i \in DOMAIN inside[u] :
              /\ inside[u][i].at \in Live
              /\ leaving[u] # <<"detach", inside[u][i].at>>
              /\ Belongs(inside[u][i].ctx, inside[u][i].at, u)
    BY DEF OwnInv, SandboxesStay
  <2>3. attached'[u] \subseteq attached[u]
    BY <1>5
  <2>4. \A i \in DOMAIN inside[u] : Belongs(inside[u][i].ctx, inside[u][i].at, u)'
    BY <1>1, <2>1 DEF Belongs
  <2> QED BY <1>1, <2>1, <2>3, <2>4
<1> QED BY <1>8, <1>10, <1>11, <1>12, <1>13, <1>14 DEF OwnInv

\* The runtime's key destructor frees the thread's contexts, but not those of
\* sandboxes it created.
LEMMA EndedStep ==
    ASSUME OwnInv, NEW t \in Worker, Ended(t)
    PROVE  OwnInv'
<1>1. /\ leaving[t] = <<"end">> /\ attached[t] = {}
      /\ made' = Dropped(Clones(t))
      /\ last' = [last EXCEPT ![t] = [id |-> 0, there |-> FALSE]]
      /\ leaving' = [leaving EXCEPT ![t] = <<>>]
      /\ UNCHANGED <<nextId, sandbox, entry, attached, inside>>
      /\ Live' = Live
  BY DEF Ended, Live
<1>2. inside[t] = <<>>
  BY <1>1 DEF OwnInv, SandboxesStay
<1>3. PICK G : G = Clones(t)
  OBVIOUS
<1>4. \A c \in G : c \in DOMAIN made /\ made[c].for = t /\ \A q \in Live : c # sandbox[q].ctx
  BY <1>3 DEF Clones
<1>5. /\ DOMAIN made' = DOMAIN made \ G /\ \A d \in DOMAIN made' : made'[d] = made[d]
      /\ DOMAIN made' \subseteq Context /\ made' \in [DOMAIN made' -> [id : 1..MaxId, for : Worker]]
      /\ \A d, e \in DOMAIN made' : made'[d] = made'[e] => d = e
      /\ \A d, q, u : Belongs(d, q, u) /\ d \notin G => Belongs(d, q, u)'
      /\ \A d \in DOMAIN made' : made'[d].id < nextId
  <2>1. made' = Dropped(G) /\ sandbox' = sandbox
    BY <1>1, <1>3
  <2> QED BY <2>1, Dropping
<1>6. ASSUME NEW q, NEW u, NEW d, Belongs(d, q, u), u # t PROVE Belongs(d, q, u)'
  <2>1. made[d].for = u
    BY <1>6 DEF Belongs
  <2> QED BY <1>4, <1>5, <1>6, <2>1
<1>7. /\ leaving'[t] = <<>> /\ \A u \in Worker : u # t => leaving'[u] = leaving[u]
      /\ leaving' \in [Worker -> {<<>>, <<"end">>} \cup {<<"detach", q>> : q \in Place}]
  BY <1>1 DEF OwnInv, ThreadTypes
<1>8. /\ last' \in [Worker -> [id : 0..MaxId, there : BOOLEAN]]
      /\ \A u \in Worker : u # t => last'[u] = last[u]
      /\ last'[t].id = 0
  <2>1. last \in [Worker -> [id : 0..MaxId, there : BOOLEAN]]
    BY DEF OwnInv, ThreadTypes
  <2>2. [id |-> 0, there |-> FALSE] \in [id : 0..MaxId, there : BOOLEAN]
    BY ThreadsAssumption
  <2> QED BY <1>1, <2>1, <2>2
<1>9. nextId \in Nat /\ nextId > 0 /\ \A q \in Live : sandbox[q].id # 0
  BY DEF OwnInv, ThreadTypes, Live
<1>10. ThreadTypes'
  BY <1>1, <1>5, <1>7, <1>8 DEF OwnInv, ThreadTypes
<1>11. IdsFresh'
  <2>1. \A u \in Worker : last'[u].id < nextId
    BY <1>8, <1>9 DEF OwnInv, IdsFresh
  <2> QED BY <1>1, <1>5, <2>1 DEF OwnInv, IdsFresh
<1>12. MadeOnce'
  <2>1. \A q \in Live' : Belongs(sandbox[q].ctx, q, sandbox[q].main)'
    <3>1. made' = Dropped(G) /\ sandbox' = sandbox /\ \A q \in Live : sandbox[q].ctx \notin G
      BY <1>1, <1>3, <1>4
    <3> QED BY <3>1, MainsKept
  <2>2. ASSUME NEW d \in DOMAIN made', NEW q \in Live', made'[d].id = sandbox'[q].id
        PROVE  \/ d = sandbox'[q].ctx
               \/ leaving'[made'[d].for] = <<"end">>
               \/ entry'[q][made'[d].for] = d /\ leaving'[made'[d].for] # <<"detach", q>>
    <3>1. q \in Live /\ d \in DOMAIN made /\ d \notin G /\ made'[d] = made[d] /\ made[d].id = sandbox[q].id
      BY <1>1, <1>5, <2>2
    <3>2. \/ d = sandbox[q].ctx
          \/ leaving[made[d].for] = <<"end">>
          \/ entry[q][made[d].for] = d /\ leaving[made[d].for] # <<"detach", q>>
      BY <3>1 DEF OwnInv, MadeOnce
    <3>3. made[d].for \in Worker
      BY <3>1 DEF OwnInv, ThreadTypes
    <3>4. CASE made[d].for # t
      BY <1>1, <1>7, <3>1, <3>2, <3>3, <3>4
    <3>5. CASE made[d].for = t
      <4>1. d \notin Clones(t)
        BY <1>3, <3>1
      <4>2. d = sandbox[q].ctx
        BY <3>1, <3>5, <4>1, NoClone
      <4> QED BY <1>1, <4>2
    <3> QED BY <3>4, <3>5
  <2> QED BY <1>5, <2>1, <2>2 DEF MadeOnce
<1>13. EntriesOwn'
  <2> SUFFICES ASSUME NEW u \in Worker, NEW q \in Place
               PROVE  /\ q \notin Live' => entry'[q][u] = NoEntry
                      /\ entry'[q][u] # NoEntry =>
                            /\ sandbox'[q].main # u => q \in attached'[u]
                            /\ leaving'[u] # <<"detach", q>> => Belongs(entry[q][u], q, u)'
    BY DEF EntriesOwn
  <2>1. PICK e : e = entry[q][u]
    OBVIOUS
  <2>2. /\ q \notin Live => e = NoEntry
        /\ e # NoEntry => /\ sandbox[q].main # u => q \in attached[u]
                          /\ leaving[u] # <<"detach", q>> => Belongs(e, q, u)
    BY <2>1 DEF OwnInv, EntriesOwn
  <2>3. leaving'[u] # <<"detach", q>> /\ u # t => leaving[u] # <<"detach", q>>
    BY <1>7
  <2>4. e # NoEntry /\ leaving'[u] # <<"detach", q>> => Belongs(e, q, u)'
    <3> SUFFICES ASSUME e # NoEntry, leaving'[u] # <<"detach", q>> PROVE Belongs(e, q, u)'
      OBVIOUS
    <3>1. CASE u # t
      BY <1>6, <2>2, <2>3, <3>1
    <3>2. CASE u = t
      <4>1. q \in Live /\ sandbox[q].main = t /\ Belongs(e, q, t)
        BY <1>1, <2>2, <3>2, Leavings
      <4>2. Belongs(sandbox[q].ctx, q, t)
        BY <4>1 DEF OwnInv, MadeOnce
      <4>3. e = sandbox[q].ctx
        BY <4>1, <4>2 DEF OwnInv, MadeOnce, Belongs
      <4>4. e \notin G
        BY <1>4, <4>1, <4>3
      <4> QED BY <1>5, <3>2, <4>1, <4>4
    <3> QED BY <3>1, <3>2
  <2>5. Belongs(e, q, u)' => Belongs(entry[q][u], q, u)'
    BY <1>1, <2>1 DEF Belongs
  <2> QED BY <1>1, <2>1, <2>2, <2>4, <2>5
<1>14. CachesSound'
  <2> SUFFICES ASSUME NEW u \in Worker, NEW q \in Live', Cached(u, q)'
               PROVE  /\ leaving'[u] # <<"end">> => last'[u].there
                      /\ last'[u].there => entry'[q][u] # NoEntry
    BY DEF CachesSound
  <2>1. q \in Live /\ last'[u].id = sandbox[q].id
    BY <1>1 DEF Cached
  <2>2. u # t
    BY <1>8, <1>9, <2>1
  <2>3. Cached(u, q) /\ last'[u] = last[u] /\ leaving'[u] = leaving[u]
    BY <1>7, <1>8, <2>1, <2>2 DEF Cached
  <2> QED BY <1>1, <2>1, <2>3 DEF OwnInv, CachesSound
<1>15. SandboxesStay'
  <2> SUFFICES ASSUME NEW u \in Worker
               PROVE  /\ attached'[u] \subseteq Live'
                      /\ leaving'[u] = <<"end">> => inside'[u] = <<>>
                      /\ \A q \in Place : leaving'[u] = <<"detach", q>> => q \in Live'
                      /\ \A i \in DOMAIN inside'[u] :
                            /\ inside'[u][i].at \in Live'
                            /\ leaving'[u] # <<"detach", inside'[u][i].at>>
                            /\ Belongs(inside[u][i].ctx, inside[u][i].at, u)'
    BY DEF SandboxesStay
  <2>1. /\ attached[u] \subseteq Live
        /\ leaving[u] = <<"end">> => inside[u] = <<>>
        /\ \A q \in Place : leaving[u] = <<"detach", q>> => q \in Live
        /\ \A i \in DOMAIN inside[u] :
              /\ inside[u][i].at \in Live
              /\ leaving[u] # <<"detach", inside[u][i].at>>
              /\ Belongs(inside[u][i].ctx, inside[u][i].at, u)
    BY DEF OwnInv, SandboxesStay
  <2>2. CASE u = t
    <3>1. leaving'[u] # <<"end">> /\ \A q : leaving'[u] # <<"detach", q>>
      BY <1>7, <2>2, Leavings
    <3>2. DOMAIN inside'[u] = {}
      BY <1>1, <1>2, <2>2
    <3> QED BY <1>1, <2>1, <3>1, <3>2
  <2>3. CASE u # t
    <3>1. ASSUME NEW i \in DOMAIN inside[u] PROVE Belongs(inside[u][i].ctx, inside[u][i].at, u)'
      <4>1. PICK q, d : q = inside[u][i].at /\ d = inside[u][i].ctx
        OBVIOUS
      <4>2. Belongs(d, q, u)'
        BY <1>6, <2>1, <2>3, <4>1
      <4> QED BY <1>1, <4>1, <4>2 DEF Belongs
    <3> QED BY <1>1, <1>7, <2>1, <2>3, <3>1
  <2> QED BY <2>2, <2>3
<1> QED BY <1>10, <1>11, <1>12, <1>13, <1>14, <1>15 DEF OwnInv

-----------------------------------------------------------------------------
\* One context for each thread in each sandbox, and entries, kept pointers and
\* calls that lead to it, whatever sandboxes, threads and ids come and go at the
\* same places (sbox/lfi.h, sbox/lfi.cpp).
THEOREM ThreadsInvariance == ThreadsSpec => []OwnInv
<1>1. ThreadsInit => OwnInv
  <2> SUFFICES ASSUME ThreadsInit PROVE OwnInv
    OBVIOUS
  <2>1. /\ nextId = 1 /\ sandbox = [p \in Place |-> NoSandbox]
        /\ entry = [p \in Place |-> [t \in Worker |-> NoEntry]] /\ made = <<>>
        /\ last = [t \in Worker |-> [id |-> 0, there |-> FALSE]]
        /\ attached = [t \in Worker |-> {}] /\ inside = [t \in Worker |-> <<>>]
        /\ leaving = [t \in Worker |-> <<>>]
    BY DEF ThreadsInit
  <2>2. Live = {} /\ DOMAIN made = {}
    BY <2>1 DEF Live, NoSandbox
  <2>3. ThreadTypes
    <3>1. made \in [DOMAIN made -> [id : 1..MaxId, for : Worker]]
      BY <2>1, <2>2
    <3>2. [id |-> 0, there |-> FALSE] \in [id : 0..MaxId, there : BOOLEAN] /\ nextId \in 1..(MaxId + 1)
      BY <2>1, ThreadsAssumption
    <3>3. inside \in [Worker -> Seq([at : Place, ctx : Context])]
      BY <2>1
    <3> QED BY <2>1, <2>2, <3>1, <3>2, <3>3 DEF ThreadTypes
  <2>4. IdsFresh
    BY <2>1, <2>2 DEF IdsFresh
  <2>5. MadeOnce
    BY <2>2 DEF MadeOnce
  <2>6. EntriesOwn /\ CachesSound
    BY <2>1, <2>2 DEF EntriesOwn, CachesSound
  <2>7. SandboxesStay
    <3>1. \A t \in Worker : DOMAIN inside[t] = {}
      BY <2>1
    <3> QED BY <2>1, <3>1, Leavings DEF SandboxesStay
  <2> QED BY <2>3, <2>4, <2>5, <2>6, <2>7 DEF OwnInv
<1>2. OwnInv /\ [ThreadsNext]_threadsVars => OwnInv'
  <2> SUFFICES ASSUME OwnInv, [ThreadsNext]_threadsVars PROVE OwnInv'
    OBVIOUS
  <2>1. CASE UNCHANGED threadsVars
    BY <2>1, EngineStep DEF threadsVars
  <2>2. ASSUME NEW n \in Capacities, EngineInit(n) PROVE OwnInv'
    BY <2>2, EngineStep DEF EngineInit
  <2>3. CASE EngineDestroy
    BY <2>3, EngineStep DEF EngineDestroy
  <2>4. ASSUME NEW t \in Worker, CallEnds(t) \/ DetachEnds(t) \/ End(t) \/ Ended(t) PROVE OwnInv'
    BY <2>4, CallEndsStep, DetachEndsStep, EndStep, EndedStep
  <2>5. ASSUME NEW t \in Worker, NEW p \in Place, Create(t, p) PROVE OwnInv'
    <3>1. /\ p \notin Live /\ nextId <= MaxId /\ nextId' = nextId + 1
          /\ UNCHANGED <<entry, last, attached, inside, leaving>>
          /\ \/ UNCHANGED <<sandbox, made>>
             \/ /\ sandbox' = [sandbox EXCEPT ![p] = [id |-> nextId, main |-> t, ctx |-> NewContext]]
                /\ made' = Hold(NewContext, nextId, t)
      BY <2>5 DEF Create
    <3> QED BY <3>1, CreateFails, CreateSucceeds
  <2>6. ASSUME NEW t \in Worker, NEW p \in Place,
               Destroy(t, p) \/ Call(t, p) \/ Detach(t, p) \/ CleanUp(t, p)
        PROVE  OwnInv'
    BY <2>6, DestroyStep, CallStep, DetachStep, CleanUpStep
  <2> QED BY <2>1, <2>2, <2>3, <2>4, <2>5, <2>6 DEF ThreadsNext
<1> QED BY <1>1, <1>2, PTL DEF ThreadsSpec

\* A thread goes into a sandbox with a context of its own of that sandbox,
\* one that the runtime has not freed, and through no pointer to an entry that
\* is gone (sbox/lfi.h get_thread_ctx, detach_thread, ThreadCleanup).
THEOREM ContextsKept == ThreadsSpec => []ContextsOwn
<1>1. OwnInv => ContextsOwn
  <2> SUFFICES ASSUME OwnInv PROVE ContextsOwn
    OBVIOUS
  <2>1. ASSUME NEW t \in Worker, NEW p \in Live
        PROVE  /\ Cached(t, p) /\ leaving[t] # <<"end">> => last[t].there
               /\ entry[p][t] \in Context /\ leaving[t] # <<"detach", p>> =>
                     /\ entry[p][t] \in DOMAIN made
                     /\ made[entry[p][t]] = [id |-> sandbox[p].id, for |-> t]
    BY Contexts, LiveIs DEF OwnInv, CachesSound, EntriesOwn, Belongs
  <2>2. \A t \in Worker : attached[t] \subseteq Live
    BY DEF OwnInv, SandboxesStay
  <2>3. ASSUME NEW t \in Worker, NEW u \in Worker, NEW i \in DOMAIN inside[t], NEW j \in DOMAIN inside[u]
        PROVE  /\ inside[t][i].ctx \in DOMAIN made
               /\ t # u => inside[t][i].ctx # inside[u][j].ctx
    <3>1. Belongs(inside[t][i].ctx, inside[t][i].at, t) /\ Belongs(inside[u][j].ctx, inside[u][j].at, u)
      BY DEF OwnInv, SandboxesStay
    <3>2. made[inside[t][i].ctx].for = t /\ made[inside[u][j].ctx].for = u
      BY <3>1 DEF Belongs
    <3> QED BY <3>1, <3>2 DEF Belongs
  <2> QED BY <2>1, <2>2, <2>3 DEF ContextsOwn
<1> QED BY <1>1, ThreadsInvariance, PTL

-----------------------------------------------------------------------------
(* The stacks of a thread's sandboxes.                                     *)

\* A parameter on the stack; a call context, a call, a callback.
Param == [at : Nat, n : Nat, st : {"in", "passed", "written", "copied"}]
Scope == [k : {"scope"}, sb : Sbx, saved : Nat, bufs : Seq(Param), finalized : BOOLEAN, ending : BOOLEAN]
CallRecord == [k : {"call"}, sb : Sbx, saved : Nat, args : Nat, staged : Nat, entry : Nat,
               prev : Sbx \cup {NoSbx}, withContext : BOOLEAN]
CallbackRecord == [k : {"callback"}, sb : Sbx, old : Nat, at : Nat]
Act == Scope \cup CallRecord \cup CallbackRecord

\* Where regs.sp was when an activity began, and where the activity left it.
Before(a) == IF a.k = "callback" THEN a.old ELSE a.saved
Level(a) ==
    IF a.k = "callback" THEN a.at
    ELSE IF a.k = "call" THEN a.staged
    ELSE IF a.bufs = <<>> THEN a.saved ELSE a.bufs[Len(a.bufs)].at

\* The words of one activity lie apart, between those two.
Inner(a) ==
    /\ a.k = "scope" =>
          /\ \A j \in DOMAIN a.bufs : a.saved + a.bufs[j].n <= a.bufs[j].at
          /\ \A i, j \in DOMAIN a.bufs : i < j => a.bufs[i].at + a.bufs[j].n <= a.bufs[j].at
          /\ Len(a.bufs) <= MaxBufs
    /\ a.k = "call" => a.saved + a.args <= a.staged /\ a.staged < a.entry

\* A callback lies where the call it is from stopped.
CallsBack(c, b) == b.k = "callback" /\ b.sb = c.sb /\ c.entry <= b.at /\ b.old = c.staged

StackTypes == acts \in Seq(Act) /\ regsSp \in [Sbx -> Nat] /\ tls \in Sbx \cup {NoSbx}

\* Activities of one sandbox follow one another on its stack.
Stacked ==
    /\ \A i \in DOMAIN acts : Inner(acts[i]) /\ Level(acts[i]) <= regsSp[acts[i].sb]
    /\ \A i, j \in DOMAIN acts : i < j /\ acts[i].sb = acts[j].sb => Level(acts[i]) <= Before(acts[j])
    /\ \A i \in DOMAIN acts : i + 1 \in DOMAIN acts /\ acts[i].k = "call" => CallsBack(acts[i], acts[i + 1])
    /\ TopIs("call") => regsSp[Top.sb] = Top.staged

\* The first activity of a sandbox began at its top.
FromTop ==
    /\ \A j \in DOMAIN acts :
          (\A i \in DOMAIN acts : i < j => acts[i].sb # acts[j].sb) => Before(acts[j]) = 0
    /\ \A s \in Sbx : (\A i \in DOMAIN acts : acts[i].sb # s) => regsSp[s] = 0

\* tls_current_sandbox goes with the innermost call.
Nearest(i, n) == acts[i].k = "call" /\ \A j \in (i + 1)..n : acts[j].k # "call"
Current ==
    /\ \A i \in DOMAIN acts : Nearest(i, Len(acts)) => tls = acts[i].sb
    /\ \A i, j \in DOMAIN acts : i < j /\ Nearest(i, j - 1) /\ acts[j].k = "call" => acts[j].prev = acts[i].sb

StackInv == StackTypes /\ Stacked /\ FromTop /\ Current

\* What finalize copied was written, and the sandbox will not write any more.
Outs(a) ==
    a.k = "scope" =>
        /\ a.ending => a.finalized
        /\ a.finalized => \A j \in DOMAIN a.bufs : a.bufs[j].st # "written"
        /\ a.finalized /\ ~a.ending => \A j \in DOMAIN a.bufs : a.bufs[j].st # "passed"
OutInv ==
    /\ \A i \in DOMAIN acts : Outs(acts[i])
    /\ \A i \in DOMAIN acts : acts[i].k = "scope" /\ acts[i].ending => i = Len(acts)

-----------------------------------------------------------------------------
\* What an activity is made of.
LEMMA ActIs ==
    ASSUME NEW a \in Act
    PROVE  /\ a.k \in {"scope", "call", "callback"} /\ a.sb \in Sbx
           /\ a.k = "scope" <=> a \in Scope
           /\ a.k = "call" <=> a \in CallRecord
           /\ a.k = "callback" <=> a \in CallbackRecord
BY DEF Act, Scope, CallRecord, CallbackRecord

\* The stack pointer before and in an activity is a number.
LEMMA Levels ==
    ASSUME NEW a \in Act
    PROVE  Before(a) \in Nat /\ Level(a) \in Nat
<1>1. CASE a \in Scope
  <2>1. a.k = "scope" /\ a.saved \in Nat /\ a.bufs \in Seq(Param)
    BY <1>1 DEF Scope
  <2>2. a.bufs # <<>> => a.bufs[Len(a.bufs)] \in Param
    BY <2>1
  <2>3. a.bufs # <<>> => a.bufs[Len(a.bufs)].at \in Nat
    BY <2>2 DEF Param
  <2> QED BY <2>1, <2>3 DEF Before, Level
<1>2. CASE a \in CallRecord
  BY <1>2 DEF CallRecord, Before, Level
<1>3. CASE a \in CallbackRecord
  BY <1>3 DEF CallbackRecord, Before, Level
<1> QED BY <1>1, <1>2, <1>3 DEF Act

\* Rounding up never goes down.
LEMMA RoundsUp ==
    ASSUME NEW n \in Nat, NEW align \in Nat, align > 0
    PROVE  RoundTo(n, align) \in Nat /\ n <= RoundTo(n, align)
<1>1. PICK x : x = n + align - 1
  OBVIOUS
<1>2. x \in Int /\ x = align * (x \div align) + (x % align) /\ x % align \in 0..(align - 1) /\ x \div align \in Int
  BY <1>1
<1>3. PICK d : d = x \div align
  OBVIOUS
<1>4. d * align = align * d /\ align * d \in Int
  BY <1>2, <1>3
<1>5. RoundTo(n, align) = d * align
  BY <1>1, <1>3 DEF RoundTo
<1>6. PICK e : e = align * d
  OBVIOUS
<1>7. x = e + (x % align) /\ x % align <= align - 1 /\ e \in Int
  BY <1>2, <1>3, <1>4, <1>6
<1>8. n <= e
  BY <1>1, <1>2, <1>7
<1> QED BY <1>4, <1>5, <1>6, <1>7, <1>8

\* The same activity but for the states of its parameters.
Alike(b, a) ==
    /\ b.k = a.k /\ b.sb = a.sb /\ Before(b) = Before(a) /\ Level(b) = Level(a)
    /\ Inner(a) => Inner(b)
    /\ a.k # "scope" => b = a

\* The activities in the order of their numbers.
LEMMA Numbered ==
    ASSUME StackTypes
    PROVE  /\ Len(acts) \in Nat /\ DOMAIN acts = 1..Len(acts)
           /\ \A i \in 1..Len(acts) : acts[i] \in Act
           /\ acts # <<>> <=> Len(acts) > 0
BY DEF StackTypes

\* Something begins: a call context, a call, a callback.
LEMMA Begin ==
    ASSUME StackInv, NEW a \in Act, NEW p \in Nat, acts' = Append(acts, a),
           regsSp' = [regsSp EXCEPT ![a.sb] = p], Inner(a),
           Before(a) = regsSp[a.sb], regsSp[a.sb] <= p, Level(a) <= p,
           TopIs("call") => CallsBack(Top, a),
           a.k = "call" => p = a.staged /\ a.prev = tls,
           tls' = IF a.k = "call" THEN a.sb ELSE tls
    PROVE  StackInv'
<1>1. PICK n : n = Len(acts)
  OBVIOUS
<1>2. /\ n \in Nat /\ DOMAIN acts = 1..n /\ (\A i \in 1..n : acts[i] \in Act) /\ (acts # <<>> <=> n > 0)
      /\ acts \in Seq(Act) /\ regsSp \in [Sbx -> Nat] /\ tls \in Sbx \cup {NoSbx}
  BY <1>1, Numbered DEF StackInv, StackTypes
<1>3. /\ acts' \in Seq(Act) /\ Len(acts') = n + 1 /\ acts'[n + 1] = a
      /\ \A i \in 1..n : acts'[i] = acts[i]
  BY <1>1, <1>2, Pushed
<1>4. DOMAIN acts' = 1..(n + 1)
  BY <1>2, <1>3
<1>5. a.k \in {"scope", "call", "callback"} /\ a.sb \in Sbx /\ Before(a) \in Nat /\ Level(a) \in Nat
  BY ActIs, Levels
<1>6. /\ regsSp' \in [Sbx -> Nat] /\ regsSp'[a.sb] = p
      /\ \A s \in Sbx : s # a.sb => regsSp'[s] = regsSp[s]
  BY <1>2, <1>5
<1>7. \A i \in 1..(n + 1) : i \in 1..n \/ i = n + 1
  BY <1>2
<1>8. \A i \in 1..n : acts[i].sb \in Sbx /\ Level(acts[i]) \in Nat /\ Before(acts[i]) \in Nat
  BY <1>2, ActIs, Levels
<1>9. StackTypes'
  BY <1>2, <1>3, <1>5, <1>6 DEF StackTypes
<1>10. \A i \in 1..n : Inner(acts[i]) /\ Level(acts[i]) <= regsSp[acts[i].sb]
  BY <1>2 DEF StackInv, Stacked
<1>11. Stacked'
  <2>1. ASSUME NEW i \in 1..(n + 1)
        PROVE  Inner(acts'[i]) /\ Level(acts'[i]) <= regsSp'[acts'[i].sb]
    <3>1. CASE i \in 1..n
      <4>1. regsSp[acts[i].sb] \in Nat /\ regsSp[acts[i].sb] <= regsSp'[acts[i].sb]
        BY <1>2, <1>6, <1>8, <3>1
      <4>2. Level(acts[i]) <= regsSp[acts[i].sb] /\ Inner(acts[i]) /\ Level(acts[i]) \in Nat
        BY <1>8, <1>10, <3>1
      <4>3. regsSp'[acts[i].sb] \in Nat
        BY <1>6, <1>8, <3>1
      <4>4. Level(acts[i]) <= regsSp'[acts[i].sb]
        BY <4>1, <4>2, <4>3
      <4> QED BY <1>3, <3>1, <4>2, <4>4
    <3>2. CASE i = n + 1
      BY <1>3, <1>6, <3>2
    <3> QED BY <1>7, <3>1, <3>2
  <2>2. ASSUME NEW i \in 1..(n + 1), NEW j \in 1..(n + 1), i < j, acts'[i].sb = acts'[j].sb
        PROVE  Level(acts'[i]) <= Before(acts'[j])
    <3>1. i \in 1..n /\ acts'[i] = acts[i]
      BY <1>2, <1>3, <2>2
    <3>2. CASE j \in 1..n
      <4>1. acts'[j] = acts[j]
        BY <1>3, <3>2
      <4> QED BY <1>2, <2>2, <3>1, <3>2, <4>1 DEF StackInv, Stacked
    <3>3. CASE j = n + 1
      BY <1>3, <1>10, <2>2, <3>1, <3>3
    <3> QED BY <1>7, <3>2, <3>3
  <2>3. ASSUME NEW i \in 1..(n + 1), i + 1 \in 1..(n + 1), acts'[i].k = "call"
        PROVE  CallsBack(acts'[i], acts'[i + 1])
    <3>1. i \in 1..n /\ acts'[i] = acts[i]
      BY <1>2, <1>3, <2>3
    <3>2. CASE i + 1 \in 1..n
      <4>1. acts'[i + 1] = acts[i + 1]
        BY <1>3, <3>2
      <4>2. CallsBack(acts[i], acts[i + 1])
        BY <1>2, <2>3, <3>1, <3>2 DEF StackInv, Stacked
      <4> QED BY <3>1, <4>1, <4>2
    <3>3. CASE i = n
      <4>1. TopIs("call") /\ Top = acts[i]
        BY <1>1, <1>2, <2>3, <3>1, <3>3 DEF TopIs, Top
      <4>2. CallsBack(acts[i], a)
        BY <4>1
      <4> QED BY <1>3, <3>1, <3>3, <4>2
    <3> QED BY <1>2, <3>1, <3>2, <3>3
  <2>4. TopIs("call")' => regsSp'[Top'.sb] = Top'.staged
    BY <1>3, <1>6 DEF TopIs, Top
  <2> QED BY <1>4, <2>1, <2>2, <2>3, <2>4 DEF Stacked
<1>12. FromTop'
  <2>1. ASSUME NEW j \in 1..(n + 1), \A i \in 1..(n + 1) : i < j => acts'[i].sb # acts'[j].sb
        PROVE  Before(acts'[j]) = 0
    <3>1. CASE j \in 1..n
      <4>1. \A i \in 1..n : i < j => acts[i].sb # acts[j].sb
        BY <1>2, <1>3, <2>1, <3>1
      <4> QED BY <1>2, <1>3, <3>1, <4>1 DEF StackInv, FromTop
    <3>2. CASE j = n + 1
      <4>1. \A i \in 1..n : acts[i].sb # a.sb
        BY <1>2, <1>3, <2>1, <3>2
      <4>2. regsSp[a.sb] = 0
        BY <1>2, <1>5, <4>1 DEF StackInv, FromTop
      <4> QED BY <1>3, <3>2, <4>2
    <3> QED BY <1>7, <3>1, <3>2
  <2>2. ASSUME NEW s \in Sbx, \A i \in 1..(n + 1) : acts'[i].sb # s
        PROVE  regsSp'[s] = 0
    <3>1. s # a.sb /\ \A i \in 1..n : acts[i].sb # s
      BY <1>2, <1>3, <2>2
    <3> QED BY <1>2, <1>6, <3>1 DEF StackInv, FromTop
  <2> QED BY <1>4, <2>1, <2>2 DEF FromTop
<1>13. Current'
  <2>1. ASSUME NEW i \in 1..(n + 1), acts'[i].k = "call",
               \A j \in (i + 1)..(n + 1) : acts'[j].k # "call"
        PROVE  tls' = acts'[i].sb
    <3>1. CASE i = n + 1
      BY <1>3, <2>1, <3>1
    <3>2. CASE i \in 1..n
      <4>1. a.k # "call"
        BY <1>2, <1>3, <2>1, <3>2
      <4>2. acts[i].k = "call" /\ \A j \in (i + 1)..n : acts[j].k # "call"
        BY <1>2, <1>3, <2>1, <3>2
      <4>3. tls = acts[i].sb
        BY <1>1, <1>2, <3>2, <4>2 DEF StackInv, Current, Nearest
      <4> QED BY <1>3, <3>2, <4>1, <4>3
    <3> QED BY <1>7, <3>1, <3>2
  <2>2. ASSUME NEW i \in 1..(n + 1), NEW j \in 1..(n + 1), i < j, acts'[i].k = "call",
               \A m \in (i + 1)..(j - 1) : acts'[m].k # "call", acts'[j].k = "call"
        PROVE  acts'[j].prev = acts'[i].sb
    <3>1. i \in 1..n /\ acts'[i] = acts[i]
      BY <1>2, <1>3, <2>2
    <3>2. \A m \in (i + 1)..(j - 1) : m \in 1..n /\ acts'[m] = acts[m]
      BY <1>2, <1>3, <3>1
    <3>3. CASE j \in 1..n
      <4>1. acts'[j] = acts[j]
        BY <1>3, <3>3
      <4>2. acts[j].k = "call" /\ acts[i].k = "call" /\ \A m \in (i + 1)..(j - 1) : acts[m].k # "call"
        BY <2>2, <3>1, <3>2, <4>1
      <4>3. acts[j].prev = acts[i].sb
        BY <1>2, <2>2, <3>1, <3>3, <4>2 DEF StackInv, Current, Nearest
      <4> QED BY <3>1, <4>1, <4>3
    <3>4. CASE j = n + 1
      <4>1. j - 1 = n
        BY <1>2, <3>4
      <4>3. Nearest(i, n)
        <5>1. acts[i].k = "call" /\ \A m \in (i + 1)..(j - 1) : acts[m].k # "call"
          BY <2>2, <3>1, <3>2
        <5> QED BY <4>1, <5>1 DEF Nearest
      <4>2. tls = acts[i].sb
        BY <1>1, <1>2, <3>1, <4>3 DEF StackInv, Current
      <4> QED BY <1>3, <2>2, <3>1, <3>4, <4>2
    <3> QED BY <1>7, <3>3, <3>4
  <2>3. \A i \in DOMAIN acts' : Nearest(i, Len(acts))' => tls' = acts'[i].sb
    BY <1>3, <1>4, <2>1 DEF Nearest
  <2>4. ASSUME NEW i \in DOMAIN acts', NEW j \in DOMAIN acts', i < j, Nearest(i, j - 1)', acts'[j].k = "call"
        PROVE  acts'[j].prev = acts'[i].sb
    <3>1. i \in 1..(n + 1) /\ j \in 1..(n + 1) /\ acts'[i].k = "call" /\ \A m \in (i + 1)..(j - 1) : acts'[m].k # "call"
      BY <1>3, <1>4, <2>4 DEF Nearest
    <3> QED BY <2>2, <2>4, <3>1
  <2> QED BY <2>3, <2>4 DEF Current
<1> QED BY <1>9, <1>11, <1>12, <1>13 DEF StackInv

\* The innermost activity ends, and regs.sp is where it was before.
LEMMA Finishing ==
    ASSUME StackInv, acts # <<>>, acts' \in Seq(Act), Len(acts') = Len(acts) - 1,
           \A i \in 1..(Len(acts) - 1) : Alike(acts'[i], acts[i]),
           regsSp' = [regsSp EXCEPT ![Top.sb] = Before(Top)],
           tls' = IF Top.k = "call" THEN Top.prev ELSE tls
    PROVE  StackInv'
<1>1. PICK n : n = Len(acts) - 1
  OBVIOUS
<1>2. /\ n \in Nat /\ n + 1 = Len(acts) /\ DOMAIN acts = 1..(n + 1)
      /\ \A i \in 1..(n + 1) : acts[i] \in Act
      /\ regsSp \in [Sbx -> Nat] /\ tls \in Sbx \cup {NoSbx}
  BY <1>1, Numbered DEF StackInv, StackTypes
<1>3. PICK a : a = acts[n + 1]
  OBVIOUS
<1>4. /\ Top = a /\ a \in Act /\ a.sb \in Sbx /\ Before(a) \in Nat
      /\ a.k \in {"scope", "call", "callback"}
  BY <1>2, <1>3, ActIs, Levels DEF Top
<1>5. /\ Len(acts') = n /\ DOMAIN acts' = 1..n
      /\ \A i \in 1..n : acts'[i] \in Act
  BY <1>1, <1>2
<1>6. ASSUME NEW i \in 1..n
      PROVE  /\ acts'[i].k = acts[i].k /\ acts'[i].sb = acts[i].sb
             /\ Before(acts'[i]) = Before(acts[i]) /\ Level(acts'[i]) = Level(acts[i])
             /\ Inner(acts[i]) => Inner(acts'[i])
             /\ acts[i].k # "scope" => acts'[i] = acts[i]
             /\ acts[i].sb \in Sbx /\ Level(acts[i]) \in Nat /\ i \in 1..(n + 1)
  <2>1. Alike(acts'[i], acts[i])
    BY <1>1
  <2>2. i \in 1..(n + 1)
    BY <1>2
  <2> QED BY <1>2, <2>1, <2>2, ActIs, Levels DEF Alike
<1>7. /\ regsSp' \in [Sbx -> Nat] /\ regsSp'[a.sb] = Before(a)
      /\ \A s \in Sbx : s # a.sb => regsSp'[s] = regsSp[s]
  BY <1>2, <1>4
<1>8. StackTypes'
  <2>1. tls' \in Sbx \cup {NoSbx}
    <3>1. a.k = "call" => a.prev \in Sbx \cup {NoSbx}
      BY <1>4, ActIs DEF CallRecord
    <3> QED BY <1>2, <1>4, <3>1
  <2> QED BY <1>7, <2>1 DEF StackTypes
<1>9. n + 1 \in 1..(n + 1) /\ \A i \in 1..n : i < n + 1
  BY <1>2
<1>10. Stacked'
  <2>1. ASSUME NEW i \in 1..n PROVE Inner(acts'[i]) /\ Level(acts'[i]) <= regsSp'[acts'[i].sb]
    <3>1. Inner(acts[i]) /\ Level(acts[i]) <= regsSp[acts[i].sb]
      BY <1>2, <1>6 DEF StackInv, Stacked
    <3>2. CASE acts[i].sb = a.sb
      <4>1. Level(acts[i]) <= Before(a)
        BY <1>2, <1>3, <1>6, <1>9, <3>2 DEF StackInv, Stacked
      <4> QED BY <1>6, <1>7, <3>1, <3>2, <4>1
    <3>3. CASE acts[i].sb # a.sb
      BY <1>6, <1>7, <3>1, <3>3
    <3> QED BY <3>2, <3>3
  <2>2. ASSUME NEW i \in 1..n, NEW j \in 1..n, i < j, acts'[i].sb = acts'[j].sb
        PROVE  Level(acts'[i]) <= Before(acts'[j])
    <3>1. acts[i].sb = acts[j].sb /\ i \in 1..(n + 1) /\ j \in 1..(n + 1)
      BY <1>6, <2>2
    <3>2. Level(acts[i]) <= Before(acts[j])
      BY <1>2, <2>2, <3>1 DEF StackInv, Stacked
    <3> QED BY <1>6, <3>2
  <2>3. ASSUME NEW i \in 1..n, i + 1 \in 1..n, acts'[i].k = "call"
        PROVE  CallsBack(acts'[i], acts'[i + 1])
    <3>1. acts[i].k = "call" /\ i \in 1..(n + 1) /\ i + 1 \in 1..(n + 1) /\ acts'[i] = acts[i]
      <4>1. acts[i].k = "call"
        BY <1>6, <2>3
      <4>2. acts[i].k # "scope"
        BY <4>1
      <4> QED BY <1>2, <1>6, <4>1, <4>2
    <3>2. CallsBack(acts[i], acts[i + 1])
      BY <1>2, <3>1 DEF StackInv, Stacked
    <3>3. acts'[i + 1] = acts[i + 1]
      <4>1. acts[i + 1].k = "callback"
        BY <3>2 DEF CallsBack
      <4>2. acts[i + 1].k # "scope"
        BY <4>1
      <4> QED BY <1>6, <2>3, <4>2
    <3> QED BY <3>1, <3>2, <3>3
  <2>4. ASSUME TopIs("call")' PROVE regsSp'[Top'.sb] = Top'.staged
    <3>1. n \in 1..n /\ Top' = acts'[n] /\ acts'[n].k = "call"
      <4>1. acts' # <<>>
        BY <2>4 DEF TopIs
      <4>2. n > 0
        BY <1>2, <1>5, <4>1
      <4> QED BY <1>2, <1>5, <2>4, <4>2 DEF TopIs, Top
    <3>2. acts[n].k = "call"
      BY <1>6, <3>1
    <3>3. acts'[n] = acts[n] /\ n \in 1..(n + 1)
      <4>1. acts[n].k # "scope"
        BY <3>2
      <4> QED BY <1>6, <3>1, <4>1
    <3>4. CallsBack(acts[n], a)
      BY <1>2, <1>3, <1>9, <3>2, <3>3 DEF StackInv, Stacked
    <3>5. Before(a) = acts[n].staged /\ a.sb = acts[n].sb
      BY <3>4 DEF CallsBack, Before
    <3> QED BY <1>7, <3>1, <3>3, <3>5
  <2> QED BY <1>5, <2>1, <2>2, <2>3, <2>4 DEF Stacked
<1>11. FromTop'
  <2>1. ASSUME NEW j \in 1..n, \A i \in 1..n : i < j => acts'[i].sb # acts'[j].sb
        PROVE  Before(acts'[j]) = 0
    <3>1. ASSUME NEW i \in 1..(n + 1), i < j PROVE acts[i].sb # acts[j].sb
      <4>1. i \in 1..n
        BY <1>2, <3>1
      <4> QED BY <1>6, <2>1, <3>1, <4>1
    <3>2. j \in 1..(n + 1)
      BY <1>2
    <3>3. Before(acts[j]) = 0
      BY <1>2, <3>1, <3>2 DEF StackInv, FromTop
    <3> QED BY <1>6, <3>3
  <2>2. ASSUME NEW s \in Sbx, \A i \in 1..n : acts'[i].sb # s PROVE regsSp'[s] = 0
    <3>1. \A i \in 1..n : acts[i].sb # s
      BY <1>6, <2>2
    <3>2. CASE s = a.sb
      <4>1. \A i \in 1..(n + 1) : i < n + 1 => acts[i].sb # acts[n + 1].sb
        BY <1>2, <1>3, <3>1, <3>2
      <4>2. Before(a) = 0
        BY <1>2, <1>3, <1>9, <4>1 DEF StackInv, FromTop
      <4> QED BY <1>7, <3>2, <4>2
    <3>3. CASE s # a.sb
      <4>1. \A i \in 1..(n + 1) : acts[i].sb # s
        BY <1>2, <1>3, <3>1, <3>3
      <4>2. regsSp[s] = 0
        BY <1>2, <4>1 DEF StackInv, FromTop
      <4> QED BY <1>7, <3>3, <4>2
    <3> QED BY <3>2, <3>3
  <2> QED BY <1>5, <2>1, <2>2 DEF FromTop
<1>12. Current'
  <2>1. ASSUME NEW i \in 1..n, acts'[i].k = "call", \A j \in (i + 1)..n : acts'[j].k # "call"
        PROVE  tls' = acts'[i].sb
    <3>1. acts[i].k = "call" /\ acts'[i].sb = acts[i].sb /\ i \in 1..(n + 1)
      BY <1>6, <2>1
    <3>2. ASSUME NEW j \in (i + 1)..n PROVE acts[j].k # "call"
      <4>1. j \in 1..n
        BY <1>2
      <4> QED BY <1>6, <2>1, <4>1
    <3>3. CASE a.k = "call"
      <4>1. n + 1 \in 1..(n + 1) /\ i < n + 1 /\ (i + 1)..(n + 1 - 1) = (i + 1)..n
        BY <1>2
      <4>2. acts[n + 1].k = "call" /\ acts[n + 1].prev = a.prev
        BY <1>3, <3>3
      <4>3. PICK j : j = n + 1
        OBVIOUS
      <4>4. i \in DOMAIN acts /\ j \in DOMAIN acts /\ i < j /\ acts[j].k = "call" /\ j \in Int
        BY <1>2, <3>1, <4>1, <4>2, <4>3
      <4>6. Nearest(i, j - 1)
        BY <1>2, <3>1, <3>2, <4>3 DEF Nearest
      <4>5. acts[j].prev = acts[i].sb
        BY <4>4, <4>6 DEF StackInv, Current
      <4> QED BY <1>4, <3>1, <3>3, <4>2, <4>3, <4>5
    <3>4. CASE a.k # "call"
      <4>1. \A j \in (i + 1)..(n + 1) : acts[j].k # "call"
        BY <1>2, <1>3, <3>2, <3>4
      <4>2. tls = acts[i].sb
        BY <1>2, <3>1, <4>1 DEF StackInv, Current, Nearest
      <4> QED BY <1>4, <3>1, <3>4, <4>2
    <3> QED BY <3>3, <3>4
  <2>2. ASSUME NEW i \in 1..n, NEW j \in 1..n, i < j, acts'[i].k = "call",
               \A m \in (i + 1)..(j - 1) : acts'[m].k # "call", acts'[j].k = "call"
        PROVE  acts'[j].prev = acts'[i].sb
    <3>1. acts[i].k = "call" /\ acts[j].k = "call" /\ acts'[i].sb = acts[i].sb
          /\ i \in 1..(n + 1) /\ j \in 1..(n + 1)
      BY <1>6, <2>2
    <3>2. ASSUME NEW m \in (i + 1)..(j - 1) PROVE acts[m].k # "call"
      <4>1. m \in 1..n
        BY <1>2
      <4> QED BY <1>6, <2>2, <4>1
    <3>3. acts[j].prev = acts[i].sb
      BY <1>2, <2>2, <3>1, <3>2 DEF StackInv, Current, Nearest
    <3>4. acts'[j] = acts[j]
      <4>1. acts[j].k # "scope"
        BY <3>1
      <4> QED BY <1>6, <4>1
    <3> QED BY <3>1, <3>3, <3>4
  <2> QED BY <1>5, <2>1, <2>2 DEF Current, Nearest
<1> QED BY <1>8, <1>10, <1>11, <1>12 DEF StackInv

\* The innermost call context changes: a parameter more, or other states.
LEMMA Changing ==
    ASSUME StackInv, TopIs("scope"), NEW a \in Scope, NEW p \in Nat,
           acts' = [acts EXCEPT ![Len(acts)] = a], a.sb = Top.sb, a.saved = Top.saved,
           regsSp' = [regsSp EXCEPT ![a.sb] = p], Inner(a), regsSp[a.sb] <= p, Level(a) <= p,
           tls' = tls
    PROVE  StackInv'
<1>1. PICK n : n = Len(acts)
  OBVIOUS
<1>2. /\ n \in Nat /\ n > 0 /\ n \in 1..n /\ DOMAIN acts = 1..n /\ (\A i \in 1..n : acts[i] \in Act)
      /\ acts \in Seq(Act) /\ regsSp \in [Sbx -> Nat] /\ tls \in Sbx \cup {NoSbx}
      /\ Top = acts[n] /\ acts[n].k = "scope"
  BY <1>1, Numbered DEF StackInv, StackTypes, TopIs, Top
<1>3. a \in Act /\ a.k = "scope" /\ a.sb \in Sbx /\ Level(a) \in Nat /\ Before(a) = Before(acts[n])
  BY <1>2, Levels DEF Act, Scope, Before
<1>4. /\ acts' \in Seq(Act) /\ Len(acts') = n /\ acts'[n] = a /\ DOMAIN acts' = 1..n
      /\ \A i \in 1..n : i # n => acts'[i] = acts[i]
  <2>1. acts' = [acts EXCEPT ![n] = a]
    BY <1>1
  <2> QED BY <1>1, <1>2, <1>3, <2>1
<1>5. \A i \in 1..n : /\ acts'[i].k = acts[i].k /\ acts'[i].sb = acts[i].sb
                      /\ Before(acts'[i]) = Before(acts[i])
                      /\ acts[i].k # "scope" => acts'[i] = acts[i]
                      /\ acts[i].sb \in Sbx /\ Level(acts[i]) \in Nat
  BY <1>2, <1>3, <1>4, ActIs, Levels
<1>6. /\ regsSp' \in [Sbx -> Nat] /\ regsSp'[a.sb] = p
      /\ \A s \in Sbx : s # a.sb => regsSp'[s] = regsSp[s]
  BY <1>2, <1>3
<1>7. StackTypes'
  BY <1>2, <1>4, <1>6 DEF StackTypes
<1>8. Stacked'
  <2>1. ASSUME NEW i \in 1..n PROVE Inner(acts'[i]) /\ Level(acts'[i]) <= regsSp'[acts'[i].sb]
    <3>1. CASE i = n
      BY <1>4, <1>6, <3>1
    <3>2. CASE i # n
      <4>1. Inner(acts[i]) /\ Level(acts[i]) <= regsSp[acts[i].sb] /\ acts'[i] = acts[i]
        BY <1>2, <1>4, <3>2 DEF StackInv, Stacked
      <4>2. /\ regsSp[acts[i].sb] <= regsSp'[acts[i].sb] /\ regsSp[acts[i].sb] \in Nat
            /\ regsSp'[acts[i].sb] \in Nat /\ Level(acts[i]) \in Nat
        BY <1>2, <1>5, <1>6
      <4> QED BY <4>1, <4>2
    <3> QED BY <3>1, <3>2
  <2>2. ASSUME NEW i \in 1..n, NEW j \in 1..n, i < j, acts'[i].sb = acts'[j].sb
        PROVE  Level(acts'[i]) <= Before(acts'[j])
    <3>1. acts[i].sb = acts[j].sb /\ acts'[i] = acts[i]
      BY <1>2, <1>4, <1>5, <2>2
    <3>2. Level(acts[i]) <= Before(acts[j])
      BY <1>2, <2>2, <3>1 DEF StackInv, Stacked
    <3> QED BY <1>5, <3>1, <3>2
  <2>3. ASSUME NEW i \in 1..n, i + 1 \in 1..n, acts'[i].k = "call"
        PROVE  CallsBack(acts'[i], acts'[i + 1])
    <3>1. acts[i].k = "call" /\ acts'[i] = acts[i]
      BY <1>2, <1>4, <1>5, <2>3
    <3>2. CallsBack(acts[i], acts[i + 1])
      BY <1>2, <2>3, <3>1 DEF StackInv, Stacked
    <3>3. acts[i + 1].k = "callback"
      BY <3>2 DEF CallsBack
    <3>4. acts'[i + 1] = acts[i + 1]
      BY <1>5, <2>3, <3>3
    <3> QED BY <3>1, <3>2, <3>4
  <2>4. ~TopIs("call")'
    BY <1>3, <1>4 DEF TopIs, Top
  <2> QED BY <1>4, <2>1, <2>2, <2>3, <2>4 DEF Stacked
<1>9. FromTop'
  <2>1. ASSUME NEW j \in 1..n, \A i \in 1..n : i < j => acts'[i].sb # acts'[j].sb
        PROVE  Before(acts'[j]) = 0
    <3>1. \A i \in 1..n : i < j => acts[i].sb # acts[j].sb
      BY <1>5, <2>1
    <3>2. Before(acts[j]) = 0
      BY <1>2, <3>1 DEF StackInv, FromTop
    <3> QED BY <1>5, <3>2
  <2>2. ASSUME NEW s \in Sbx, \A i \in 1..n : acts'[i].sb # s PROVE regsSp'[s] = 0
    <3>1. (\A i \in 1..n : acts[i].sb # s) /\ s # a.sb
      BY <1>2, <1>4, <1>5, <2>2
    <3> QED BY <1>2, <1>6, <3>1 DEF StackInv, FromTop
  <2> QED BY <1>4, <2>1, <2>2 DEF FromTop
<1>10. Current'
  <2>1. ASSUME NEW i \in 1..n, acts'[i].k = "call", \A j \in (i + 1)..n : acts'[j].k # "call"
        PROVE  tls' = acts'[i].sb
    <3>1. acts[i].k = "call" /\ acts'[i].sb = acts[i].sb
      BY <1>5, <2>1
    <3>2. ASSUME NEW j \in (i + 1)..n PROVE acts[j].k # "call"
      <4>1. j \in 1..n
        BY <1>2
      <4> QED BY <1>5, <2>1, <4>1
    <3>3. tls = acts[i].sb
      BY <1>1, <1>2, <3>1, <3>2 DEF StackInv, Current, Nearest
    <3> QED BY <3>1, <3>3
  <2>2. ASSUME NEW i \in 1..n, NEW j \in 1..n, i < j, acts'[i].k = "call",
               \A m \in (i + 1)..(j - 1) : acts'[m].k # "call", acts'[j].k = "call"
        PROVE  acts'[j].prev = acts'[i].sb
    <3>1. acts[i].k = "call" /\ acts[j].k = "call" /\ acts'[i].sb = acts[i].sb /\ acts'[j] = acts[j]
      BY <1>5, <2>2
    <3>2. ASSUME NEW m \in (i + 1)..(j - 1) PROVE acts[m].k # "call"
      <4>1. m \in 1..n
        BY <1>2
      <4> QED BY <1>5, <2>2, <4>1
    <3>3. acts[j].prev = acts[i].sb
      BY <1>2, <2>2, <3>1, <3>2 DEF StackInv, Current, Nearest
    <3> QED BY <3>1, <3>3
  <2>3. \A i \in DOMAIN acts' : Nearest(i, Len(acts))' => tls' = acts'[i].sb
    BY <1>4, <2>1 DEF Nearest
  <2>4. ASSUME NEW i \in DOMAIN acts', NEW j \in DOMAIN acts', i < j, Nearest(i, j - 1)', acts'[j].k = "call"
        PROVE  acts'[j].prev = acts'[i].sb
    <3>1. i \in 1..n /\ j \in 1..n /\ acts'[i].k = "call" /\ \A m \in (i + 1)..(j - 1) : acts'[m].k # "call"
      BY <1>4, <2>4 DEF Nearest
    <3> QED BY <2>2, <2>4, <3>1
  <2> QED BY <2>3, <2>4 DEF Current
<1> QED BY <1>7, <1>8, <1>9, <1>10 DEF StackInv
-----------------------------------------------------------------------------
(* One operation after the other.                                          *)

\* A call context's parameters lie between where it began and its level.
LEMMA Within ==
    ASSUME NEW a \in Scope, Inner(a)
    PROVE  /\ a.saved \in Nat /\ a.saved <= Level(a) /\ Level(a) \in Nat
           /\ a.bufs \in Seq(Param) /\ DOMAIN a.bufs = 1..Len(a.bufs) /\ Len(a.bufs) \in Nat
           /\ \A j \in DOMAIN a.bufs :
                 /\ a.bufs[j].at \in Nat /\ a.bufs[j].n \in Nat
                 /\ a.bufs[j].at <= Level(a) /\ a.saved + a.bufs[j].n <= a.bufs[j].at
<1>1. PICK m : m = Len(a.bufs)
  OBVIOUS
<1>2. a.k = "scope" /\ a.saved \in Nat /\ a.bufs \in Seq(Param)
  BY DEF Scope
<1>3. m \in Nat /\ DOMAIN a.bufs = 1..m /\ (a.bufs = <<>> <=> m = 0) /\ a \in Act
  BY <1>1, <1>2 DEF Act
<1>4. \A j \in 1..m : a.bufs[j] \in Param
  BY <1>1, <1>2
<1>5. \A j \in 1..m : a.bufs[j].at \in Nat /\ a.bufs[j].n \in Nat
  BY <1>4 DEF Param
<1>6. Level(a) = IF m = 0 THEN a.saved ELSE a.bufs[m].at
  BY <1>1, <1>2, <1>3 DEF Level
<1>7. \A j \in 1..m : a.saved + a.bufs[j].n <= a.bufs[j].at
  BY <1>2, <1>3 DEF Inner
<1>8. ASSUME NEW j \in 1..m PROVE a.bufs[j].at <= Level(a)
  <2>1. CASE j = m
    BY <1>3, <1>5, <1>6, <2>1
  <2>2. CASE j < m
    <3>1. m \in 1..m /\ j \in 1..m
      BY <1>3, <2>2
    <3>2. a.bufs[j].at + a.bufs[m].n <= a.bufs[m].at
      BY <1>2, <1>3, <2>2, <3>1 DEF Inner
    <3> QED BY <1>3, <1>5, <1>6, <2>2, <3>1, <3>2
  <2> QED BY <1>3, <2>1, <2>2
<1>9. a.saved <= Level(a)
  <2>1. CASE m = 0
    BY <1>2, <1>6, <2>1
  <2>2. CASE m # 0
    <3>1. m \in 1..m
      BY <1>3, <2>2
    <3> QED BY <1>2, <1>5, <1>6, <1>7, <2>2, <3>1
  <2> QED BY <2>1, <2>2
<1> QED BY <1>1, <1>2, <1>3, <1>5, <1>7, <1>8, <1>9, Levels

\* What ends or changes a call context leaves its place on the stack.
LEMMA Restated ==
    ASSUME NEW a \in Scope, NEW b \in Scope, b.sb = a.sb, b.saved = a.saved,
           DOMAIN b.bufs = DOMAIN a.bufs,
           \A j \in DOMAIN a.bufs : b.bufs[j].at = a.bufs[j].at /\ b.bufs[j].n = a.bufs[j].n
    PROVE  Alike(b, a)
<1>1. /\ a.k = "scope" /\ b.k = "scope" /\ a.bufs \in Seq(Param) /\ b.bufs \in Seq(Param)
  BY DEF Scope
<1>2. Len(b.bufs) = Len(a.bufs) /\ Len(a.bufs) \in Nat /\ DOMAIN a.bufs = 1..Len(a.bufs)
  <2>1. PICK x, y : x = Len(a.bufs) /\ y = Len(b.bufs)
    OBVIOUS
  <2>2. x \in Nat /\ y \in Nat /\ DOMAIN a.bufs = 1..x /\ DOMAIN b.bufs = 1..y
    BY <1>1, <2>1
  <2>3. CASE x < y
    BY <2>2, <2>3
  <2>4. CASE y < x
    BY <2>2, <2>4
  <2> QED BY <2>1, <2>2, <2>3, <2>4
<1>3. (b.bufs = <<>> <=> Len(b.bufs) = 0) /\ (a.bufs = <<>> <=> Len(a.bufs) = 0)
  BY <1>1
<1>4. Level(b) = Level(a)
  <2>1. CASE Len(a.bufs) = 0
    BY <1>1, <1>2, <1>3, <2>1 DEF Level
  <2>2. CASE Len(a.bufs) # 0
    <3>1. Len(a.bufs) \in DOMAIN a.bufs
      BY <1>2, <2>2
    <3> QED BY <1>1, <1>2, <1>3, <2>2, <3>1 DEF Level
  <2> QED BY <2>1, <2>2
<1>5. Inner(a) => Inner(b)
  BY <1>1, <1>2 DEF Inner
<1> QED BY <1>1, <1>4, <1>5 DEF Alike, Before

\* finalize leaves no written parameter behind, the first time it runs.
LEMMA Finalizes ==
    ASSUME NEW a \in Scope
    PROVE  /\ Finalized(a) \in Scope /\ Alike(Finalized(a), a)
           /\ Finalized(a).finalized /\ Finalized(a).ending = a.ending
           /\ a.finalized => Finalized(a) = a
           /\ DOMAIN Finalized(a).bufs = DOMAIN a.bufs
           /\ ~a.finalized => \A j \in DOMAIN a.bufs :
                 /\ Finalized(a).bufs[j].st # "written"
                 /\ Finalized(a).bufs[j].st = "passed" => a.bufs[j].st = "passed"
<1>1. CASE a.finalized
  <2>1. Finalized(a) = a
    BY <1>1 DEF Finalized
  <2>2. Alike(a, a)
    BY Restated
  <2> QED BY <1>1, <2>1, <2>2
<1>2. CASE ~a.finalized
  <2>1. a.bufs \in Seq(Param) /\ a.sb \in Sbx /\ a.saved \in Nat /\ a.k = "scope" /\ a.ending \in BOOLEAN
    BY DEF Scope
  <2>2. PICK bs : bs = [i \in DOMAIN a.bufs |->
                           IF a.bufs[i].st = "written" THEN [a.bufs[i] EXCEPT !.st = "copied"]
                           ELSE a.bufs[i]]
    OBVIOUS
  <2>3. DOMAIN bs = DOMAIN a.bufs /\ DOMAIN a.bufs = 1..Len(a.bufs) /\ Len(a.bufs) \in Nat
    BY <2>1, <2>2
  <2>4. ASSUME NEW j \in DOMAIN a.bufs
        PROVE  /\ bs[j] \in Param /\ bs[j].at = a.bufs[j].at /\ bs[j].n = a.bufs[j].n
               /\ bs[j].st # "written" /\ (bs[j].st = "passed" => a.bufs[j].st = "passed")
    <3>1. PICK b : b = a.bufs[j]
      OBVIOUS
    <3>2. b \in Param
      BY <2>1, <3>1
    <3>3. bs[j] = IF b.st = "written" THEN [b EXCEPT !.st = "copied"] ELSE b
      BY <2>2, <3>1
    <3> QED BY <3>1, <3>2, <3>3 DEF Param
  <2>5. bs \in Seq(Param)
    <3>1. bs \in [1..Len(a.bufs) -> Param]
      BY <2>2, <2>3, <2>4
    <3> QED BY <2>3, <3>1, SeqDef
  <2>6. PICK f : f = Finalized(a)
    OBVIOUS
  <2>7. f = [a EXCEPT !.finalized = TRUE, !.bufs = bs]
    BY <1>2, <2>2, <2>6 DEF Finalized
  <2>8. /\ f \in Scope /\ f.finalized /\ f.ending = a.ending /\ f.bufs = bs
        /\ f.sb = a.sb /\ f.saved = a.saved
    BY <2>5, <2>7 DEF Scope
  <2>9. Alike(f, a)
    <3>1. /\ DOMAIN f.bufs = DOMAIN a.bufs
          /\ \A j \in DOMAIN a.bufs : f.bufs[j].at = a.bufs[j].at /\ f.bufs[j].n = a.bufs[j].n
      BY <2>3, <2>4, <2>8
    <3> QED BY <2>8, <3>1, Restated
  <2> QED BY <1>2, <2>3, <2>4, <2>6, <2>8, <2>9
<1> QED BY <1>1, <1>2

\* The sandbox writes to its parameters and to nothing else of the call context.
LEMMA Writes ==
    ASSUME NEW a \in Scope
    PROVE  /\ Written(a) \in Scope /\ Alike(Written(a), a)
           /\ Written(a).finalized = a.finalized /\ Written(a).ending = a.ending
           /\ DOMAIN Written(a).bufs = DOMAIN a.bufs
           /\ \A j \in DOMAIN a.bufs :
                 /\ Written(a).bufs[j].st # "passed"
                 /\ a.bufs[j].st \notin {"passed", "written"} => Written(a).bufs[j].st # "written"
<1>1. a.bufs \in Seq(Param) /\ a.sb \in Sbx /\ a.saved \in Nat /\ a.k = "scope" /\ a.ending \in BOOLEAN
  BY DEF Scope
<1>2. PICK bs : bs = [i \in DOMAIN a.bufs |->
                         IF a.bufs[i].st = "passed" THEN [a.bufs[i] EXCEPT !.st = "written"]
                         ELSE a.bufs[i]]
  OBVIOUS
<1>3. DOMAIN bs = DOMAIN a.bufs /\ DOMAIN a.bufs = 1..Len(a.bufs) /\ Len(a.bufs) \in Nat
  BY <1>1, <1>2
<1>4. ASSUME NEW j \in DOMAIN a.bufs
      PROVE  /\ bs[j] \in Param /\ bs[j].at = a.bufs[j].at /\ bs[j].n = a.bufs[j].n
             /\ bs[j].st # "passed"
             /\ a.bufs[j].st \notin {"passed", "written"} => bs[j].st # "written"
  <2>1. PICK b : b = a.bufs[j]
    OBVIOUS
  <2>2. b \in Param
    BY <1>1, <2>1
  <2>3. bs[j] = IF b.st = "passed" THEN [b EXCEPT !.st = "written"] ELSE b
    BY <1>2, <2>1
  <2> QED BY <2>1, <2>2, <2>3 DEF Param
<1>5. bs \in Seq(Param)
  <2>1. bs \in [1..Len(a.bufs) -> Param]
    BY <1>2, <1>3, <1>4
  <2> QED BY <1>3, <2>1, SeqDef
<1>6. PICK f : f = Written(a)
  OBVIOUS
<1>7. f = [a EXCEPT !.bufs = bs]
  BY <1>2, <1>6 DEF Written
<1>8. /\ f \in Scope /\ f.finalized = a.finalized /\ f.ending = a.ending /\ f.bufs = bs
      /\ f.sb = a.sb /\ f.saved = a.saved
  BY <1>5, <1>7 DEF Scope
<1>9. Alike(f, a)
  <2>1. /\ DOMAIN f.bufs = DOMAIN a.bufs
        /\ \A j \in DOMAIN a.bufs : f.bufs[j].at = a.bufs[j].at /\ f.bufs[j].n = a.bufs[j].n
    BY <1>3, <1>4, <1>8
  <2> QED BY <1>8, <2>1, Restated
<1> QED BY <1>3, <1>4, <1>6, <1>8, <1>9

\* A call context opens.
LEMMA OpenStep ==
    ASSUME StackInv, NEW s \in Sbx, Open(s)
    PROVE  StackInv'
<1>1. regsSp \in [Sbx -> Nat] /\ regsSp[s] \in Nat
  BY DEF StackInv, StackTypes
<1>2. PICK a : a = [k |-> "scope", sb |-> s, saved |-> regsSp[s], bufs |-> <<>>,
                    finalized |-> FALSE, ending |-> FALSE]
  OBVIOUS
<1>3. a \in Scope /\ a.k = "scope" /\ a.bufs = <<>> /\ a.saved = regsSp[s] /\ a.sb = s
  <2>1. <<>> \in Seq(Param)
    OBVIOUS
  <2> QED BY <1>1, <1>2, <2>1 DEF Scope
<1>4. a \in Act /\ Before(a) = regsSp[a.sb] /\ Level(a) = regsSp[a.sb]
  BY <1>3 DEF Act, Before, Level
<1>5. Inner(a)
  <2>1. DOMAIN a.bufs = {} /\ Len(a.bufs) = 0
    BY <1>3
  <2> QED BY <1>3, <2>1, SboxAssumption DEF Inner
<1>6. /\ acts' = Append(acts, a) /\ regsSp' = regsSp /\ tls' = tls /\ ~TopIs("call")
  BY <1>2 DEF Open, Enters, InHost, TopIs
<1>7. PICK p : p = regsSp[a.sb]
  OBVIOUS
<1>8. p \in Nat /\ regsSp' = [regsSp EXCEPT ![a.sb] = p] /\ regsSp[a.sb] <= p /\ Level(a) <= p
  BY <1>1, <1>3, <1>4, <1>6, <1>7
<1>9. /\ TopIs("call") => CallsBack(Top, a)
      /\ a.k = "call" => p = a.staged /\ a.prev = tls
      /\ tls' = IF a.k = "call" THEN a.sb ELSE tls
  BY <1>3, <1>6
<1> QED BY <1>4, <1>5, <1>6, <1>8, <1>9, Begin

\* The innermost activity.
LEMMA Innermost ==
    ASSUME StackInv, acts # <<>>
    PROVE  /\ Top \in Act /\ Inner(Top) /\ Top.sb \in Sbx
           /\ Level(Top) <= regsSp[Top.sb] /\ regsSp \in [Sbx -> Nat] /\ regsSp[Top.sb] \in Nat
           /\ Len(acts) \in Nat /\ Len(acts) > 0 /\ Len(acts) \in DOMAIN acts
           /\ acts \in Seq(Act)
<1>1. Len(acts) \in Nat /\ Len(acts) > 0 /\ Len(acts) \in 1..Len(acts) /\ DOMAIN acts = 1..Len(acts)
      /\ acts[Len(acts)] \in Act
  BY Numbered DEF StackInv
<1>2. Inner(acts[Len(acts)]) /\ Level(acts[Len(acts)]) <= regsSp[acts[Len(acts)].sb]
  BY <1>1 DEF StackInv, Stacked
<1>3. acts[Len(acts)].sb \in Sbx
  BY <1>1, ActIs
<1> QED BY <1>1, <1>2, <1>3 DEF Top, StackInv, StackTypes

\* A parameter goes on the stack.
LEMMA PushStep ==
    ASSUME StackInv, NEW n \in BufSizes, NEW align \in BufAligns, NEW out \in BOOLEAN,
           Push(n, align, out)
    PROVE  StackInv'
<1>1. PICK t : t = Top
  OBVIOUS
<1>2. TopIs("scope") /\ acts # <<>> /\ t.k = "scope"
  BY <1>1 DEF Push, TopIs
<1>3. t \in Act /\ t \in Scope /\ Inner(t) /\ Level(t) <= regsSp[t.sb] /\ regsSp[t.sb] \in Nat /\ t.sb \in Sbx
  BY <1>1, <1>2, Innermost, ActIs
<1>4. PICK m : m = Len(t.bufs)
  OBVIOUS
<1>5. /\ m \in Nat /\ t.bufs \in Seq(Param) /\ DOMAIN t.bufs = 1..m
      /\ t.saved \in Nat /\ t.saved <= Level(t) /\ Level(t) \in Nat
      /\ \A j \in 1..m : /\ t.bufs[j].at \in Nat /\ t.bufs[j].n \in Nat /\ t.bufs[j].at <= Level(t)
                         /\ t.saved + t.bufs[j].n <= t.bufs[j].at
  BY <1>3, <1>4, Within
<1>6. n \in Nat /\ align \in Nat /\ align > 0
  BY SboxAssumption
<1>7. PICK p : p = RoundTo(regsSp[t.sb] + n, align)
  OBVIOUS
<1>8. p \in Nat /\ regsSp[t.sb] + n <= p
  <2>1. regsSp[t.sb] + n \in Nat
    BY <1>3, <1>6
  <2> QED BY <1>6, <1>7, <2>1, RoundsUp
<1>9. PICK b : b = [at |-> p, n |-> n, st |-> IF out THEN "passed" ELSE "in"]
  OBVIOUS
<1>10. b \in Param /\ b.at = p /\ b.n = n
  BY <1>6, <1>8, <1>9 DEF Param
<1>11. PICK bs : bs = Append(t.bufs, b)
  OBVIOUS
<1>12. /\ bs \in Seq(Param) /\ Len(bs) = m + 1 /\ bs[m + 1] = b
       /\ \A j \in 1..m : bs[j] = t.bufs[j]
  BY <1>4, <1>5, <1>10, <1>11
<1>13. PICK a : a = [t EXCEPT !.bufs = bs]
  OBVIOUS
<1>14. a \in Scope /\ a.k = "scope" /\ a.bufs = bs /\ a.sb = t.sb /\ a.saved = t.saved
  BY <1>3, <1>12, <1>13 DEF Scope
<1>15. DOMAIN bs = 1..(m + 1) /\ bs # <<>>
  BY <1>5, <1>12
<1>16. Level(a) = p
  BY <1>10, <1>12, <1>14, <1>15 DEF Level
<1>17. Inner(a)
  <2>1. ASSUME NEW j \in 1..(m + 1) PROVE a.saved + bs[j].n <= bs[j].at
    <3>1. CASE j = m + 1
      <4>1. bs[j] = b /\ t.saved <= regsSp[t.sb]
        BY <1>3, <1>5, <1>12, <3>1
      <4> QED BY <1>3, <1>5, <1>6, <1>8, <1>10, <1>14, <4>1
    <3>2. CASE j # m + 1
      <4>1. j \in 1..m
        BY <1>5, <3>2
      <4> QED BY <1>5, <1>12, <1>14, <4>1
    <3> QED BY <3>1, <3>2
  <2>2. ASSUME NEW i \in 1..(m + 1), NEW j \in 1..(m + 1), i < j PROVE bs[i].at + bs[j].n <= bs[j].at
    <3>1. i \in 1..m /\ bs[i] = t.bufs[i]
      BY <1>5, <1>12, <2>2
    <3>2. CASE j = m + 1
      <4>1. bs[j] = b /\ t.bufs[i].at <= regsSp[t.sb] /\ t.bufs[i].at \in Nat
        BY <1>3, <1>5, <1>12, <3>1, <3>2
      <4> QED BY <1>3, <1>6, <1>8, <1>10, <3>1, <4>1
    <3>3. CASE j # m + 1
      <4>1. j \in 1..m /\ bs[j] = t.bufs[j]
        BY <1>5, <1>12, <3>3
      <4>2. t.bufs[i].at + t.bufs[j].n <= t.bufs[j].at
        BY <1>2, <1>3, <1>5, <2>2, <3>1, <4>1 DEF Inner
      <4> QED BY <3>1, <4>1, <4>2
    <3> QED BY <3>2, <3>3
  <2>3. Len(a.bufs) <= MaxBufs
    BY <1>1, <1>4, <1>5, <1>12, <1>14, SboxAssumption DEF Push
  <2> QED BY <1>14, <1>15, <2>1, <2>2, <2>3 DEF Inner
<1>18. /\ acts' = [acts EXCEPT ![Len(acts)] = a] /\ regsSp' = [regsSp EXCEPT ![a.sb] = p] /\ tls' = tls
  BY <1>1, <1>7, <1>9, <1>11, <1>13, <1>14 DEF Push, Changes, SetSp
<1>19. a.sb = Top.sb /\ a.saved = Top.saved /\ regsSp[a.sb] <= p /\ Level(a) <= p
  BY <1>1, <1>3, <1>6, <1>8, <1>14, <1>16
<1> QED BY <1>2, <1>8, <1>14, <1>17, <1>18, <1>19, Changing

\* A call context begins to end: finalize.
LEMMA FinishStep ==
    ASSUME StackInv, Finish
    PROVE  StackInv'
<1>1. PICK t : t = Top
  OBVIOUS
<1>2. TopIs("scope") /\ acts # <<>> /\ t.k = "scope"
  BY <1>1 DEF Finish, TopIs
<1>3. /\ t \in Act /\ t \in Scope /\ Inner(t) /\ Level(t) <= regsSp[t.sb] /\ regsSp[t.sb] \in Nat
      /\ t.sb \in Sbx /\ regsSp \in [Sbx -> Nat]
  BY <1>1, <1>2, Innermost, ActIs
<1>4. PICK f : f = Finalized(t)
  OBVIOUS
<1>5. f \in Scope /\ Alike(f, t)
  BY <1>3, <1>4, Finalizes
<1>6. PICK a : a = [f EXCEPT !.ending = TRUE]
  OBVIOUS
<1>7. /\ a \in Scope /\ a.k = "scope" /\ a.bufs = f.bufs /\ a.sb = f.sb /\ a.saved = f.saved
      /\ f.k = "scope"
  BY <1>5, <1>6 DEF Scope
<1>8. f.sb = t.sb /\ f.saved = t.saved /\ Level(f) = Level(t) /\ Inner(f)
  BY <1>2, <1>3, <1>5, <1>7 DEF Alike, Before
<1>9. Level(a) = Level(f) /\ Inner(a)
  BY <1>7, <1>8 DEF Level, Inner
<1>10. PICK p : p = regsSp[a.sb]
  OBVIOUS
<1>11. p \in Nat /\ regsSp[a.sb] <= p /\ Level(a) <= p /\ a.sb = Top.sb /\ a.saved = Top.saved
  BY <1>1, <1>3, <1>7, <1>8, <1>9, <1>10
<1>12. /\ acts' = [acts EXCEPT ![Len(acts)] = a] /\ regsSp' = regsSp /\ tls' = tls
  BY <1>1, <1>4, <1>6 DEF Finish, Changes
<1>13. regsSp' = [regsSp EXCEPT ![a.sb] = p]
  BY <1>3, <1>10, <1>12
<1> QED BY <1>2, <1>7, <1>9, <1>11, <1>12, <1>13, Changing
\* Without the innermost activity.
LEMMA Outer ==
    ASSUME StackInv, acts # <<>>, NEW below, below = SubSeq(acts, 1, Len(acts) - 1)
    PROVE  /\ below \in Seq(Act) /\ Len(below) = Len(acts) - 1 /\ Len(below) \in Nat
           /\ DOMAIN below = 1..Len(below)
           /\ \A i \in 1..(Len(acts) - 1) : below[i] = acts[i]
<1>1. acts \in Seq(Act) /\ Len(acts) \in Nat /\ Len(acts) > 0
  BY Innermost
<1>2. PICK n : n = Len(acts) - 1
  OBVIOUS
<1>3. n \in Nat /\ n <= Len(acts) /\ below = SubSeq(acts, 1, n)
  BY <1>1, <1>2
<1>4. below \in Seq(Act) /\ Len(below) = n /\ \A i \in 1..n : below[i] = acts[i]
  BY <1>1, <1>3
<1> QED BY <1>2, <1>3, <1>4

\* A call context, and a callback, ends.
LEMMA LeaveStep ==
    ASSUME StackInv, Close \/ CallBackEnds
    PROVE  StackInv'
<1>1. /\ acts # <<>> /\ Top.k # "call" /\ tls' = tls
      /\ acts' = SubSeq(acts, 1, Len(acts) - 1)
      /\ regsSp' = [regsSp EXCEPT ![Top.sb] = Before(Top)]
  <2>1. CASE Close
    BY <2>1 DEF Close, TopIs, Leaves, SetSp, Restored, Before
  <2>2. CASE CallBackEnds
    BY <2>2 DEF CallBackEnds, TopIs, Leaves, SetSp, Before
  <2> QED BY <2>1, <2>2
<1>2. /\ acts' \in Seq(Act) /\ Len(acts') = Len(acts) - 1
      /\ \A i \in 1..(Len(acts) - 1) : acts'[i] = acts[i]
  BY <1>1, Outer
<1>3. \A i \in 1..(Len(acts) - 1) : Alike(acts'[i], acts[i])
  BY <1>2 DEF Alike
<1>4. tls' = IF Top.k = "call" THEN Top.prev ELSE tls
  BY <1>1
<1> QED BY <1>1, <1>2, <1>3, <1>4, Finishing

\* What a call that returns leaves: its caller's activities, and the states of
\* the parameters of the innermost call context, if it is of the same sandbox.
LEMMA Returning ==
    ASSUME StackInv, Return
    PROVE  /\ acts # <<>> /\ Top.k = "call" /\ Top \in CallRecord /\ tls' = Top.prev
           /\ regsSp' = [regsSp EXCEPT ![Top.sb] = Top.saved]
           /\ acts' \in Seq(Act) /\ Len(acts') = Len(acts) - 1 /\ Len(acts) \in Nat
           /\ \A i \in 1..(Len(acts) - 1) :
                 \/ acts'[i] = acts[i]
                 \/ /\ i = Len(acts) - 1 /\ acts[i] \in Scope
                    /\ acts'[i] = FinalizeCall(acts[i])
           /\ (Len(acts) > 1 /\ acts[Len(acts) - 1].k = "scope" /\ acts[Len(acts) - 1].sb = Top.sb) =>
                 acts'[Len(acts) - 1] = FinalizeCall(acts[Len(acts) - 1])
<1>1. /\ acts # <<>> /\ Top.k = "call" /\ tls' = Top.prev
      /\ regsSp' = [regsSp EXCEPT ![Top.sb] = Top.saved]
  BY DEF Return, TopIs, SetSp, Unguard
<1>2. PICK below : below = SubSeq(acts, 1, Len(acts) - 1)
  OBVIOUS
<1>3. PICK n : n = Len(below)
  OBVIOUS
<1>4. /\ below \in Seq(Act) /\ n = Len(acts) - 1 /\ n \in Nat /\ DOMAIN below = 1..n
      /\ (\A i \in 1..n : below[i] = acts[i]) /\ Len(acts) \in Nat
  BY <1>1, <1>2, <1>3, Outer, Innermost
<1>5. Top \in CallRecord
  BY <1>1, Innermost, ActIs
<1>6. IF n > 0 /\ below[n].k = "scope" /\ below[n].sb = Top.sb
      THEN acts' = [below EXCEPT ![n] = FinalizeCall(below[n])]
      ELSE acts' = below
  BY <1>2, <1>3 DEF Return
<1>7. CASE ~(n > 0 /\ below[n].k = "scope" /\ below[n].sb = Top.sb)
  <2>1. acts' = below
    BY <1>6, <1>7
  <2>2. ~(Len(acts) > 1 /\ acts[Len(acts) - 1].k = "scope" /\ acts[Len(acts) - 1].sb = Top.sb)
    <3>1. n > 0 => below[n] = acts[n]
      BY <1>4
    <3> QED BY <1>4, <1>7, <3>1
  <2> QED BY <1>1, <1>3, <1>4, <1>5, <2>1, <2>2
<1>8. CASE n > 0 /\ below[n].k = "scope" /\ below[n].sb = Top.sb
  <2>1. n \in 1..n /\ below[n] = acts[n] /\ below[n] \in Act
    BY <1>4, <1>8
  <2>2. PICK f : f = FinalizeCall(below[n])
    OBVIOUS
  <2>3. below[n] \in Scope
    BY <1>8, <2>1, ActIs
  <2>4. f \in Act
    <3>1. Written(below[n]) \in Scope
      BY <2>3, Writes
    <3>2. Finalized(Written(below[n])) \in Scope
      BY <3>1, Finalizes
    <3> QED BY <2>2, <3>1, <3>2 DEF FinalizeCall, Act
  <2>5. acts' = [below EXCEPT ![n] = f]
    BY <1>6, <1>8, <2>2
  <2>6. /\ acts' \in Seq(Act) /\ Len(acts') = n /\ acts'[n] = f
        /\ \A i \in 1..n : i # n => acts'[i] = below[i]
    BY <1>3, <1>4, <2>1, <2>4, <2>5, ExceptSeq
  <2>7. acts'[n] = FinalizeCall(acts[n]) /\ acts[n] \in Scope
    BY <2>1, <2>2, <2>3, <2>6
  <2>8. \A i \in 1..n : acts'[i] = acts[i] \/ (i = n /\ acts[i] \in Scope /\ acts'[i] = FinalizeCall(acts[i]))
    BY <1>4, <2>6, <2>7
  <2> QED BY <1>1, <1>4, <1>5, <2>6, <2>7, <2>8
<1> QED BY <1>7, <1>8

\* A call or a callback ends and puts regs.sp back.
LEMMA ReturnStep ==
    ASSUME StackInv, Return
    PROVE  StackInv'
<1>1. /\ acts # <<>> /\ Top.k = "call" /\ Top \in CallRecord /\ tls' = Top.prev
      /\ regsSp' = [regsSp EXCEPT ![Top.sb] = Top.saved]
      /\ acts' \in Seq(Act) /\ Len(acts') = Len(acts) - 1
  BY Returning
<1>2. ASSUME NEW i \in 1..(Len(acts) - 1) PROVE Alike(acts'[i], acts[i])
  <2>1. CASE acts'[i] = acts[i]
    BY <2>1 DEF Alike
  <2>2. CASE acts[i] \in Scope /\ acts'[i] = FinalizeCall(acts[i])
    <3>1. PICK a : a = acts[i]
      OBVIOUS
    <3>2. PICK w : w = Written(a)
      OBVIOUS
    <3>3. a.k = "scope" /\ w \in Scope /\ w.k = "scope" /\ Alike(w, a)
      BY <2>2, <3>1, <3>2, Writes DEF Scope
    <3>4. Alike(Finalized(w), w)
      BY <3>3, Finalizes
    <3>5. Alike(Finalized(w), a)
      BY <3>3, <3>4 DEF Alike
    <3> QED BY <2>2, <3>1, <3>2, <3>3, <3>5 DEF FinalizeCall
  <2> QED BY <2>1, <2>2, Returning
<1>3. /\ regsSp' = [regsSp EXCEPT ![Top.sb] = Before(Top)]
      /\ tls' = IF Top.k = "call" THEN Top.prev ELSE tls
  BY <1>1 DEF Before
<1> QED BY <1>1, <1>2, <1>3, Finishing

\* The stack goes on below the arguments that were staged.
LEMMA Stages ==
    ASSUME NEW p \in Nat, NEW n \in Nat
    PROVE  /\ Staged(p, n) \in Nat /\ p + n <= Staged(p, n)
           /\ RoundTo(Staged(p, n), 2) + 1 \in Nat /\ Staged(p, n) < RoundTo(Staged(p, n), 2) + 1
<1>1. Staged(p, n) \in Nat /\ p + n <= Staged(p, n)
  <2>1. CASE n = 0
    BY <2>1 DEF Staged
  <2>2. CASE n # 0
    <3>1. RoundTo(p + n, 2) \in Nat /\ p + n <= RoundTo(p + n, 2)
      <4>1. p + n \in Nat
        OBVIOUS
      <4> QED BY <4>1, RoundsUp
    <3> QED BY <2>2, <3>1 DEF Staged
  <2> QED BY <2>1, <2>2
<1>2. PICK q : q = Staged(p, n)
  OBVIOUS
<1>3. RoundTo(q, 2) \in Nat /\ q <= RoundTo(q, 2)
  BY <1>1, <1>2, RoundsUp
<1> QED BY <1>1, <1>2, <1>3

\* The arguments that spill are some number of them.
LEMMA Spills ==
    ASSUME NEW args \in Args
    PROVE  Spill(args) \in Nat
<1>1. args[1] \in Nat /\ args[2] \in Nat /\ IntRegs \in Nat /\ FloatRegs \in Nat
  BY SboxAssumption
<1>2. PICK x, y : x = args[1] /\ y = args[2]
  OBVIOUS
<1>3. Over(x, IntRegs) \in Nat /\ Over(y, FloatRegs) \in Nat
  BY <1>1, <1>2 DEF Over
<1> QED BY <1>2, <1>3 DEF Spill

\* A call.
LEMMA EnterStep ==
    ASSUME StackInv, NEW s \in Sbx, NEW n \in Nat, NEW c \in BOOLEAN, Enter(s, n, c)
    PROVE  StackInv'
<1>1. regsSp \in [Sbx -> Nat] /\ regsSp[s] \in Nat /\ tls \in Sbx \cup {NoSbx}
  BY DEF StackInv, StackTypes
<1>2. PICK p : p = Staged(regsSp[s], n)
  OBVIOUS
<1>3. PICK e : e = RoundTo(p, 2) + 1
  OBVIOUS
<1>4. p \in Nat /\ regsSp[s] + n <= p /\ e \in Nat /\ p < e
  BY <1>1, <1>2, <1>3, Stages
<1>5. PICK a : a = [k |-> "call", sb |-> s, saved |-> regsSp[s], args |-> n, staged |-> p,
                    entry |-> e, prev |-> tls, withContext |-> c]
  OBVIOUS
<1>6. /\ a.k = "call" /\ a.sb = s /\ a.saved = regsSp[s] /\ a.args = n /\ a.staged = p
      /\ a.entry = e /\ a.prev = tls /\ a \in Act
  BY <1>1, <1>4, <1>5 DEF Act, CallRecord
<1>7. /\ acts' = Append(acts, a) /\ regsSp' = [regsSp EXCEPT ![a.sb] = p] /\ tls' = s
      /\ ~TopIs("call")
  BY <1>2, <1>3, <1>5, <1>6 DEF Enter, Enters, SetSp, Guard, InHost, TopIs
<1>8. Inner(a) /\ Before(a) = regsSp[a.sb] /\ regsSp[a.sb] <= p /\ Level(a) <= p
  BY <1>1, <1>4, <1>6 DEF Inner, Before, Level
<1>9. /\ TopIs("call") => CallsBack(Top, a)
      /\ a.k = "call" => p = a.staged /\ a.prev = tls
      /\ tls' = IF a.k = "call" THEN a.sb ELSE tls
  BY <1>6, <1>7
<1> QED BY <1>4, <1>6, <1>7, <1>8, <1>9, Begin

\* A callback.
LEMMA CallBackStep ==
    ASSUME StackInv, NEW d \in 0..MaxDepth, CallBack(d)
    PROVE  StackInv'
<1>1. PICK t : t = Top
  OBVIOUS
<1>2. TopIs("call") /\ acts # <<>> /\ t.k = "call" /\ d >= t.entry
  BY <1>1 DEF CallBack, TopIs
<1>3. t \in CallRecord /\ Inner(t) /\ t.sb \in Sbx /\ regsSp[t.sb] \in Nat
  BY <1>1, <1>2, Innermost, ActIs
<1>4. t.staged < t.entry /\ t.entry \in Nat /\ t.staged \in Nat
  BY <1>2, <1>3 DEF Inner, CallRecord
<1>5. regsSp[t.sb] = t.staged
  BY <1>1, <1>2 DEF StackInv, Stacked
<1>6. d \in Nat
  BY SboxAssumption
<1>7. PICK a : a = [k |-> "callback", sb |-> t.sb, old |-> regsSp[t.sb], at |-> d]
  OBVIOUS
<1>8. a.k = "callback" /\ a.sb = t.sb /\ a.old = regsSp[t.sb] /\ a.at = d /\ a \in Act
  BY <1>3, <1>6, <1>7 DEF Act, CallbackRecord
<1>9. /\ acts' = Append(acts, a) /\ regsSp' = [regsSp EXCEPT ![a.sb] = d] /\ tls' = tls
  BY <1>1, <1>7, <1>8 DEF CallBack, Enters, SetSp
<1>10. Inner(a) /\ Before(a) = regsSp[a.sb] /\ regsSp[a.sb] <= d /\ Level(a) <= d
  BY <1>2, <1>3, <1>4, <1>5, <1>6, <1>8 DEF Inner, Before, Level
<1>11. CallsBack(Top, a)
  BY <1>1, <1>2, <1>5, <1>8 DEF CallsBack
<1>12. /\ TopIs("call") => CallsBack(Top, a)
       /\ a.k = "call" => d = a.staged /\ a.prev = tls
       /\ tls' = IF a.k = "call" THEN a.sb ELSE tls
  BY <1>8, <1>9, <1>11
<1> QED BY <1>6, <1>8, <1>9, <1>10, <1>12, Begin

\* Call contexts, calls and callbacks follow one another on the stack of each
\* sandbox, each between where regs.sp was and where it left it, and
\* tls_current_sandbox goes with the calls (sbox/lfi.h CallContext, call_ptr,
\* stage_stack_args, sbox/lfi.cpp).
THEOREM StackInvariance == SboxSpec => []StackInv
<1>1. SboxInit => StackInv
  <2> SUFFICES ASSUME SboxInit PROVE StackInv
    OBVIOUS
  <2>1. acts = <<>> /\ regsSp = [s \in Sbx |-> 0] /\ tls = NoSbx
    BY DEF SboxInit
  <2>2. DOMAIN acts = {} /\ acts \in Seq(Act) /\ \A s \in Sbx : regsSp[s] = 0
    BY <2>1
  <2> QED BY <2>1, <2>2 DEF StackInv, StackTypes, Stacked, FromTop, Current, TopIs
<1>2. StackInv /\ [SboxNext]_sboxVars => StackInv'
  <2> SUFFICES ASSUME StackInv, [SboxNext]_sboxVars PROVE StackInv'
    OBVIOUS
  <2>1. CASE UNCHANGED sboxVars
    BY <2>1 DEF sboxVars, StackInv, StackTypes, Stacked, FromTop, Current, TopIs, Top, Nearest
  <2>2. ASSUME NEW s \in Sbx, NEW n \in {Spill(a) : a \in Args}, NEW c \in BOOLEAN, Enter(s, n, c)
        PROVE  StackInv'
    <3>1. n \in Nat
      BY Spills
    <3> QED BY <2>2, <3>1, EnterStep
  <2>3. ASSUME NEW s \in Sbx, Open(s) PROVE StackInv'
    BY <2>3, OpenStep
  <2>4. ASSUME NEW n \in BufSizes, NEW a \in BufAligns, NEW out \in BOOLEAN, Push(n, a, out)
        PROVE  StackInv'
    BY <2>4, PushStep
  <2>5. ASSUME NEW d \in 0..MaxDepth, CallBack(d) PROVE StackInv'
    BY <2>5, CallBackStep
  <2>6. CASE Finish \/ Close \/ Return \/ CallBackEnds
    BY <2>6, FinishStep, LeaveStep, ReturnStep
  <2> QED BY <2>1, <2>2, <2>3, <2>4, <2>5, <2>6 DEF SboxNext
<1> QED BY <1>1, <1>2, PTL DEF SboxSpec
-----------------------------------------------------------------------------
\* What the words in use are.
LEMMA InUse ==
    ASSUME StackInv, NEW i \in DOMAIN acts, NEW j, NEW w \in Words(<<i, j>>), NEW a, a = acts[i]
    PROVE  \/ /\ a.k = "scope" /\ j \in DOMAIN a.bufs
              /\ w \in (a.bufs[j].at - a.bufs[j].n + 1)..a.bufs[j].at
           \/ a.k = "call" /\ j = 1 /\ w \in (a.staged - a.args + 1)..a.staged
           \/ /\ a.k = "call" /\ j = 2
              /\ w \in a.entry..(IF i < Len(acts) THEN acts[i + 1].at ELSE MaxDepth)
<1>1. PICK f : f = AreaOf(i)
  OBVIOUS
<1>2. j \in DOMAIN f /\ w \in f[j]
  BY <1>1 DEF Words
<1>3. CASE a.k = "scope"
  <2>1. f = [m \in DOMAIN a.bufs |-> (a.bufs[m].at - a.bufs[m].n + 1)..a.bufs[m].at]
    BY <1>1, <1>3 DEF AreaOf
  <2> QED BY <1>2, <1>3, <2>1
<1>4. CASE a.k = "call"
  <2>1. PICK last1 : last1 = IF i < Len(acts) THEN acts[i + 1].at ELSE MaxDepth
    OBVIOUS
  <2>2. f = << (a.staged - a.args + 1)..a.staged, a.entry..last1 >>
    BY <1>1, <1>4, <2>1 DEF AreaOf
  <2>3. DOMAIN f = 1..2 /\ f[1] = (a.staged - a.args + 1)..a.staged /\ f[2] = a.entry..last1
    BY <2>2
  <2>4. j = 1 \/ j = 2
    BY <1>2, <2>3
  <2> QED BY <1>2, <1>4, <2>1, <2>3, <2>4
<1>5. CASE a.k \notin {"scope", "call"}
  <2>1. f = <<>>
    BY <1>1, <1>5 DEF AreaOf
  <2> QED BY <1>2, <2>1
<1> QED BY <1>3, <1>4, <1>5

\* They lie beyond where regs.sp was when the activity began, and what comes
\* later on the same stack begins beyond them.
LEMMA Spans ==
    ASSUME StackInv, NEW i \in DOMAIN acts, NEW j, NEW w \in Words(<<i, j>>)
    PROVE  /\ acts[i].k \in {"scope", "call"} /\ w \in Int /\ Before(acts[i]) < w
           /\ \A m \in DOMAIN acts :
                 i < m /\ acts[m].sb = acts[i].sb /\ acts[m].k # "callback" => w <= Before(acts[m])
<1>1. PICK a : a = acts[i]
  OBVIOUS
<1>2. PICK n : n = Len(acts)
  OBVIOUS
<1>3. /\ n \in Nat /\ DOMAIN acts = 1..n /\ i \in 1..n /\ a \in Act /\ Inner(a)
      /\ \A m \in 1..n : acts[m] \in Act /\ Before(acts[m]) \in Nat /\ Level(acts[m]) \in Nat
  BY <1>1, <1>2, Numbered, Levels DEF StackInv, Stacked
<1>4. ASSUME NEW m \in DOMAIN acts, i < m, acts[m].sb = a.sb PROVE Level(a) <= Before(acts[m])
  BY <1>1, <1>3, <1>4 DEF StackInv, Stacked
<1>5. CASE a.k = "scope"
  <2>1. a \in Scope
    BY <1>3, <1>5, ActIs
  <2>2. PICK x, y : x = a.bufs[j].at /\ y = a.bufs[j].n
    OBVIOUS
  <2>3. j \in DOMAIN a.bufs /\ w \in (x - y + 1)..x
    BY <1>1, <1>5, <2>2, InUse
  <2>4. x \in Nat /\ y \in Nat /\ x <= Level(a) /\ a.saved + y <= x /\ a.saved \in Nat /\ Level(a) \in Nat
    BY <1>3, <2>1, <2>2, <2>3, Within
  <2>5. w \in Int /\ a.saved < w /\ w <= Level(a)
    BY <2>3, <2>4
  <2>6. Before(a) = a.saved
    BY <1>5 DEF Before
  <2>7. ASSUME NEW m \in DOMAIN acts, i < m, acts[m].sb = a.sb PROVE w <= Before(acts[m])
    <3>1. Level(a) <= Before(acts[m]) /\ Before(acts[m]) \in Nat
      BY <1>3, <1>4, <2>7
    <3> QED BY <2>4, <2>5, <3>1
  <2> QED BY <1>1, <1>5, <2>5, <2>6, <2>7
<1>6. CASE a.k = "call"
  <2>1. a \in CallRecord
    BY <1>3, <1>6, ActIs
  <2>2. /\ a.staged \in Nat /\ a.args \in Nat /\ a.saved \in Nat /\ a.entry \in Nat
        /\ a.saved + a.args <= a.staged /\ a.staged < a.entry
    BY <1>3, <1>6, <2>1 DEF CallRecord, Inner
  <2>3. Before(a) = a.saved /\ Level(a) = a.staged
    BY <1>6 DEF Before, Level
  <2>4. CASE w \in (a.staged - a.args + 1)..a.staged
    <3>1. w \in Int /\ a.saved < w /\ w <= a.staged
      BY <2>2, <2>4
    <3>2. ASSUME NEW m \in DOMAIN acts, i < m, acts[m].sb = a.sb PROVE w <= Before(acts[m])
      <4>1. a.staged <= Before(acts[m]) /\ Before(acts[m]) \in Nat
        BY <1>3, <1>4, <2>3, <3>2
      <4> QED BY <2>2, <3>1, <4>1
    <3> QED BY <1>1, <1>6, <2>3, <3>1, <3>2
  <2>5. CASE w \in a.entry..(IF i < Len(acts) THEN acts[i + 1].at ELSE MaxDepth)
    <3>1. w \in Int /\ a.saved < w
      BY <2>2, <2>5
    <3>2. ASSUME NEW m \in DOMAIN acts, i < m, acts[m].sb = a.sb, acts[m].k # "callback"
          PROVE  w <= Before(acts[m])
      <4>1. i + 1 \in 1..n /\ i < Len(acts) /\ m \in 1..n
        BY <1>2, <1>3, <3>2
      <4>2. PICK b : b = acts[i + 1]
        OBVIOUS
      <4>3. CallsBack(a, b)
        BY <1>1, <1>3, <1>6, <4>1, <4>2 DEF StackInv, Stacked
      <4>4. b.k = "callback" /\ b.sb = a.sb /\ Level(b) = b.at
        BY <4>3 DEF CallsBack, Level
      <4>5. i + 1 < m
        BY <1>3, <3>2, <4>1, <4>2, <4>4
      <4>6. acts[i + 1].sb = acts[m].sb
        BY <3>2, <4>2, <4>4
      <4>7. Level(acts[i + 1]) <= Before(acts[m])
        BY <1>3, <4>1, <4>5, <4>6 DEF StackInv, Stacked
      <4>8. b.at <= Before(acts[m]) /\ b.at \in Nat /\ Before(acts[m]) \in Nat
        BY <1>3, <4>1, <4>2, <4>4, <4>7
      <4>9. w <= b.at
        BY <2>5, <4>1, <4>2, <4>8
      <4> QED BY <3>1, <4>8, <4>9
    <3> QED BY <1>1, <1>6, <2>3, <3>1, <3>2
  <2> QED BY <1>1, <1>6, <2>4, <2>5, InUse
<1> QED BY <1>1, <1>5, <1>6, InUse

\* The words of one activity.
LEMMA OneApart ==
    ASSUME StackInv, NEW i \in DOMAIN acts, NEW j, NEW m, j # m, NEW w \in Words(<<i, j>>)
    PROVE  w \notin Words(<<i, m>>)
<1> SUFFICES ASSUME w \in Words(<<i, m>>) PROVE FALSE
  OBVIOUS
<1>1. PICK a : a = acts[i]
  OBVIOUS
<1>2. a \in Act /\ Inner(a)
  BY <1>1, Numbered DEF StackInv, Stacked
<1>3. CASE a.k = "scope"
  <2>1. PICK x, y, p, q : x = a.bufs[j].at /\ y = a.bufs[j].n /\ p = a.bufs[m].at /\ q = a.bufs[m].n
    OBVIOUS
  <2>2. /\ j \in DOMAIN a.bufs /\ w \in (x - y + 1)..x
        /\ m \in DOMAIN a.bufs /\ w \in (p - q + 1)..p
    BY <1>1, <1>3, <2>1, InUse
  <2>3. a \in Scope
    BY <1>2, <1>3, ActIs
  <2>4. /\ x \in Nat /\ y \in Nat /\ p \in Nat /\ q \in Nat
        /\ j \in Int /\ m \in Int
    BY <1>2, <2>1, <2>2, <2>3, Within
  <2>5. j < m => x + q <= p
    BY <1>2, <1>3, <2>1, <2>2 DEF Inner
  <2>6. m < j => p + y <= x
    BY <1>2, <1>3, <2>1, <2>2 DEF Inner
  <2> QED BY <2>2, <2>4, <2>5, <2>6
<1>4. CASE a.k = "call"
  <2>1. a \in CallRecord
    BY <1>2, <1>4, ActIs
  <2>2. a.staged \in Nat /\ a.entry \in Nat /\ a.staged < a.entry
    BY <1>2, <1>4, <2>1 DEF CallRecord, Inner
  <2>3. PICK last1 : last1 = IF i < Len(acts) THEN acts[i + 1].at ELSE MaxDepth
    OBVIOUS
  <2>4. /\ (j = 1 /\ w \in (a.staged - a.args + 1)..a.staged) \/ (j = 2 /\ w \in a.entry..last1)
        /\ (m = 1 /\ w \in (a.staged - a.args + 1)..a.staged) \/ (m = 2 /\ w \in a.entry..last1)
    BY <1>1, <1>4, <2>3, InUse
  <2>5. w \in (a.staged - a.args + 1)..a.staged /\ w \in a.entry..last1
    BY <2>4
  <2>6. w <= a.staged /\ w >= a.entry /\ w \in Int
    BY <2>5
  <2> QED BY <2>2, <2>6
<1> QED BY <1>1, <1>3, <1>4, Spans

\* However call contexts, calls and callbacks of several sandboxes nest, no
\* parameter, staged argument or frame shares a word with another, regs.sp is
\* back at the top when the last of them ends, and a callback finds the sandbox
\* that made it (sbox/lfi.h CallContext, call_ptr, stage_stack_args).
THEOREM StacksSound == SboxSpec => []StackSound
<1>1. StackInv => StackSound
  <2> SUFFICES ASSUME StackInv, NEW s \in Sbx
               PROVE  /\ \A x, y \in Areas(s) : x # y => Words(x) \cap Words(y) = {}
                      /\ (\A i \in DOMAIN acts : acts[i].sb # s) => regsSp[s] = 0
                      /\ TopIs("call") /\ Top.sb = s => tls = s
    BY DEF StackSound
  <2>1. ASSUME NEW x \in Areas(s), NEW y \in Areas(s), x # y, NEW w \in Words(x), w \in Words(y)
        PROVE  FALSE
    <3>1. PICK i, j : x = <<i, j>> /\ i \in DOMAIN acts /\ acts[i].sb = s
      BY DEF Areas
    <3>2. PICK m, l : y = <<m, l>> /\ m \in DOMAIN acts /\ acts[m].sb = s
      BY DEF Areas
    <3>3. w \in Words(<<i, j>>) /\ w \in Words(<<m, l>>)
      BY <2>1, <3>1, <3>2
    <3>4. i \in Nat /\ m \in Nat
      BY <3>1, <3>2, Numbered DEF StackInv
    <3>5. /\ w \in Int /\ Before(acts[i]) < w /\ Before(acts[m]) < w
          /\ acts[i].k # "callback" /\ acts[m].k # "callback"
          /\ Before(acts[i]) \in Nat /\ Before(acts[m]) \in Nat
      <4>1. acts[i] \in Act /\ acts[m] \in Act
        BY <3>1, <3>2, Numbered DEF StackInv
      <4> QED BY <3>1, <3>2, <3>3, <4>1, Levels, Spans
    <3>6. CASE i < m
      <4>1. w <= Before(acts[m])
        BY <3>1, <3>2, <3>3, <3>5, <3>6, Spans
      <4> QED BY <3>5, <4>1
    <3>7. CASE m < i
      <4>1. w <= Before(acts[i])
        BY <3>1, <3>2, <3>3, <3>5, <3>7, Spans
      <4> QED BY <3>5, <4>1
    <3>8. CASE i = m
      <4>1. j # l
        BY <2>1, <3>1, <3>2, <3>8
      <4> QED BY <3>1, <3>3, <3>8, <4>1, OneApart
    <3> QED BY <3>4, <3>6, <3>7, <3>8
  <2>2. (\A i \in DOMAIN acts : acts[i].sb # s) => regsSp[s] = 0
    BY DEF StackInv, FromTop
  <2>3. TopIs("call") /\ Top.sb = s => tls = s
    <3> SUFFICES ASSUME TopIs("call"), Top.sb = s PROVE tls = s
      OBVIOUS
    <3>1. PICK n : n = Len(acts)
      OBVIOUS
    <3>2. n \in DOMAIN acts /\ n \in Nat /\ acts[n].k = "call" /\ acts[n].sb = s
      BY <3>1, Innermost DEF TopIs, Top
    <3>3. Nearest(n, n)
      BY <3>2 DEF Nearest
    <3> QED BY <3>1, <3>2, <3>3 DEF StackInv, Current
  <2> QED BY <2>1, <2>2, <2>3
<1> QED BY <1>1, StackInvariance, PTL
-----------------------------------------------------------------------------
\* Nothing but the innermost call context ends.
LEMMA Open1 ==
    ASSUME StackInv, OutInv, TopIs("scope") => ~Top.ending
    PROVE  \A i \in DOMAIN acts : acts[i].k = "scope" => ~acts[i].ending
<1> SUFFICES ASSUME NEW i \in DOMAIN acts, acts[i].k = "scope", acts[i].ending PROVE FALSE
  OBVIOUS
<1>1. i = Len(acts)
  BY DEF OutInv
<1>2. acts # <<>>
  BY Numbered DEF StackInv
<1> QED BY <1>1, <1>2 DEF TopIs, Top

\* Something begins while no call context ends.
LEMMA OutsBegin ==
    ASSUME StackInv, OutInv, TopIs("scope") => ~Top.ending, NEW a \in Act,
           Outs(a), a.k = "scope" => ~a.ending, acts' = Append(acts, a)
    PROVE  OutInv'
<1>1. PICK n : n = Len(acts)
  OBVIOUS
<1>2. n \in Nat /\ DOMAIN acts = 1..n /\ acts \in Seq(Act)
  BY <1>1, Numbered DEF StackInv, StackTypes
<1>3. /\ DOMAIN acts' = 1..(n + 1) /\ acts'[n + 1] = a
      /\ \A i \in 1..n : acts'[i] = acts[i]
  BY <1>1, <1>2
<1>4. \A i \in 1..n : Outs(acts[i]) /\ (acts[i].k = "scope" => ~acts[i].ending)
  BY <1>2, Open1 DEF OutInv
<1>5. ASSUME NEW i \in 1..(n + 1) PROVE Outs(acts'[i]) /\ (acts'[i].k = "scope" => ~acts'[i].ending)
  <2>1. CASE i = n + 1
    BY <1>3, <2>1
  <2>2. CASE i # n + 1
    <3>1. i \in 1..n
      BY <1>2, <2>2
    <3> QED BY <1>3, <1>4, <3>1
  <2> QED BY <2>1, <2>2
<1> QED BY <1>3, <1>5 DEF OutInv, Outs

\* Something ends, and the activity it was in may change.
LEMMA OutsEnd ==
    ASSUME StackInv, OutInv, acts # <<>>, acts' \in Seq(Act), Len(acts') = Len(acts) - 1,
           \A i \in 1..(Len(acts) - 1) :
              acts'[i] = acts[i] \/ (acts'[i].k = "scope" /\ Outs(acts'[i]) /\ ~acts'[i].ending)
    PROVE  OutInv'
<1>1. PICK n : n = Len(acts) - 1
  OBVIOUS
<1>2. n \in Nat /\ DOMAIN acts = 1..(n + 1) /\ DOMAIN acts' = 1..n /\ n + 1 = Len(acts)
  BY <1>1, Numbered DEF StackInv
<1>3. ASSUME NEW i \in 1..n PROVE Outs(acts'[i]) /\ (acts'[i].k = "scope" => ~acts'[i].ending)
  <2>1. i \in DOMAIN acts /\ i # Len(acts)
    BY <1>2
  <2>2. Outs(acts[i]) /\ (acts[i].k = "scope" => ~acts[i].ending)
    BY <2>1 DEF OutInv
  <2> QED BY <1>1, <2>2
<1> QED BY <1>2, <1>3 DEF OutInv, Outs

\* The innermost call context changes.
LEMMA OutsChange ==
    ASSUME StackInv, OutInv, acts # <<>>, NEW a \in Scope, Outs(a),
           acts' = [acts EXCEPT ![Len(acts)] = a]
    PROVE  OutInv'
<1>1. PICK n : n = Len(acts)
  OBVIOUS
<1>2. n \in Nat /\ DOMAIN acts = 1..n /\ acts \in Seq(Act) /\ a \in Act /\ n \in 1..n
  BY <1>1, Numbered DEF StackInv, StackTypes, Act
<1>3. acts' = [acts EXCEPT ![n] = a]
  BY <1>1
<1>4. DOMAIN acts' = 1..n /\ Len(acts') = n /\ acts'[n] = a /\ \A i \in 1..n : i # n => acts'[i] = acts[i]
  BY <1>1, <1>2, <1>3
<1>5. ASSUME NEW i \in 1..n
      PROVE  Outs(acts'[i]) /\ (acts'[i].k = "scope" /\ acts'[i].ending => i = n)
  <2>1. CASE i = n
    BY <1>4, <2>1
  <2>2. CASE i # n
    <3>1. acts'[i] = acts[i]
      BY <1>4, <2>2
    <3> QED BY <1>1, <1>2, <3>1 DEF OutInv
  <2> QED BY <2>1, <2>2
<1> QED BY <1>4, <1>5 DEF OutInv, Outs

\* finalize after the sandbox has written.
LEMMA Copies ==
    ASSUME NEW a \in Scope, Outs(a), ~a.ending, NEW f, f = FinalizeCall(a)
    PROVE  f.k = "scope" /\ Outs(f) /\ ~f.ending
<1>1. PICK w : w = Written(a)
  OBVIOUS
<1>2. /\ a.k = "scope" /\ w \in Scope /\ w.k = "scope" /\ w.finalized = a.finalized /\ ~w.ending
      /\ DOMAIN w.bufs = DOMAIN a.bufs /\ a.finalized \in BOOLEAN
      /\ \A j \in DOMAIN a.bufs :
            /\ w.bufs[j].st # "passed"
            /\ a.bufs[j].st \notin {"passed", "written"} => w.bufs[j].st # "written"
  BY <1>1, Writes DEF Scope
<1>3. a.finalized => \A j \in DOMAIN a.bufs : a.bufs[j].st \notin {"passed", "written"}
  BY <1>2 DEF Outs
<1>4. a.finalized => \A j \in DOMAIN w.bufs : w.bufs[j].st \notin {"passed", "written"}
  BY <1>2, <1>3
<1>5. Outs(w)
  BY <1>2, <1>4 DEF Outs
<1>6. PICK g : g = Finalized(w)
  OBVIOUS
<1>7. /\ g \in Scope /\ g.k = "scope" /\ g.finalized /\ ~g.ending /\ DOMAIN g.bufs = DOMAIN w.bufs
      /\ w.finalized => g = w
      /\ ~w.finalized => \A j \in DOMAIN w.bufs :
            /\ g.bufs[j].st # "written"
            /\ g.bufs[j].st = "passed" => w.bufs[j].st = "passed"
  BY <1>2, <1>6, Finalizes DEF Scope
<1>8. Outs(g)
  <2>1. CASE w.finalized
    BY <1>5, <1>7, <2>1
  <2>2. CASE ~w.finalized
    BY <1>2, <1>7, <2>2 DEF Outs
  <2> QED BY <2>1, <2>2
<1>9. f = w \/ f = g
  BY <1>1, <1>6 DEF FinalizeCall
<1> QED BY <1>2, <1>5, <1>7, <1>8, <1>9

\* One operation after the other, while call contexts serve one call each.
LEMMA OutsFinish ==
    ASSUME StackInv, OutInv, Finish
    PROVE  OutInv'
<1>1. PICK t : t = Top
  OBVIOUS
<1>2. TopIs("scope") /\ acts # <<>> /\ t.k = "scope"
  BY <1>1 DEF Finish, TopIs
<1>3. t \in Scope /\ Outs(t)
  <2>1. Len(acts) \in DOMAIN acts /\ t \in Act
    BY <1>1, <1>2, Innermost
  <2> QED BY <1>1, <1>2, <2>1, ActIs DEF OutInv, Top
<1>4. PICK f : f = Finalized(t)
  OBVIOUS
<1>5. /\ f \in Scope /\ f.finalized /\ DOMAIN f.bufs = DOMAIN t.bufs /\ t.finalized \in BOOLEAN
      /\ t.finalized => f = t
      /\ ~t.finalized => \A j \in DOMAIN t.bufs : f.bufs[j].st # "written"
  BY <1>3, <1>4, Finalizes DEF Scope
<1>6. \A j \in DOMAIN f.bufs : f.bufs[j].st # "written"
  BY <1>2, <1>3, <1>5 DEF Outs
<1>7. PICK a : a = [f EXCEPT !.ending = TRUE]
  OBVIOUS
<1>8. a \in Scope /\ a.bufs = f.bufs /\ a.finalized /\ a.ending
  BY <1>5, <1>7 DEF Scope
<1>9. Outs(a)
  BY <1>6, <1>8 DEF Outs
<1>10. acts' = [acts EXCEPT ![Len(acts)] = a]
  BY <1>1, <1>4, <1>7 DEF Finish, Changes
<1> QED BY <1>2, <1>8, <1>9, <1>10, OutsChange

\* A parameter is pushed onto a call context that has not been finalized.
LEMMA OutsPush ==
    ASSUME ~Reuse, StackInv, OutInv, NEW n \in BufSizes, NEW align \in BufAligns, NEW out \in BOOLEAN,
           Push(n, align, out)
    PROVE  OutInv'
<1>1. PICK t : t = Top
  OBVIOUS
<1>2. TopIs("scope") /\ acts # <<>> /\ t.k = "scope" /\ ~t.ending /\ ~t.finalized
  BY <1>1 DEF Push, TopIs
<1>3. t \in Scope /\ t.sb \in Sbx /\ regsSp[t.sb] \in Nat
  BY <1>1, <1>2, Innermost, ActIs
<1>4. n \in Nat /\ align \in Nat /\ align > 0
  BY SboxAssumption
<1>5. PICK p : p = RoundTo(regsSp[t.sb] + n, align)
  OBVIOUS
<1>6. p \in Nat
  <2>1. regsSp[t.sb] + n \in Nat
    BY <1>3, <1>4
  <2> QED BY <1>4, <1>5, <2>1, RoundsUp
<1>7. PICK b : b = [at |-> p, n |-> n, st |-> IF out THEN "passed" ELSE "in"]
  OBVIOUS
<1>8. b \in Param
  BY <1>4, <1>6, <1>7 DEF Param
<1>9. PICK bs : bs = Append(t.bufs, b)
  OBVIOUS
<1>10. bs \in Seq(Param)
  <2>1. t.bufs \in Seq(Param)
    BY <1>3 DEF Scope
  <2> QED BY <1>8, <1>9, <2>1
<1>11. PICK a : a = [t EXCEPT !.bufs = bs]
  OBVIOUS
<1>12. a \in Scope /\ ~a.ending /\ ~a.finalized
  BY <1>2, <1>3, <1>10, <1>11 DEF Scope
<1>13. Outs(a)
  BY <1>12 DEF Outs
<1>14. acts' = [acts EXCEPT ![Len(acts)] = a]
  BY <1>1, <1>5, <1>7, <1>9, <1>11 DEF Push, Changes
<1> QED BY <1>2, <1>12, <1>13, <1>14, OutsChange

\* A call returns: its call context has been finalized.
LEMMA OutsReturn ==
    ASSUME StackInv, OutInv, Return
    PROVE  OutInv'
<1>1. /\ acts # <<>> /\ Top.k = "call" /\ acts' \in Seq(Act) /\ Len(acts') = Len(acts) - 1
      /\ Len(acts) \in Nat
  BY Returning
<1>2. TopIs("scope") => ~Top.ending
  BY <1>1 DEF TopIs
<1>3. ASSUME NEW i \in 1..(Len(acts) - 1)
      PROVE  acts'[i] = acts[i] \/ (acts'[i].k = "scope" /\ Outs(acts'[i]) /\ ~acts'[i].ending)
  <2>1. CASE acts[i] \in Scope /\ acts'[i] = FinalizeCall(acts[i])
    <3>1. PICK a : a = acts[i]
      OBVIOUS
    <3>2. i \in DOMAIN acts /\ a.k = "scope" /\ a \in Scope
      <4>1. i \in 1..Len(acts)
        BY <1>1
      <4> QED BY <2>1, <3>1, <4>1, Numbered DEF StackInv, Scope
    <3>3. Outs(a) /\ ~a.ending
      BY <1>2, <3>1, <3>2, Open1 DEF OutInv
    <3>4. PICK f : f = FinalizeCall(a)
      OBVIOUS
    <3>5. f.k = "scope" /\ Outs(f) /\ ~f.ending
      BY <3>2, <3>3, <3>4, Copies
    <3> QED BY <2>1, <3>1, <3>4, <3>5 DEF Outs
  <2> QED BY <2>1, Returning
<1> QED BY <1>1, <1>3, OutsEnd

\* What a sandbox function wrote to an out parameter has reached the host when
\* the call context ends, if call contexts serve one call each (sbox/lfi.h
\* CallContext, finalize; with Reuse it fails).
THEOREM OutsCopied ==
    ASSUME ~Reuse
    PROVE  SboxSpec => []OutCopied
<1>1. SboxInit => OutInv
  <2>1. SboxInit => acts = <<>> /\ DOMAIN acts = {}
    BY DEF SboxInit
  <2> QED BY <2>1 DEF OutInv
<1>2. StackInv /\ OutInv /\ [SboxNext]_sboxVars => OutInv'
  <2> SUFFICES ASSUME StackInv, OutInv, [SboxNext]_sboxVars PROVE OutInv'
    OBVIOUS
  <2>1. CASE UNCHANGED sboxVars
    BY <2>1 DEF sboxVars, OutInv, Outs
  <2>2. ASSUME NEW s \in Sbx, NEW n \in {Spill(a) : a \in Args}, NEW c \in BOOLEAN, Enter(s, n, c)
        PROVE  OutInv'
    <3>1. n \in Nat /\ regsSp[s] \in Nat /\ tls \in Sbx \cup {NoSbx}
      BY Spills DEF StackInv, StackTypes
    <3>2. PICK p : p = Staged(regsSp[s], n)
      OBVIOUS
    <3>3. PICK e : e = RoundTo(p, 2) + 1
      OBVIOUS
    <3>4. PICK a : a = [k |-> "call", sb |-> s, saved |-> regsSp[s], args |-> n, staged |-> p,
                        entry |-> e, prev |-> tls, withContext |-> c]
      OBVIOUS
    <3>5. p \in Nat /\ e \in Nat
      BY <3>1, <3>2, <3>3, Stages
    <3>6. a \in Act /\ a.k = "call"
      BY <3>1, <3>4, <3>5 DEF Act, CallRecord
    <3>7. acts' = Append(acts, a) /\ (TopIs("scope") => ~Top.ending)
      BY <2>2, <3>2, <3>3, <3>4 DEF Enter, Enters
    <3>8. Outs(a) /\ (a.k = "scope" => ~a.ending)
      BY <3>6 DEF Outs
    <3> QED BY <3>6, <3>7, <3>8, OutsBegin
  <2>3. ASSUME NEW s \in Sbx, Open(s) PROVE OutInv'
    <3>1. PICK a : a = [k |-> "scope", sb |-> s, saved |-> regsSp[s], bufs |-> <<>>,
                        finalized |-> FALSE, ending |-> FALSE]
      OBVIOUS
    <3>2. regsSp[s] \in Nat /\ <<>> \in Seq(Param)
      BY DEF StackInv, StackTypes
    <3>3. a \in Act /\ ~a.ending /\ ~a.finalized
      BY <3>1, <3>2 DEF Act, Scope
    <3>4. acts' = Append(acts, a) /\ (TopIs("scope") => ~Top.ending)
      BY <2>3, <3>1 DEF Open, Enters
    <3>5. Outs(a) /\ (a.k = "scope" => ~a.ending)
      BY <3>3 DEF Outs
    <3> QED BY <3>3, <3>4, <3>5, OutsBegin
  <2>4. ASSUME NEW n \in BufSizes, NEW a \in BufAligns, NEW out \in BOOLEAN, Push(n, a, out)
        PROVE  OutInv'
    BY <2>4, OutsPush
  <2>5. ASSUME NEW d \in 0..MaxDepth, CallBack(d) PROVE OutInv'
    <3>1. PICK a : a = [k |-> "callback", sb |-> Top.sb, old |-> regsSp[Top.sb], at |-> d]
      OBVIOUS
    <3>2. TopIs("call") /\ acts # <<>> /\ d \in Nat
      BY <2>5, SboxAssumption DEF CallBack, TopIs
    <3>3. a \in Act /\ a.k = "callback"
      BY <3>1, <3>2, Innermost DEF Act, CallbackRecord
    <3>4. acts' = Append(acts, a) /\ (TopIs("scope") => ~Top.ending)
      BY <2>5, <3>1, <3>2 DEF CallBack, Enters, TopIs
    <3>5. Outs(a) /\ (a.k = "scope" => ~a.ending)
      BY <3>3 DEF Outs
    <3> QED BY <3>3, <3>4, <3>5, OutsBegin
  <2>6. CASE Close \/ CallBackEnds
    <3>1. acts # <<>> /\ acts' = SubSeq(acts, 1, Len(acts) - 1)
      BY <2>6 DEF Close, CallBackEnds, Leaves, TopIs
    <3>2. /\ acts' \in Seq(Act) /\ Len(acts') = Len(acts) - 1
          /\ \A i \in 1..(Len(acts) - 1) : acts'[i] = acts[i]
      BY <3>1, Outer
    <3> QED BY <3>1, <3>2, OutsEnd
  <2>7. CASE Finish
    BY <2>7, OutsFinish
  <2>8. CASE Return
    BY <2>8, OutsReturn
  <2> QED BY <2>1, <2>2, <2>3, <2>4, <2>5, <2>6, <2>7, <2>8 DEF SboxNext
<1>3. OutInv => OutCopied
  BY DEF OutInv, Outs, OutCopied
<1> QED BY <1>1, <1>2, <1>3, StackInvariance, PTL DEF SboxSpec

-----------------------------------------------------------------------------
(***************************************************************************)
(* The callback table: a slot leads to the function registered in it or to *)
(* none, for any number of slots, functions, host threads and callers.     *)
(*                                                                         *)
(* box->lk keeps all but one host thread away, so the proof follows the    *)
(* one slot its holder is writing: it is not marked in box->callbacks, and *)
(* all other slots are complete or zero.  A call between the two loads of  *)
(* the entry code still matches its slot unless the slot was given up.     *)
(***************************************************************************)
Writing == {"trampoline", "clear", "cleared"}
Stage == {"idle", "init", "find", "trampoline", "clear", "cleared"}
Op == [at : Stage, fn : Fn \cup {NoFn}, v : Variant, slot : 0..NSlots]
Tramp == {"plain", "struct", "zero"}
CallOf == [at : {"out", "loaded", "in"}, slot : 0..NSlots, r10 : Fn \cup {NoFn}, tr : Tramp,
           fn : Fn \cup {NoFn}, v : Tramp, stable : BOOLEAN]

TableTypes ==
    /\ callbacks \in [Slot -> Fn \cup {NoFn}] /\ target \in [Slot -> Fn \cup {NoFn}]
    /\ trampoline \in [Slot -> Tramp]
    /\ ready \in BOOLEAN /\ alias \in BOOLEAN
    /\ op \in [Host -> Op] /\ call \in [Caller -> CallOf]

\* Who is in an operation holds the lock.
Locked ==
    /\ lk \in Host \cup {NoFn}
    /\ \A h \in Host : op[h].at # "idle" <=> lk = h

\* A slot nobody writes is complete or zero; one that is being written is not
\* marked, and holds what its operation has written so far.
Complete(s) == target[s] = callbacks[s] /\ (trampoline[s] = "zero" <=> callbacks[s] = NoFn)
Distinct == \A s, u \in Slot : callbacks[s] = callbacks[u] /\ s # u => callbacks[s] = NoFn
Covered == \A s \in Slot : Complete(s) \/ \E h \in Host : op[h].at \in Writing /\ op[h].slot = s
InHand(h) ==
    /\ op[h].at \in {"init", "find", "trampoline"} => op[h].fn \in Fn
    /\ op[h].at \in Writing => op[h].slot \in Slot /\ callbacks[op[h].slot] = NoFn
    /\ op[h].at = "trampoline" => Found(op[h].fn) = {} /\ target[op[h].slot] = op[h].fn
    /\ op[h].at = "cleared" => target[op[h].slot] = NoFn
Marks == Distinct /\ Covered /\ \A h \in Host : InHand(h)

\* What init_cb holds after each of its steps.
Resources ==
    /\ ready => held = 2..InitSteps /\ alias /\ \A h \in Host : op[h].at # "init"
    /\ ~ready => /\ \A h \in Host : op[h].at \in {"idle", "init"}
                 /\ \A s \in Slot : callbacks[s] = NoFn
                 /\ \E n \in 0..InitSteps : held = 1..n /\ (alias <=> n >= AliasMap) /\ (lk = NoFn => n = 0)

\* A call that has loaded the target of a slot that is still registered.
Loaded ==
    \A t \in Caller :
        /\ call[t].at = "loaded" => call[t].slot \in Slot
        /\ call[t].stable => call[t].fn # NoFn /\ call[t].r10 = call[t].fn /\ call[t].v # "zero"
        /\ call[t].at = "loaded" /\ call[t].stable =>
              /\ callbacks[call[t].slot] = call[t].fn
              /\ trampoline[call[t].slot] = call[t].v
        /\ call[t].at = "in" /\ call[t].stable => call[t].tr = call[t].v

TInv == TableTypes /\ Locked /\ Marks /\ Resources /\ Loaded

-----------------------------------------------------------------------------

\* cbfreeslot finds a slot when there is one.
LEMMA LeastIs ==
    ASSUME NEW S \in SUBSET Slot, S # {}
    PROVE  Least(S) \in S
<1> DEFINE R == OpToRel(<, Nat)
<1>1. IsWellFoundedOn(R, Nat)
  BY NatLessThanWellFounded
<1>2. \A u, s \in Nat : u < s => <<u, s>> \in R
  BY DEF OpToRel
<1>3. S \subseteq Nat
  BY TableAssumption DEF Slot
<1> HIDE DEF R
<1>4. PICK s \in S : \A u \in S : ~ (<<u, s>> \in R)
  BY <1>1, <1>3, WFMin
<1>5. \A u \in S : s <= u
  <2>1. \A u \in S : u \in Nat /\ s \in Nat /\ ~(u < s)
    BY <1>2, <1>3, <1>4
  <2> QED
    BY <2>1
<1> QED
  BY <1>5 DEF Least

\* Types.
LEMMA TypesKept ==
    ASSUME TInv, [TableNext]_tableVars
    PROVE  TableTypes'
<1> USE TableAssumption DEF TInv, TableTypes
<1>1. ASSUME NEW h \in Host, NEW f \in Fn, NEW v \in Variant, Register(h, f, v) PROVE TableTypes'
  <2>1. [at |-> IF ready THEN "find" ELSE "init", fn |-> f, v |-> v, slot |-> 0] \in Op
    BY DEF Op, Stage
  <2> QED
    BY <1>1, <2>1 DEF Register
<1>2. ASSUME NEW h \in Host, NEW f \in Fn, Unregister(h, f) PROVE TableTypes'
  <2>1. PICK s \in Slot : /\ callbacks[s] = f /\ callbacks' = [callbacks EXCEPT ![s] = NoFn]
                          /\ op' = [op EXCEPT ![h] = [at |-> "clear", fn |-> f, v |-> "plain", slot |-> s]]
                          /\ call' = Unstable(s)
    BY <1>2 DEF Unregister, Found
  <2>2. [at |-> "clear", fn |-> f, v |-> "plain", slot |-> s] \in Op
    BY DEF Op, Stage, Variant, Slot
  <2>3. ASSUME NEW t \in Caller PROVE call'[t] \in CallOf
    <3>1. call[t] \in CallOf
      OBVIOUS
    <3>2. [call[t] EXCEPT !.stable = FALSE] \in CallOf
      BY <3>1 DEF CallOf
    <3>3. call'[t] = IF call[t].slot = s THEN [call[t] EXCEPT !.stable = FALSE] ELSE call[t]
      BY <2>1 DEF Unstable
    <3> QED
      BY <3>1, <3>2, <3>3
  <2>4. call' \in [Caller -> CallOf]
    BY <2>1, <2>3 DEF Unstable
  <2>5. op' \in [Host -> Op] /\ callbacks' \in [Slot -> Fn \cup {NoFn}]
    BY <2>1, <2>2
  <2> QED
    BY <1>2, <2>4, <2>5 DEF Unregister
<1>3. ASSUME NEW h \in Host, InitStep(h) PROVE TableTypes'
  <2>1. /\ op' = [op EXCEPT ![h].at = "find"] \/ op' = [op EXCEPT ![h] = NoOp] \/ op' = op
        /\ alias' \in BOOLEAN /\ ready' \in BOOLEAN
    BY <1>3 DEF InitStep, Unlock
  <2>2. [op[h] EXCEPT !.at = "find"] \in Op /\ NoOp \in Op
    BY DEF Op, Stage, NoOp, Variant
  <2>3. op' \in [Host -> Op]
    BY <2>1, <2>2
  <2> QED
    BY <1>3, <2>1, <2>3 DEF InitStep
<1>4. ASSUME NEW h \in Host, FindDone(h) PROVE TableTypes'
  <2>1. NoOp \in Op
    BY DEF Op, Stage, NoOp, Variant
  <2> QED
    BY <1>4, <2>1 DEF FindDone, Unlock
<1>5. ASSUME NEW h \in Host, WriteTarget(h) PROVE TableTypes'
  <2>1. Least(FreeSlots) \in Slot /\ callbacks[Least(FreeSlots)] = NoFn
    <3>1. FreeSlots # {} /\ FreeSlots \subseteq Slot
      BY <1>5 DEF WriteTarget, FreeSlots, Found
    <3>2. Least(FreeSlots) \in FreeSlots
      BY <3>1, LeastIs
    <3> QED
      BY <3>2 DEF FreeSlots, Found
  <2>2. [op[h] EXCEPT !.at = "trampoline", !.slot = Least(FreeSlots)] \in Op
    <3>1. Least(FreeSlots) \in 0..NSlots /\ op[h] \in Op
      BY <2>1 DEF Slot
    <3> QED
      BY <3>1 DEF Op, Stage
  <2>3. op' \in [Host -> Op]
    BY <1>5, <2>2 DEF WriteTarget
  <2>4. op[h].fn \in Fn \cup {NoFn}
    BY DEF Op
  <2>5. target' \in [Slot -> Fn \cup {NoFn}]
    BY <1>5, <2>1, <2>4 DEF WriteTarget
  <2> QED
    BY <1>5, <2>3, <2>5 DEF WriteTarget
<1>6. ASSUME NEW h \in Host, WriteTrampoline(h) PROVE TableTypes'
  <2>1. NoOp \in Op /\ op[h].fn \in Fn \cup {NoFn} /\ op[h].v \in Tramp
    BY DEF Op, Stage, NoOp, Variant, Tramp
  <2> QED
    BY <1>6, <2>1 DEF WriteTrampoline, Unlock
<1>7. ASSUME NEW h \in Host, ClearTarget(h) PROVE TableTypes'
  <2>1. [op[h] EXCEPT !.at = "cleared"] \in Op
    BY DEF Op, Stage
  <2> QED
    BY <1>7, <2>1 DEF ClearTarget
<1>8. ASSUME NEW h \in Host, ClearTrampoline(h) PROVE TableTypes'
  <2>1. "zero" \in Tramp /\ NoOp \in Op
    BY DEF Op, Stage, NoOp, Variant, Tramp
  <2> QED
    BY <1>8, <2>1 DEF ClearTrampoline, Unlock
<1>9. ASSUME NEW t \in Caller, NEW s \in Slot, LoadTarget(t, s) PROVE TableTypes'
  <2>1. [at |-> "loaded", slot |-> s, r10 |-> target[s], tr |-> "zero",
         fn |-> callbacks[s], v |-> trampoline[s], stable |-> callbacks[s] # NoFn] \in CallOf
    BY DEF CallOf, Tramp, Slot
  <2> QED
    BY <1>9, <2>1 DEF LoadTarget
<1>10. ASSUME NEW t \in Caller, Jump(t) PROVE TableTypes'
  <2>1. trampoline[call[t].slot] \in Tramp /\ call[t] \in CallOf
    BY <1>10 DEF Jump, Loaded
  <2>2. [call[t] EXCEPT !.at = "in", !.tr = trampoline[call[t].slot]] \in CallOf
    BY <2>1 DEF CallOf
  <2> QED
    BY <1>10, <2>2 DEF Jump
<1>11. ASSUME NEW t \in Caller, Leave(t) PROVE TableTypes'
  <2>1. NoCall \in CallOf
    BY DEF CallOf, NoCall, Tramp
  <2> QED
    BY <1>11, <2>1 DEF Leave
<1>12. CASE UNCHANGED tableVars
  BY <1>12 DEF tableVars
<1> HIDE DEF TInv, TableTypes
<1> QED
  BY <1>1, <1>2, <1>3, <1>4, <1>5, <1>6, <1>7, <1>8, <1>9, <1>10, <1>11, <1>12 DEF TableNext

\* box->lk admits one host thread.
LEMMA LockKept ==
    ASSUME TInv, [TableNext]_tableVars
    PROVE  Locked'
<1> USE TableAssumption DEF TInv, TableTypes, Locked, Op, Slot
<1>1. ASSUME NEW h \in Host, NEW f \in Fn, NEW v \in Variant, Register(h, f, v) PROVE Locked'
  BY <1>1 DEF Register
<1>2. ASSUME NEW h \in Host, NEW f \in Fn, Unregister(h, f) PROVE Locked'
  <2>1. PICK s \in Slot : /\ callbacks[s] = f /\ callbacks' = [callbacks EXCEPT ![s] = NoFn]
                          /\ op' = [op EXCEPT ![h] = [at |-> "clear", fn |-> f, v |-> "plain", slot |-> s]]
                          /\ call' = Unstable(s)
    BY <1>2 DEF Unregister, Found
  <2> QED
    BY <1>2, <2>1 DEF Unregister
<1>3. ASSUME NEW h \in Host, InitStep(h) PROVE Locked'
  BY <1>3 DEF InitStep, Unlock, NoOp
<1>4. ASSUME NEW h \in Host, FindDone(h) PROVE Locked'
  BY <1>4 DEF FindDone, Unlock, NoOp
<1>5. ASSUME NEW h \in Host, WriteTarget(h) PROVE Locked'
  BY <1>5 DEF WriteTarget
<1>6. ASSUME NEW h \in Host, WriteTrampoline(h) PROVE Locked'
  BY <1>6 DEF WriteTrampoline, Unlock, NoOp
<1>7. ASSUME NEW h \in Host, ClearTarget(h) PROVE Locked'
  BY <1>7 DEF ClearTarget
<1>8. ASSUME NEW h \in Host, ClearTrampoline(h) PROVE Locked'
  BY <1>8 DEF ClearTrampoline, Unlock, NoOp
<1>9. CASE \E t \in Caller : (\E s \in Slot : LoadTarget(t, s)) \/ Jump(t) \/ Leave(t)
  BY <1>9 DEF LoadTarget, Jump, Leave
<1>10. CASE UNCHANGED tableVars
  BY <1>10 DEF tableVars
<1> HIDE DEF TInv, TableTypes, Locked, Op, Slot
<1> QED
  BY <1>1, <1>2, <1>3, <1>4, <1>5, <1>6, <1>7, <1>8, <1>9, <1>10 DEF TableNext

\* The slot in hand is the only one that may be neither complete nor zero.
LEMMA MarksKept ==
    ASSUME TInv, [TableNext]_tableVars
    PROVE  Marks'
<1> USE TableAssumption
<1>a. Distinct /\ Covered /\ \A h \in Host : InHand(h)
  BY DEF TInv, Marks
<1>b. TableTypes /\ Locked
  BY DEF TInv
\* The holder of the lock is the only one in an operation.
<1>c. ASSUME NEW h \in Host, op[h].at # "idle"
      PROVE  \A g \in Host \ {h} : op[g].at = "idle"
  BY <1>b, <1>c DEF Locked
<1>d. ASSUME lk = NoFn
      PROVE  \A g \in Host : op[g].at = "idle"
  BY <1>b, <1>d DEF Locked
\* A step that leaves the slots alone and whose operation, if it goes on, is
\* about to look for a slot.
<1>e. ASSUME NEW h \in Host, UNCHANGED <<callbacks, target, trampoline>>,
             \A g \in Host \ {h} : op[g].at = "idle" /\ op'[g] = op[g],
             op[h].at \notin Writing,
             op'[h].at \in {"idle", "init", "find"}, op'[h].at # "idle" => op'[h].fn \in Fn
      PROVE  Marks'
  <2>1. \A s \in Slot : Complete(s)
    BY <1>a, <1>e DEF Covered, Writing
  <2>2. Distinct' /\ Covered'
    BY <1>a, <1>e, <2>1 DEF Distinct, Covered, Complete
  <2>3. ASSUME NEW g \in Host PROVE op'[g].at \in {"idle", "init", "find"} /\ (op'[g].at # "idle" => op'[g].fn \in Fn)
    BY <1>e
  <2>4. ASSUME NEW g \in Host PROVE InHand(g)'
    BY <2>3 DEF InHand, Writing
  <2> QED
    BY <2>2, <2>4 DEF Marks
\* Nobody is in an operation that writes.
<1>f. ASSUME NEW g \in Host, op'[g].at = "idle" PROVE InHand(g)'
  BY <1>f DEF InHand, Writing
<1>1. ASSUME NEW h \in Host, NEW f \in Fn, NEW v \in Variant, Register(h, f, v) PROVE Marks'
  <2>1. op[h].at = "idle" /\ UNCHANGED <<callbacks, target, trampoline>> /\ \A g \in Host : op[g].at = "idle"
    BY <1>1, <1>d DEF Register
  <2>2. \A g \in Host \ {h} : op'[g] = op[g]
    BY <1>1, <1>b DEF Register, TableTypes
  <2>3. op'[h].at \in {"init", "find"} /\ op'[h].fn = f
    BY <1>1, <1>b DEF Register, TableTypes
  <2> QED
    BY <1>e, <2>1, <2>2, <2>3 DEF Writing
<1>2. ASSUME NEW h \in Host, NEW f \in Fn, Unregister(h, f) PROVE Marks'
  <2>1. PICK s \in Slot : /\ callbacks[s] = f /\ callbacks' = [callbacks EXCEPT ![s] = NoFn]
                          /\ op' = [op EXCEPT ![h] = [at |-> "clear", fn |-> f, v |-> "plain", slot |-> s]]
    BY <1>2 DEF Unregister, Found
  <2>2. \A g \in Host \ {h} : op[g].at = "idle" /\ op'[g] = op[g]
    BY <1>2, <1>b, <1>d, <2>1 DEF Unregister, TableTypes
  <2>3. op'[h].at = "clear" /\ op'[h].slot = s /\ UNCHANGED <<target, trampoline>>
    BY <1>2, <1>b, <2>1 DEF Unregister, TableTypes
  <2>4. \A u \in Slot : callbacks'[u] = IF u = s THEN NoFn ELSE callbacks[u]
    BY <1>b, <2>1 DEF TableTypes
  <2>5. Distinct'
    BY <1>a, <2>4 DEF Distinct
  <2>6. \A u \in Slot : Complete(u)
    BY <1>2, <1>a, <1>d DEF Unregister, Covered, Writing
  <2>7. Covered'
    BY <2>3, <2>4, <2>6 DEF Covered, Complete, Writing
  <2>8. InHand(h)'
    BY <2>3, <2>4 DEF InHand, Writing
  <2>9. \A g \in Host \ {h} : InHand(g)'
    BY <1>f, <2>2
  <2> QED
    BY <2>5, <2>7, <2>8, <2>9 DEF Marks
<1>3. ASSUME NEW h \in Host, InitStep(h) PROVE Marks'
  <2>1. op[h].at = "init" /\ UNCHANGED <<callbacks, target, trampoline>> /\ op[h].fn \in Fn
    BY <1>3, <1>a DEF InitStep, InHand
  <2>2. op' = [op EXCEPT ![h].at = "find"] \/ op' = [op EXCEPT ![h] = NoOp] \/ op' = op
    BY <1>3 DEF InitStep, Unlock
  <2>3. \A g \in Host \ {h} : op[g].at = "idle" /\ op'[g] = op[g]
    BY <1>b, <1>c, <2>1, <2>2 DEF TableTypes
  <2>4. op'[h].at \in {"idle", "init", "find"} /\ (op'[h].at # "idle" => op'[h].fn \in Fn)
    BY <1>b, <2>1, <2>2 DEF TableTypes, Op, NoOp
  <2> QED
    BY <1>e, <2>1, <2>3, <2>4 DEF Writing
<1>4. ASSUME NEW h \in Host, FindDone(h) PROVE Marks'
  <2>1. op[h].at = "find" /\ UNCHANGED <<callbacks, target, trampoline>> /\ op' = [op EXCEPT ![h] = NoOp]
    BY <1>4 DEF FindDone, Unlock
  <2>2. \A g \in Host \ {h} : op[g].at = "idle" /\ op'[g] = op[g]
    BY <1>b, <1>c, <2>1 DEF TableTypes
  <2>3. op'[h].at = "idle"
    BY <1>b, <2>1 DEF TableTypes, NoOp
  <2> QED
    BY <1>e, <2>1, <2>2, <2>3 DEF Writing
<1>5. ASSUME NEW h \in Host, WriteTarget(h) PROVE Marks'
  <2> DEFINE s == Least(FreeSlots)
  <2>1. s \in Slot /\ callbacks[s] = NoFn
    <3>1. FreeSlots # {} /\ FreeSlots \subseteq Slot
      BY <1>5 DEF WriteTarget, FreeSlots, Found
    <3> QED
      BY <3>1, LeastIs DEF FreeSlots, Found
  <2>2. op[h].at = "find" /\ op[h].fn \in Fn /\ \A u \in Slot : callbacks[u] # op[h].fn
    BY <1>5, <1>a DEF WriteTarget, InHand, Found
  <2>3. /\ op' = [op EXCEPT ![h].at = "trampoline", ![h].slot = s]
        /\ target' = [target EXCEPT ![s] = op[h].fn] /\ UNCHANGED <<callbacks, trampoline>>
    BY <1>5 DEF WriteTarget
  <2> HIDE DEF s
  <2>4. op'[h].at = "trampoline" /\ op'[h].slot = s /\ op'[h].fn = op[h].fn
    BY <1>b, <2>3 DEF TableTypes, Op
  <2>5. \A g \in Host \ {h} : op[g].at = "idle" /\ op'[g] = op[g]
    BY <1>b, <1>c, <2>2, <2>3 DEF TableTypes
  <2>6. \A u \in Slot : target'[u] = IF u = s THEN op[h].fn ELSE target[u]
    BY <1>b, <2>3 DEF TableTypes
  <2>7. \A u \in Slot : Complete(u)
    BY <1>a, <2>2, <2>5 DEF Covered, Writing
  <2>8. Distinct' /\ Covered'
    <3>1. Distinct'
      BY <1>a, <2>3 DEF Distinct
    <3>2. \A u \in Slot \ {s} : Complete(u)'
      BY <2>3, <2>6, <2>7 DEF Complete
    <3> QED
      BY <2>4, <3>1, <3>2 DEF Covered, Writing
  <2>9. InHand(h)'
    <3>1. target'[s] = op[h].fn /\ callbacks'[s] = NoFn
      BY <2>1, <2>3, <2>6
    <3>2. \A u \in Slot : callbacks'[u] # op[h].fn
      BY <2>2, <2>3
    <3> QED
      BY <2>1, <2>2, <2>4, <3>1, <3>2 DEF InHand, Writing, Found
  <2>10. \A g \in Host \ {h} : InHand(g)'
    BY <1>f, <2>5
  <2> QED
    BY <2>8, <2>9, <2>10 DEF Marks
<1>6. ASSUME NEW h \in Host, WriteTrampoline(h) PROVE Marks'
  <2> DEFINE s == op[h].slot
  <2>1. /\ s \in Slot /\ op[h].fn \in Fn /\ target[s] = op[h].fn
        /\ op[h].at = "trampoline" /\ \A u \in Slot : callbacks[u] # op[h].fn
    BY <1>6, <1>a DEF WriteTrampoline, InHand, Writing, Found
  <2>2. op[h].v # "zero"
    BY <1>b DEF TableTypes, Op, Variant
  <2>3. /\ trampoline' = [trampoline EXCEPT ![s] = op[h].v] /\ callbacks' = [callbacks EXCEPT ![s] = op[h].fn]
        /\ op' = [op EXCEPT ![h] = NoOp] /\ UNCHANGED target
    BY <1>6 DEF WriteTrampoline, Unlock
  <2>4. \A u \in Slot : /\ callbacks'[u] = IF u = s THEN op[h].fn ELSE callbacks[u]
                        /\ trampoline'[u] = IF u = s THEN op[h].v ELSE trampoline[u]
    BY <1>b, <2>3 DEF TableTypes
  <2>5. \A g \in Host : op'[g].at = "idle"
    BY <1>b, <1>c, <2>1, <2>3 DEF TableTypes, NoOp
  <2>6. \A u \in Slot \ {s} : Complete(u)
    BY <1>a, <1>c, <2>1 DEF Covered, Writing
  <2>7. Distinct'
    BY <1>a, <2>1, <2>4 DEF Distinct
  <2>8. Covered'
    BY <2>1, <2>2, <2>3, <2>4, <2>6 DEF Covered, Complete
  <2> QED
    BY <1>f, <2>5, <2>7, <2>8 DEF Marks
<1>7. ASSUME NEW h \in Host, ClearTarget(h) PROVE Marks'
  <2> DEFINE s == op[h].slot
  <2>1. s \in Slot /\ callbacks[s] = NoFn /\ op[h].at = "clear" /\ UNCHANGED <<callbacks, trampoline>>
    BY <1>7, <1>a DEF ClearTarget, InHand, Writing
  <2>2. op' = [op EXCEPT ![h].at = "cleared"] /\ target' = [target EXCEPT ![s] = NoFn]
    BY <1>7 DEF ClearTarget
  <2>3. op'[h].at = "cleared" /\ op'[h].slot = s
    BY <1>b, <2>2 DEF TableTypes, Op
  <2>4. \A g \in Host \ {h} : op[g].at = "idle" /\ op'[g] = op[g]
    BY <1>b, <1>c, <2>1, <2>2 DEF TableTypes
  <2>5. \A u \in Slot : target'[u] = IF u = s THEN NoFn ELSE target[u]
    BY <1>b, <2>2 DEF TableTypes
  <2>6. \A u \in Slot \ {s} : Complete(u)
    BY <1>a, <2>1, <2>4 DEF Covered, Writing
  <2>7. Distinct' /\ Covered'
    BY <1>a, <2>1, <2>3, <2>5, <2>6 DEF Distinct, Covered, Complete, Writing
  <2>8. InHand(h)'
    BY <2>1, <2>3, <2>5 DEF InHand, Writing
  <2>9. \A g \in Host \ {h} : InHand(g)'
    BY <1>f, <2>4
  <2> QED
    BY <2>7, <2>8, <2>9 DEF Marks
<1>8. ASSUME NEW h \in Host, ClearTrampoline(h) PROVE Marks'
  <2> DEFINE s == op[h].slot
  <2>1. /\ s \in Slot /\ callbacks[s] = NoFn /\ target[s] = NoFn
        /\ op[h].at = "cleared" /\ UNCHANGED <<callbacks, target>>
    BY <1>8, <1>a DEF ClearTrampoline, InHand, Writing
  <2>2. op' = [op EXCEPT ![h] = NoOp] /\ trampoline' = [trampoline EXCEPT ![s] = "zero"]
    BY <1>8 DEF ClearTrampoline, Unlock
  <2>3. \A g \in Host : op'[g].at = "idle"
    BY <1>b, <1>c, <2>1, <2>2 DEF TableTypes, NoOp
  <2>4. \A u \in Slot : trampoline'[u] = IF u = s THEN "zero" ELSE trampoline[u]
    BY <1>b, <2>2 DEF TableTypes
  <2>5. \A u \in Slot \ {s} : Complete(u)
    BY <1>a, <1>c, <2>1 DEF Covered, Writing
  <2>6. Distinct' /\ Covered'
    BY <1>a, <2>1, <2>4, <2>5 DEF Distinct, Covered, Complete
  <2> QED
    BY <1>f, <2>3, <2>6 DEF Marks
<1>9. CASE UNCHANGED <<callbacks, target, trampoline, op>>
  BY <1>a, <1>9 DEF Marks, Distinct, Covered, InHand, Complete, Found
<1>10. ASSUME NEW t \in Caller, (\E s \in Slot : LoadTarget(t, s)) \/ Jump(t) \/ Leave(t) PROVE Marks'
  BY <1>9, <1>10 DEF LoadTarget, Jump, Leave
<1> QED
  BY <1>1, <1>2, <1>3, <1>4, <1>5, <1>6, <1>7, <1>8, <1>9, <1>10 DEF TableNext, tableVars

\* Each step of init_cb adds one resource, and a failure gives all of them back.
LEMMA ResourcesKept ==
    ASSUME TInv, [TableNext]_tableVars
    PROVE  Resources'
<1> USE TableAssumption DEF TInv, TableTypes, Locked, Marks, Writing, Resources, Op, Slot
<1>1. ASSUME NEW h \in Host, NEW f \in Fn, NEW v \in Variant, Register(h, f, v) PROVE Resources'
  BY <1>1 DEF Register
<1>2. ASSUME NEW h \in Host, NEW f \in Fn, Unregister(h, f) PROVE Resources'
  <2>1. PICK s \in Slot : /\ callbacks[s] = f /\ callbacks' = [callbacks EXCEPT ![s] = NoFn]
                          /\ op' = [op EXCEPT ![h] = [at |-> "clear", fn |-> f, v |-> "plain", slot |-> s]]
                          /\ call' = Unstable(s)
    BY <1>2 DEF Unregister, Found
  <2> QED
    BY <1>2, <2>1 DEF Unregister
<1>3. ASSUME NEW h \in Host, InitStep(h) PROVE Resources'
  <2>1. ~ready /\ lk = h /\ op[h].at = "init" /\ \A g \in Host \ {h} : op[g].at = "idle"
    BY <1>3 DEF InitStep
  <2>2. PICK n \in 0..InitSteps : held = 1..n /\ (alias <=> n >= AliasMap)
    BY <2>1
  <2>3. NextStep = n + 1 /\ n \in Nat /\ InitSteps \in Nat
    <3>1. n \in Nat /\ InitSteps \in Nat
      OBVIOUS
    <3>2. Cardinality(1..n) = IF 1 > n THEN 0 ELSE n - 1 + 1
      BY <3>1, FS_Interval
    <3> QED
      BY <2>2, <3>1, <3>2 DEF NextStep
  <2>4. CASE /\ NextStep <= InitSteps /\ held' = held \cup {NextStep}
             /\ alias' = (alias \/ NextStep = AliasMap) /\ UNCHANGED <<ready, lk, op>>
    <3>1. held' = 1..(n + 1) /\ n + 1 \in 0..InitSteps
      BY <2>2, <2>3, <2>4
    <3>2. alias' <=> n + 1 >= AliasMap
      <4>1. CASE alias
        <5>1. n >= AliasMap
          BY <2>2, <4>1
        <5>2. alias'
          BY <2>4, <4>1
        <5> QED
          BY <2>3, <5>1, <5>2 DEF AliasMap
      <4>2. CASE ~alias
        <5>1. ~(n >= AliasMap)
          BY <2>2, <4>2
        <5>2. alias' <=> NextStep = AliasMap
          BY <2>4, <4>2
        <5> QED
          BY <2>3, <5>1, <5>2 DEF AliasMap
      <4> QED
        BY <4>1, <4>2
    <3>3. UNCHANGED callbacks /\ ~ready' /\ lk' # NoFn /\ \A g \in Host : op'[g].at \in {"idle", "init"}
      BY <1>3, <2>1, <2>4 DEF InitStep
    <3> QED
      BY <2>1, <3>1, <3>2, <3>3
  <2>5. CASE /\ NextStep <= InitSteps /\ held' = held \ Release(NextStep)
             /\ alias' = FALSE /\ lk' = NoFn /\ op' = [op EXCEPT ![h] = NoOp] /\ UNCHANGED ready
    <3>1. held' = 1..0 /\ ~(0 >= AliasMap)
      BY <2>2, <2>3, <2>5 DEF Release, Fd, AliasMap, CodeMap
    <3>2. UNCHANGED callbacks /\ ~ready' /\ \A g \in Host : op'[g].at = "idle"
      BY <1>3, <2>1, <2>5 DEF InitStep, NoOp
    <3> QED
      BY <2>1, <2>5, <3>1, <3>2
  <2>6. CASE NextStep = InitSteps + 1
    <3>1. ready' /\ held' = held \ {Fd} /\ op' = [op EXCEPT ![h].at = "find"] /\ alias' = alias
      BY <1>3, <2>6 DEF InitStep
    <3>2. held' = 2..InitSteps /\ alias'
      BY <2>2, <2>3, <2>6, <3>1 DEF Fd, AliasMap
    <3> QED
      BY <2>1, <3>1, <3>2
  <2> QED
    BY <1>3, <2>4, <2>5, <2>6 DEF InitStep, Unlock
<1>4. ASSUME NEW h \in Host, FindDone(h) PROVE Resources'
  BY <1>4 DEF FindDone, Unlock, NoOp
<1>5. ASSUME NEW h \in Host, WriteTarget(h) PROVE Resources'
  <2>1. ready /\ op'[h].at = "trampoline" /\ UNCHANGED <<ready, held, alias>>
    BY <1>5 DEF WriteTarget
  <2>2. \A g \in Host : op'[g].at # "init"
    BY <1>5, <2>1 DEF WriteTarget
  <2> QED
    BY <2>1, <2>2
<1>6. ASSUME NEW h \in Host, WriteTrampoline(h) PROVE Resources'
  BY <1>6 DEF WriteTrampoline, Unlock, NoOp
<1>7. ASSUME NEW h \in Host, ClearTarget(h) PROVE Resources'
  BY <1>7 DEF ClearTarget
<1>8. ASSUME NEW h \in Host, ClearTrampoline(h) PROVE Resources'
  BY <1>8 DEF ClearTrampoline, Unlock, NoOp
<1>9. CASE \E t \in Caller : (\E s \in Slot : LoadTarget(t, s)) \/ Jump(t) \/ Leave(t)
  BY <1>9 DEF LoadTarget, Jump, Leave
<1>10. CASE UNCHANGED tableVars
  BY <1>10 DEF tableVars
<1> HIDE DEF TInv, TableTypes, Locked, Marks, Writing, Resources, Op, Slot
<1> QED
  BY <1>1, <1>2, <1>3, <1>4, <1>5, <1>6, <1>7, <1>8, <1>9, <1>10 DEF TableNext

\* A registered slot does not change under a call that is between its two loads.
LEMMA LoadedKept ==
    ASSUME TInv, [TableNext]_tableVars
    PROVE  Loaded'
<1> USE TableAssumption DEF TInv, TableTypes, Locked, Marks, Distinct, Covered, InHand, Complete, Writing, Loaded, Op, Slot, CallOf
<1>1. ASSUME NEW h \in Host, NEW f \in Fn, NEW v \in Variant, Register(h, f, v) PROVE Loaded'
  BY <1>1 DEF Register
<1>2. ASSUME NEW h \in Host, NEW f \in Fn, Unregister(h, f) PROVE Loaded'
  <2>1. PICK s \in Slot : /\ callbacks[s] = f /\ callbacks' = [callbacks EXCEPT ![s] = NoFn]
                          /\ op' = [op EXCEPT ![h] = [at |-> "clear", fn |-> f, v |-> "plain", slot |-> s]]
                          /\ call' = Unstable(s)
    BY <1>2 DEF Unregister, Found
  <2> QED
    BY <1>2, <2>1 DEF Unregister, Unstable
<1>3. ASSUME NEW h \in Host, InitStep(h) PROVE Loaded'
  BY <1>3 DEF InitStep, Unlock, NoOp
<1>4. ASSUME NEW h \in Host, FindDone(h) PROVE Loaded'
  BY <1>4 DEF FindDone, Unlock, NoOp
<1>5. ASSUME NEW h \in Host, WriteTarget(h) PROVE Loaded'
  <2>1. Least(FreeSlots) \in Slot /\ callbacks[Least(FreeSlots)] = NoFn
    <3>1. FreeSlots # {} /\ FreeSlots \subseteq Slot
      BY <1>5 DEF WriteTarget, FreeSlots, Found
    <3>2. Least(FreeSlots) \in FreeSlots
      BY <3>1, LeastIs
    <3> QED
      BY <3>2 DEF FreeSlots, Found
  <2> QED
    BY <1>5, <2>1 DEF WriteTarget
<1>6. ASSUME NEW h \in Host, WriteTrampoline(h) PROVE Loaded'
  BY <1>6 DEF WriteTrampoline, Unlock, NoOp
<1>7. ASSUME NEW h \in Host, ClearTarget(h) PROVE Loaded'
  BY <1>7 DEF ClearTarget
<1>8. ASSUME NEW h \in Host, ClearTrampoline(h) PROVE Loaded'
  BY <1>8 DEF ClearTrampoline, Unlock, NoOp
<1>9. ASSUME NEW t \in Caller, NEW s \in Slot, LoadTarget(t, s) PROVE Loaded'
  <2>1. callbacks[s] # NoFn => target[s] = callbacks[s] /\ trampoline[s] # "zero"
    OBVIOUS
  <2>2. call'[t] = [at |-> "loaded", slot |-> s, r10 |-> target[s], tr |-> "zero",
                   fn |-> callbacks[s], v |-> trampoline[s], stable |-> callbacks[s] # NoFn]
    BY <1>9 DEF LoadTarget
  <2>3. UNCHANGED <<callbacks, trampoline>> /\ \A u \in Caller \ {t} : call'[u] = call[u]
    BY <1>9 DEF LoadTarget
  <2>4. ASSUME NEW u \in Caller PROVE
        /\ call'[u].at = "loaded" => call'[u].slot \in Slot
        /\ call'[u].stable => call'[u].fn # NoFn /\ call'[u].r10 = call'[u].fn /\ call'[u].v # "zero"
        /\ call'[u].at = "loaded" /\ call'[u].stable =>
              callbacks'[call'[u].slot] = call'[u].fn /\ trampoline'[call'[u].slot] = call'[u].v
        /\ call'[u].at = "in" /\ call'[u].stable => call'[u].tr = call'[u].v
    <3>1. CASE u = t
      <4>1. /\ call'[u].at = "loaded" /\ call'[u].slot = s /\ call'[u].r10 = target[s]
            /\ call'[u].fn = callbacks[s] /\ call'[u].v = trampoline[s] /\ (call'[u].stable = (callbacks[s] # NoFn))
        BY <2>2, <3>1 DEF TableTypes
      <4> QED
        BY <2>1, <2>3, <4>1
    <3>2. CASE u # t
      BY <2>3, <3>2
    <3> QED
      BY <3>1, <3>2
  <2> QED
    BY <2>4
<1>10. ASSUME NEW t \in Caller, Jump(t) PROVE Loaded'
  BY <1>10 DEF Jump
<1>11. ASSUME NEW t \in Caller, Leave(t) PROVE Loaded'
  BY <1>11 DEF Leave, NoCall
<1>12. CASE UNCHANGED tableVars
  BY <1>12 DEF tableVars
<1> HIDE DEF TInv, TableTypes, Locked, Marks, Distinct, Covered, InHand, Complete, Writing, Loaded, Op, Slot, CallOf
<1> QED
  BY <1>1, <1>2, <1>3, <1>4, <1>5, <1>6, <1>7, <1>8, <1>9, <1>10, <1>11, <1>12 DEF TableNext

-----------------------------------------------------------------------------
\* A new box has no table.
LEMMA Empty == TableInit => TInv
<1> SUFFICES ASSUME TableInit PROVE TInv
  OBVIOUS
<1> USE TableAssumption DEF TableInit, NoOp, NoCall
<1>1. TableTypes /\ Locked
  <2>1. NoOp \in Op /\ NoCall \in CallOf /\ "zero" \in Tramp
    BY DEF Op, Stage, Variant, CallOf, Tramp
  <2> QED
    BY <2>1 DEF TableTypes, Locked
<1>2. Marks /\ Loaded
  BY DEF Marks, Distinct, Covered, InHand, Complete, Loaded, Writing
<1>3. Resources
  <2>1. held = 1..0 /\ (alias <=> 0 >= AliasMap)
    BY DEF AliasMap
  <2> QED
    BY <2>1 DEF Resources
<1> QED
  BY <1>1, <1>2, <1>3 DEF TInv

\* TInv is an invariant of any callback table.
THEOREM TableInvariance == TableSpecification => []TInv
<1>1. TInv /\ [TableNext]_tableVars => TInv'
  BY TypesKept, LockKept, MarksKept, ResourcesKept, LoadedKept DEF TInv
<1> QED
  BY Empty, <1>1, PTL DEF TableSpecification

\* The entry code: two loads, and the slot of a registered function.
THEOREM EntriesStable == TableSpecification => []StableEntry
<1>1. TInv => StableEntry
  BY DEF TInv, TableTypes, CallOf, Loaded, StableEntry
<1> QED
  BY TableInvariance, <1>1, PTL

\* register_cb, unregister_cb and init_cb, whenever box->lk is free.
THEOREM TablesSound == TableSpecification => []TableSound
<1>1. ASSUME TInv, lk = NoFn PROVE \A f \in Fn : Cardinality(Found(f)) <= 1
  <2>1. SUFFICES ASSUME NEW f \in Fn PROVE Cardinality(Found(f)) <= 1
    OBVIOUS
  <2>2. CASE Found(f) = {}
    BY <2>2, FS_EmptySet
  <2>3. ASSUME NEW s \in Slot, Found(f) = {s} PROVE Cardinality(Found(f)) <= 1
    <3>1. Cardinality({s}) = 1
      BY FS_Singleton
    <3> QED
      BY <2>3, <3>1
  <2> QED
    BY <1>1, <2>2, <2>3, TableAssumption DEF TInv, Marks, Distinct, Found
<1>2. ASSUME TInv, lk = NoFn PROVE TableSound
  <2>1. \A s \in Slot : Complete(s)
    BY <1>2, TableAssumption DEF TInv, Locked, Marks, Covered, Writing
  <2>2. held = (IF ready THEN 2..InitSteps ELSE {}) /\ alias = ready
    <3>1. CASE ready
      BY <1>2, <3>1 DEF TInv, Resources
    <3>2. CASE ~ready
      <4>1. held = 1..0 /\ (alias <=> 0 >= AliasMap)
        BY <1>2, <3>2 DEF TInv, Resources
      <4>2. alias \in BOOLEAN /\ 1..0 = {} /\ ~(0 >= AliasMap)
        BY <1>2 DEF TInv, TableTypes, AliasMap
      <4> QED
        <5>1. alias = FALSE /\ ready = FALSE
          BY <1>2, <3>2, <4>1, <4>2 DEF TInv, TableTypes
        <5> QED
          BY <4>1, <4>2, <5>1
    <3> QED
      BY <1>2, <3>1, <3>2 DEF TInv, TableTypes
  <2> QED
    BY <1>1, <1>2, <2>1, <2>2 DEF TableSound, Complete
<1>3. TInv => TableSound
  BY <1>2 DEF TableSound
<1> QED
  BY TableInvariance, <1>3, PTL
=============================================================================
