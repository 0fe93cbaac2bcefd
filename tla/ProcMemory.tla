----------------------------- MODULE ProcMemory -----------------------------
(***************************************************************************)
(* The memory of a process and the calls that change it while it runs:     *)
(* sys_brk under lk_brk, sys_mmap and sys_munmap through proc_mapany,      *)
(* proc_mapat and proc_unmap of linux/proc.c, and the stack that           *)
(* lfi_thread_new maps and lfi_thread_free unmaps.                         *)
(*                                                                         *)
(* Each call is one lfi_box call under box->lk, so each is one action.     *)
(* The break is a byte address; everything else counts in pages.           *)
(***************************************************************************)
EXTENDS Integers, FiniteSets

CONSTANTS
    PageSize, NPages,   \* the box
    BrkBase, BrkSize,   \* the break region: a page address, a size in bytes
    StackPages,         \* opts.stacksize
    NoAslr              \* opts.no_aslr

ASSUME MemoryAssumption ==
    /\ PageSize \in Nat \ {0} /\ NPages \in Nat \ {0}
    /\ BrkBase \in Nat /\ BrkBase % PageSize = 0 /\ BrkSize \in Nat
    /\ BrkBase + BrkSize <= NPages * PageSize
    /\ StackPages \in 1..NPages /\ NoAslr \in BOOLEAN

VARIABLES
    tracked,  \* pages with an entry in the box's tracker
    access,   \* pages the sandbox can read and write
    text,     \* what each page holds
    brksize,  \* proc->brksize
    stack,    \* pages of the main stack
    given,    \* ghost: who was given each page and has not given it back
    wrote,    \* ghost: what its holders stored there last
    gaveUp    \* ghost: pages of the break region that a refused growth gave up

memVars == <<tracked, access, text, brksize, stack, given, wrote, gaveUp>>

BoxPage == 0..(NPages - 1)
Text == {"zero", "data"}
Up(x) == ((x + PageSize - 1) \div PageSize) * PageSize  \* ceilp
PagesOf(a, b) == {p \in BoxPage : a <= p * PageSize /\ p * PageSize < Up(b)}
Region == PagesOf(BrkBase, BrkBase + BrkSize)

\* After proc_load: the image below the break region, the region reserved.
MemInit ==
    LET image == PagesOf(0, BrkBase) IN
    /\ tracked = image \cup Region
    /\ access = image
    /\ text = [p \in BoxPage |-> IF p \in image THEN "data" ELSE "zero"]
    /\ brksize = 0 /\ stack = {}
    /\ given = [p \in BoxPage |-> IF p \in image THEN {"image"} ELSE {}]
    /\ wrote = text
    /\ gaveUp = {}

-----------------------------------------------------------------------------
(* The box (see BoxMemory): fixed mappings replace, refused ones withdraw. *)

Cleared(f, S) == [p \in BoxPage |-> IF p \in S THEN "zero" ELSE f[p]]

\* Who takes a page does not take it from anybody: only its holder gives it
\* back.  A page that nobody held is fresh.
GiveTo(S, who) ==
    /\ given' = [p \in BoxPage |-> IF p \in S THEN given[p] \cup {who} ELSE given[p]]
    /\ wrote' = Cleared(wrote, {p \in S : given[p] = {}})
TakeBack(S, who) == given' = [p \in BoxPage |-> IF p \in S THEN given[p] \ {who} ELSE given[p]]

MapFixed(S) == tracked' = tracked \cup S /\ access' = access \cup S /\ text' = Cleared(text, S)
Withdraw(S) == tracked' = tracked \ S /\ access' = access \ S /\ text' = Cleared(text, S)

Runs(n) == {S \in {i..(i + n - 1) : i \in BoxPage} : S \subseteq BoxPage /\ S \cap tracked = {}}
Room(n) == IF NoAslr THEN {S \in Runs(n) : \A T \in Runs(n) : \E p \in S : \A q \in T : p <= q} ELSE Runs(n)

-----------------------------------------------------------------------------
(* sys_brk. *)

Break == BrkBase + brksize
PtrOK(a) == 0 <= a /\ a < NPages * PageSize  \* ptrcheck

\* The break asked for, within the region; 0 asks where it is.
Asked(a) ==
    IF a = 0 THEN Break
    ELSE IF a < BrkBase THEN BrkBase
    ELSE IF a >= BrkBase + BrkSize THEN BrkBase + BrkSize ELSE a

\* The pages a growth maps: those after the last one in use.
GrowthFromFloor(new) == PagesOf((Break \div PageSize) * PageSize, new)  \* Mutation
Growth(new) == PagesOf(Up(Break), new)

HeapPages(size) == PagesOf(BrkBase, BrkBase + size)

\* A shrink, or a growth inside the last page: no page changes.
BrkMove(a) ==
    /\ a = 0 \/ PtrOK(a)
    /\ Asked(a) <= Break \/ Growth(Asked(a)) = {}
    /\ brksize' = Asked(a) - BrkBase
    /\ TakeBack(HeapPages(brksize) \ HeapPages(brksize'), "heap")
    /\ UNCHANGED <<tracked, access, text, stack, wrote, gaveUp>>

BrkGrow(a) ==
    /\ PtrOK(a) /\ Asked(a) > Break /\ Growth(Asked(a)) # {}
    /\ \/ /\ MapFixed(Growth(Asked(a)))
          /\ brksize' = Asked(a) - BrkBase
          /\ GiveTo(HeapPages(brksize') \ HeapPages(brksize), "heap")
          /\ UNCHANGED gaveUp
       \/ \* the mapping is refused after the reservation was dropped
          /\ Withdraw(Growth(Asked(a)))
          /\ gaveUp' = gaveUp \cup Growth(Asked(a))
          /\ UNCHANGED <<brksize, given, wrote>>
    /\ UNCHANGED stack

-----------------------------------------------------------------------------
(* sys_mmap and sys_munmap. *)

MmapAny(n) ==
    /\ \E S \in Room(n) : MapFixed(S) /\ GiveTo(S, "map")
    /\ UNCHANGED <<brksize, stack, gaveUp>>

\* A sandbox that knows its addresses: fixed mappings and munmap name pages
\* that mmap returned.
Mine(S) == S # {} /\ \A p \in S : "map" \in given[p]

MmapFixed(S) ==
    /\ Mine(S)
    /\ \/ MapFixed(S) /\ wrote' = Cleared(wrote, S) /\ UNCHANGED given
       \/ Withdraw(S) /\ TakeBack(S, "map") /\ UNCHANGED wrote
    /\ UNCHANGED <<brksize, stack, gaveUp>>

Munmap(S) ==
    /\ Mine(S) /\ Withdraw(S) /\ TakeBack(S, "map")
    /\ UNCHANGED <<brksize, stack, wrote, gaveUp>>

-----------------------------------------------------------------------------
(* lfi_thread_new and lfi_thread_free. *)

TopStack == (NPages - StackPages)..(NPages - 1)
StackPlaces ==
    IF NoAslr THEN {TopStack} ELSE Room(StackPages)

\* A refused mapping at a fixed place withdraws what was there.
MapStack ==
    /\ stack = {}
    /\ \E S \in StackPlaces :
         \/ MapFixed(S) /\ GiveTo(S, "stack") /\ stack' = S
         \/ NoAslr /\ Withdraw(S) /\ UNCHANGED <<given, wrote, stack>>
    /\ UNCHANGED <<brksize, gaveUp>>

FreeStack ==
    /\ stack # {}
    /\ Withdraw(stack) /\ TakeBack(stack, "stack") /\ stack' = {}
    /\ UNCHANGED <<brksize, wrote, gaveUp>>

StorePage(p) ==
    /\ p \in access /\ given[p] # {}
    /\ text' = [text EXCEPT ![p] = "data"]
    /\ wrote' = [wrote EXCEPT ![p] = "data"]
    /\ UNCHANGED <<tracked, access, brksize, stack, given, gaveUp>>

Spans == {i..j : i, j \in BoxPage}

MemNext ==
    \/ \E a \in 0..(NPages * PageSize) : BrkMove(a) \/ BrkGrow(a)
    \/ \E n \in 1..NPages : MmapAny(n)
    \/ \E S \in Spans : MmapFixed(S) \/ Munmap(S)
    \/ MapStack \/ FreeStack
    \/ \E p \in BoxPage : StorePage(p)

MemSpec == MemInit /\ [][MemNext]_memVars

\* With no_aslr the stack is mapped at the top of the box over whatever is
\* there; the embedder makes the main thread while the program has nothing
\* there yet.
StackFirst == NoAslr /\ MapStack => \A p \in TopStack : given[p] = {}

-----------------------------------------------------------------------------
\* A page that was given to the image, the heap, a mapping or the stack is
\* given to nobody else, stays accessible and holds what was last stored there,
\* fresh pages zero, until it is given back; and the heap has the pages up to
\* the break, stack and image have theirs and no others: growing and shrinking
\* the break inside and across pages, mappings placed anywhere and the stack
\* never reach into each other.  What a refused growth gave up of the break
\* region is the exception: mmap may place a mapping there, and the next growth
\* maps over it.
MemoryKept ==
    \A p \in BoxPage \ gaveUp :
        /\ given[p] # {} => p \in access /\ p \in tracked /\ text[p] = wrote[p]
        /\ \A u, v \in given[p] : u = v
        /\ "heap" \in given[p] <=> p \in HeapPages(brksize)
        /\ "stack" \in given[p] <=> p \in stack
        /\ "image" \in given[p] <=> p \in PagesOf(0, BrkBase)
=============================================================================
