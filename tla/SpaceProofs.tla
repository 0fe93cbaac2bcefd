----------------------------- MODULE SpaceProofs -----------------------------
(***************************************************************************)
(* Memory handed out once: the boxes of an engine (Spaces), the images     *)
(* loaded into a box (ElfLoad), the heap, mappings and stacks of a process *)
(* (ProcMemory) and the initial stack of its program (MainStack), for      *)
(* every size of page, chunk, box, guard and word, any number of them, any *)
(* files, any arguments and any lengths.                                   *)
(*                                                                         *)
(* The layout of the stack subtracts what was counted, so its proof        *)
(* carries what the counter means: the bytes of the strings and one        *)
(* pointer for each, and never more than the budget.                       *)
(*                                                                         *)
(* That a page keeps what was written to it does not follow by itself:     *)
(* mmap and the stack take untracked pages, brk takes pages of its region  *)
(* without looking.  So the invariant carries that what is left of the     *)
(* region is tracked and given to nobody but the heap (Reserved).          *)
(*                                                                         *)
(* Boxes are apart because taken chunks are: the invariant ties the bits   *)
(* of each region to the places of its boxes, the places to addresses, and *)
(* the addresses to the pages of the host.  That there is room for every   *)
(* box that was promised needs that first fit keeps equal boxes on         *)
(* multiples of their size, and a count of those.                          *)
(*                                                                         *)
(* A loaded image stays what it is because the segments of a well-formed   *)
(* file share no page and whatever is mapped later lies behind them: the   *)
(* invariant says how many headers have been followed, that their segments *)
(* end below the next ones, and that memory behind the last is untouched.  *)
(***************************************************************************)
EXTENDS MainStack, ProcMemory, Spaces, ElfLoad, FiniteSetTheorems, TLAPS

-----------------------------------------------------------------------------
(* The main thread's stack. *)

\* How far the set-up of the thread is.
Steps == {"new", "argv", "envp", "layout", "ready", "freed", "failed"}

Counters ==
    /\ step \in Steps
    /\ used \in Nat /\ strsLen \in Nat /\ nargv \in Nat /\ nenvp \in Nat
    /\ strsStart \in Int /\ randStart \in Int /\ stackStart \in Int

\* Every pointer and every string that will be written has been paid for.
PaidFor ==
    /\ used = strsLen + Word * (nargv + nenvp)
    /\ used <= Budget

StackInv == Counters /\ PaidFor /\ LayoutFits

-----------------------------------------------------------------------------
\* One word more.
LEMMA OneMore == \A a, b, c \in Int : c = b + 1 => a * c = a * b + a
OBVIOUS

\* Rounding down to the stack's alignment takes less than the alignment.
LEMMA Rounding ==
    ASSUME NEW x \in Int
    PROVE  /\ Down(x) \in Int /\ Down(x) <= x /\ x < Down(x) + Align
           /\ Down(x) % Align = 0
<1>1. Align \in Int /\ Align > 0
  BY StackAssumption
<1>2. x % Align \in 0..(Align - 1)
  BY <1>1
<1>3. x = (Align * (x \div Align)) + (x % Align) /\ x \div Align \in Int
  BY <1>1
<1>4. Down(x) = Align * (x \div Align)
  BY <1>1, <1>2, <1>3 DEF Down
<1>5. (Align * (x \div Align)) % Align = 0
  BY <1>1, <1>3, SMTT(30)
<1> QED
  BY <1>1, <1>2, <1>4, <1>5 DEF Down

\* Counting a string keeps the counter exact and inside the budget.
LEMMA Counting ==
    ASSUME StackInv, NEW len \in Lengths,
           CountArg(len) \/ CountEnv(len)
    PROVE  StackInv'
<1> USE StackAssumption DEF Counters, PaidFor, StackInv
<1>1. Cut(len) \in Nat
  BY DEF Cut
<1>2. Cost(Cut(len)) = Cut(len) + 1 + Word
  BY DEF Cost
<1>3. /\ used' = used + Cut(len) + 1 + Word
      /\ strsLen' = strsLen + Cut(len) + 1
      /\ used' <= Budget
      /\ step' = step /\ step # "ready"
      /\ UNCHANGED Layout
  BY <1>1, <1>2 DEF CountArg, CountEnv, Count, Fits
<1>4. /\ nargv' \in Nat /\ nenvp' \in Nat
      /\ nargv' + nenvp' = nargv + nenvp + 1
  BY DEF CountArg, CountEnv
<1>5. Word * (nargv' + nenvp') = Word * (nargv + nenvp) + Word
  <2>1. Word \in Int /\ nargv + nenvp \in Int /\ nargv' + nenvp' \in Int
    BY <1>4
  <2> QED
    BY ONLY <2>1, <1>4, OneMore
<1>6. Counters'
  BY <1>1, <1>3, <1>4 DEF Layout
<1>7. PaidFor'
  <2>1. used' = strsLen' + Word * (nargv' + nenvp')
    BY <1>1, <1>3, <1>5
  <2> QED
    BY <2>1, <1>3 DEF Budget, Fixed
<1>8. LayoutFits'
  BY <1>3 DEF LayoutFits
<1> QED
  BY <1>6, <1>7, <1>8

\* The layout has room for all that was counted and for the fixed part.
LEMMA Laying ==
    ASSUME StackInv, NEW rnd \in 0..(Window - 1), LayOut(rnd)
    PROVE  StackInv'
<1> USE StackAssumption DEF Counters, PaidFor, StackInv
<1> DEFINE top == StackBase + StackSize - rnd - strsLen
<1>1. top \in Int /\ Word * (nargv + nenvp) \in Int
  OBVIOUS
<1>2. BlockSize = 3 * Word + Word * (nargv + nenvp) + AuxvSize /\ BlockSize \in Int
  BY DEF BlockSize
<1>3. /\ strsStart' = Down(top)
      /\ randStart' = strsStart' - Random
      /\ stackStart' = Down(randStart' - BlockSize)
      /\ step' = "ready"
      /\ UNCHANGED Counted
  BY DEF LayOut
<1>4. /\ strsStart' \in Int /\ strsStart' <= top /\ top < strsStart' + Align
  BY <1>1, <1>3, Rounding
<1>5. randStart' - BlockSize \in Int
  BY <1>2, <1>3, <1>4
<1>6. /\ stackStart' \in Int /\ stackStart' <= randStart' - BlockSize
      /\ randStart' - BlockSize < stackStart' + Align
      /\ stackStart' % Align = 0
  BY <1>3, <1>5, Rounding
<1>7. Counters' /\ PaidFor'
  <2>1. step' \in Steps
    BY <1>3 DEF Steps
  <2>2. randStart' \in Int
    BY <1>3, <1>4
  <2> QED
    BY <2>1, <2>2, <1>3, <1>4, <1>6 DEF Counted, Budget, Fixed
<1>8. LayoutFits'
  <2> SUFFICES ASSUME StackSize >= Fixed
               PROVE  /\ StackBase <= stackStart'
                      /\ stackStart' % Align = 0
                      /\ stackStart' + BlockSize <= randStart'
                      /\ randStart' + Random <= strsStart'
                      /\ strsStart' + strsLen <= StackBase + StackSize
    BY <1>3 DEF LayoutFits, Counted, BlockSize
  <2>1. used <= StackSize - Fixed
    BY DEF Budget, Fixed
  <2>2. strsLen + BlockSize + Random + Window + 2 * Align <= StackSize
    BY <1>2, <1>1, <2>1 DEF Fixed
  <2>3. StackBase <= stackStart'
    BY <1>2, <1>3, <1>4, <1>6, <2>2
  <2> QED
    BY <1>2, <1>3, <1>4, <1>6, <2>3
<1> QED
  BY <1>7, <1>8

-----------------------------------------------------------------------------
\* stack_init lays out block, random bytes and strings without overlap inside
\* the stack, whatever it was given.
THEOREM StackFits == StackSpec => []LayoutFits
<1>1. StackInit => StackInv
  BY StackAssumption DEF StackInit, StackInv, Counters, PaidFor, LayoutFits, Budget, Fixed, Steps
<1>2. StackInv /\ [StackNext]_stackVars => StackInv'
  <2> SUFFICES ASSUME StackInv, [StackNext]_stackVars PROVE StackInv'
    OBVIOUS
  <2> DEFINE still == UNCHANGED <<Counted, Layout>> /\ step' \in Steps /\ step' # "ready"
  <2>1. ASSUME still PROVE StackInv'
    BY <2>1 DEF StackInv, Counters, PaidFor, LayoutFits, Counted, Layout, Budget, Fixed
  <2>2. CASE ThreadNew \/ EndOfArgs \/ EndOfEnv \/ ThreadFree
    BY <2>1, <2>2 DEF ThreadNew, EndOfArgs, EndOfEnv, ThreadFree, Steps
  <2>3. CASE \E len \in Lengths : CountArg(len) \/ CountEnv(len)
    BY <2>3, Counting
  <2>4. CASE \E rnd \in 0..(Window - 1) : LayOut(rnd)
    BY <2>4, Laying
  <2>5. CASE UNCHANGED stackVars
    BY <2>5 DEF stackVars, StackInv, Counters, PaidFor, LayoutFits, Budget, Fixed, BlockSize
  <2> QED
    BY <2>2, <2>3, <2>4, <2>5 DEF StackNext
<1> QED
  BY <1>1, <1>2, PTL DEF StackSpec, StackInv

-----------------------------------------------------------------------------
(* The memory of a running process. *)

\* With fixed places (no_aslr), the stack at the top and the break region do
\* not meet.
StackApart == NoAslr => Up(BrkBase + BrkSize) <= (NPages - StackPages) * PageSize

\* Who a page may belong to.
Holders == {"heap", "map", "stack", "image"}

MemTypes ==
    /\ tracked \subseteq BoxPage /\ access \subseteq BoxPage
    /\ text \in [BoxPage -> Text] /\ wrote \in [BoxPage -> Text]
    /\ brksize \in 0..BrkSize
    /\ stack \subseteq BoxPage
    /\ given \in [BoxPage -> SUBSET Holders]
    /\ gaveUp \subseteq Region

\* What is left of the break region is reserved for the heap.
Reserved == \A p \in Region \ gaveUp : p \in tracked /\ given[p] \subseteq {"heap"}

\* MemoryKept, page by page.
Kept(p) ==
    /\ given[p] # {} => p \in access /\ p \in tracked /\ text[p] = wrote[p]
    /\ \A u, v \in given[p] : u = v
    /\ "heap" \in given[p] <=> p \in HeapPages(brksize)
    /\ "stack" \in given[p] <=> p \in stack
    /\ "image" \in given[p] <=> p \in PagesOf(0, BrkBase)

\* The inductive invariant.
KInv == MemTypes /\ MemoryKept /\ Reserved

-----------------------------------------------------------------------------

\* Page numbers and addresses grow together.
LEMMA Times ==
    ASSUME NEW a \in Int, NEW b \in Int, a <= b
    PROVE  /\ a * PageSize \in Int /\ b * PageSize \in Int
           /\ a * PageSize <= b * PageSize
           /\ (b + 1) * PageSize = b * PageSize + PageSize
<1>1. PageSize \in Nat
  BY MemoryAssumption
<1> QED BY <1>1

\* Rounding up to a page gains less than a page.
LEMMA Upward ==
    ASSUME NEW x \in Int
    PROVE  Up(x) \in Int /\ x <= Up(x) /\ Up(x) < x + PageSize
<1>1. PageSize \in Nat /\ PageSize > 0
  BY MemoryAssumption
<1> DEFINE y == x + PageSize - 1
           q == y \div PageSize
<1>2. y \in Int /\ q \in Int /\ y % PageSize \in 0..(PageSize - 1) /\ y = PageSize * q + (y % PageSize)
  BY <1>1
<1>3. Up(x) = PageSize * q
  BY <1>1, <1>2 DEF Up
<1>4. PageSize * q \in Int
  BY <1>1, <1>2
<1> HIDE DEF q
<1> QED BY <1>1, <1>2, <1>3, <1>4

\* A rounded address is that of a page.
LEMMA UpIn ==
    ASSUME NEW x \in Int
    PROVE  \E q \in Int : Up(x) = q * PageSize
<1>1. PageSize \in Nat /\ PageSize > 0
  BY MemoryAssumption
<1> QED BY <1>1 DEF Up

\* Rounding up keeps the order of addresses.
LEMMA UpMonotone ==
    ASSUME NEW x \in Int, NEW y \in Int, x <= y
    PROVE  Up(x) <= Up(y)
<1>0. PageSize \in Nat /\ PageSize > 0
  BY MemoryAssumption
<1>1. PICK q \in Int : Up(x) = q * PageSize
  BY UpIn
<1>2. PICK r \in Int : Up(y) = r * PageSize
  BY UpIn
<1>3. CASE q <= r
  BY <1>1, <1>2, <1>3, Times
<1>4. CASE r + 1 <= q
  <2>1. r * PageSize + PageSize <= q * PageSize
    BY <1>4, Times
  <2> QED BY <1>0, <1>1, <1>2, <2>1, Upward
<1> QED BY <1>3, <1>4

\* The break region starts on a page.
LEMMA UpBase == Up(BrkBase) = BrkBase
<1>0. PageSize \in Nat /\ PageSize > 0 /\ BrkBase \in Nat /\ BrkBase % PageSize = 0
  BY MemoryAssumption
<1>1. BrkBase = PageSize * (BrkBase \div PageSize) /\ BrkBase \div PageSize \in Int
  BY <1>0
<1>2. PICK k \in Int : BrkBase = k * PageSize
  BY <1>0, <1>1
<1>3. PICK q \in Int : Up(BrkBase) = q * PageSize
  BY <1>0, UpIn
<1>4. BrkBase <= Up(BrkBase) /\ Up(BrkBase) < BrkBase + PageSize
  BY <1>0, Upward
<1>5. CASE q <= k
  BY <1>0, <1>2, <1>3, <1>4, <1>5, Times
<1>6. CASE k + 1 <= q
  <2>1. k * PageSize + PageSize <= q * PageSize
    BY <1>6, Times
  <2> QED BY <1>0, <1>2, <1>3, <1>4, <2>1
<1> QED BY <1>5, <1>6

\* Where the pages of the heap and of the break region are.
LEMMA HeapArea ==
    ASSUME NEW n \in 0..BrkSize, NEW m \in 0..BrkSize, n <= m
    PROVE  /\ HeapPages(n) \subseteq HeapPages(m) /\ HeapPages(m) \subseteq Region
           /\ PagesOf(Up(BrkBase + n), BrkBase + m) = HeapPages(m) \ HeapPages(n)
           /\ HeapPages(0) = {}
           /\ Region \cap PagesOf(0, BrkBase) = {}
<1>0. /\ PageSize \in Nat /\ BrkBase \in Nat /\ BrkSize \in Nat
      /\ \A p \in BoxPage : p * PageSize \in Int
  BY MemoryAssumption DEF BoxPage
<1>1. /\ Up(BrkBase + n) <= Up(BrkBase + m) /\ Up(BrkBase + m) <= Up(BrkBase + BrkSize)
      /\ Up(BrkBase + n) \in Int /\ Up(BrkBase + m) \in Int /\ Up(BrkBase + BrkSize) \in Int
      /\ BrkBase <= Up(BrkBase + n)
  <2>1. PICK x \in Int, y \in Int, z \in Int : x = BrkBase + n /\ y = BrkBase + m /\ z = BrkBase + BrkSize
    BY <1>0
  <2>2. BrkBase <= x /\ x <= y /\ y <= z
    BY <1>0, <2>1
  <2>3. Up(x) <= Up(y) /\ Up(y) <= Up(z)
    BY <2>2, UpMonotone
  <2>4. Up(x) \in Int /\ Up(y) \in Int /\ Up(z) \in Int /\ x <= Up(x)
    BY Upward
  <2> QED BY <1>0, <2>1, <2>2, <2>3, <2>4
<1>2. \A p \in BoxPage :
         /\ p \in HeapPages(n) <=> BrkBase <= p * PageSize /\ p * PageSize < Up(BrkBase + n)
         /\ p \in HeapPages(m) <=> BrkBase <= p * PageSize /\ p * PageSize < Up(BrkBase + m)
         /\ p \in Region <=> BrkBase <= p * PageSize /\ p * PageSize < Up(BrkBase + BrkSize)
  <2> SUFFICES ASSUME NEW p \in BoxPage
               PROVE  /\ p \in HeapPages(n) <=> BrkBase <= p * PageSize /\ p * PageSize < Up(BrkBase + n)
                      /\ p \in HeapPages(m) <=> BrkBase <= p * PageSize /\ p * PageSize < Up(BrkBase + m)
                      /\ p \in Region <=> BrkBase <= p * PageSize /\ p * PageSize < Up(BrkBase + BrkSize)
    OBVIOUS
  <2>1. p \in HeapPages(n) <=> BrkBase <= p * PageSize /\ p * PageSize < Up(BrkBase + n)
    BY DEF HeapPages, PagesOf
  <2>2. p \in HeapPages(m) <=> BrkBase <= p * PageSize /\ p * PageSize < Up(BrkBase + m)
    BY DEF HeapPages, PagesOf
  <2>3. p \in Region <=> BrkBase <= p * PageSize /\ p * PageSize < Up(BrkBase + BrkSize)
    BY DEF PagesOf, Region
  <2> QED BY <2>1, <2>2, <2>3
<1>3. HeapPages(n) \subseteq BoxPage /\ HeapPages(m) \subseteq BoxPage /\ Region \subseteq BoxPage
  BY DEF HeapPages, PagesOf, Region
<1>4. HeapPages(n) \subseteq HeapPages(m) /\ HeapPages(m) \subseteq Region
  BY <1>0, <1>1, <1>2, <1>3
<1>5. PagesOf(Up(BrkBase + n), BrkBase + m) = HeapPages(m) \ HeapPages(n)
  <2>1. \A p \in BoxPage : p \in PagesOf(Up(BrkBase + n), BrkBase + m)
           <=> Up(BrkBase + n) <= p * PageSize /\ p * PageSize < Up(BrkBase + m)
    BY DEF PagesOf
  <2>2. PagesOf(Up(BrkBase + n), BrkBase + m) \subseteq BoxPage
    BY DEF PagesOf
  <2>3. \A p \in BoxPage : p \in PagesOf(Up(BrkBase + n), BrkBase + m) <=> p \in HeapPages(m) \ HeapPages(n)
    BY <1>0, <1>1, <1>2, <2>1
  <2> QED BY <1>3, <2>2, <2>3
<1>6. HeapPages(0) = {} /\ Region \cap PagesOf(0, BrkBase) = {}
  BY <1>0, UpBase DEF HeapPages, PagesOf, Region
<1> QED BY <1>4, <1>5, <1>6

\* The break asked for stays within the region, sys_brk.
LEMMA AskedIn ==
    ASSUME MemTypes, NEW a \in 0..(NPages * PageSize)
    PROVE  /\ Asked(a) - BrkBase \in 0..BrkSize /\ Asked(a) \in Int
           /\ Asked(a) = BrkBase + (Asked(a) - BrkBase)
           /\ Break = BrkBase + brksize
<1>1. BrkBase \in Nat /\ BrkSize \in Nat /\ brksize \in 0..BrkSize /\ a \in Int
  BY MemoryAssumption DEF MemTypes
<1> QED BY <1>1 DEF Asked, Break

\* What the fresh mappings of a call hold, page by page.
LEMMA ClearedIs ==
    ASSUME NEW f \in [BoxPage -> Text], NEW S
    PROVE  /\ Cleared(f, S) \in [BoxPage -> Text]
           /\ \A p \in BoxPage : Cleared(f, S)[p] = IF p \in S THEN "zero" ELSE f[p]
BY DEF Cleared, Text

\* Who holds which page after it was given to who ...
LEMMA GivenTo ==
    ASSUME MemTypes, NEW S, NEW who \in Holders, GiveTo(S, who)
    PROVE  /\ given' \in [BoxPage -> SUBSET Holders] /\ wrote' \in [BoxPage -> Text]
           /\ \A p \in BoxPage :
                /\ given'[p] = IF p \in S THEN given[p] \cup {who} ELSE given[p]
                /\ wrote'[p] = IF p \in S /\ given[p] = {} THEN "zero" ELSE wrote[p]
<1> DEFINE F == {p \in S : given[p] = {}}
<1>1. wrote' = Cleared(wrote, F)
  BY DEF GiveTo
<1>2. \A p : p \in F <=> p \in S /\ given[p] = {}
  OBVIOUS
<1> HIDE DEF F
<1>3. /\ wrote' \in [BoxPage -> Text]
      /\ \A p \in BoxPage : wrote'[p] = IF p \in F THEN "zero" ELSE wrote[p]
  BY <1>1, ClearedIs DEF MemTypes
<1>4. /\ given' \in [BoxPage -> SUBSET Holders]
      /\ \A p \in BoxPage : given'[p] = IF p \in S THEN given[p] \cup {who} ELSE given[p]
  BY DEF GiveTo, MemTypes
<1> QED BY <1>2, <1>3, <1>4

\* ... and after who gave it back.
LEMMA TakenBack ==
    ASSUME MemTypes, NEW S, NEW who, TakeBack(S, who)
    PROVE  /\ given' \in [BoxPage -> SUBSET Holders]
           /\ \A p \in BoxPage : given'[p] = IF p \in S THEN given[p] \ {who} ELSE given[p]
BY DEF TakeBack, MemTypes

\* What a mapping leaves tracked, accessible and in memory.
LEMMA MappedFixed ==
    ASSUME MemTypes, NEW S \in SUBSET BoxPage, MapFixed(S)
    PROVE  /\ tracked' = tracked \cup S /\ access' = access \cup S
           /\ tracked' \subseteq BoxPage /\ access' \subseteq BoxPage
           /\ text' \in [BoxPage -> Text]
           /\ \A p \in BoxPage : text'[p] = IF p \in S THEN "zero" ELSE text[p]
BY ClearedIs DEF MapFixed, MemTypes

\* What the end of a mapping leaves.
LEMMA Withdrawn ==
    ASSUME MemTypes, NEW S \in SUBSET BoxPage, Withdraw(S)
    PROVE  /\ tracked' = tracked \ S /\ access' = access \ S
           /\ tracked' \subseteq BoxPage /\ access' \subseteq BoxPage
           /\ text' \in [BoxPage -> Text]
           /\ \A p \in BoxPage : text'[p] = IF p \in S THEN "zero" ELSE text[p]
BY ClearedIs DEF Withdraw, MemTypes

-----------------------------------------------------------------------------

\* sys_brk within the pages it has, or given back: the heap loses its pages.
LEMMA MoveStep ==
    ASSUME KInv, NEW a \in 0..(NPages * PageSize), BrkMove(a)
    PROVE  KInv'
<1> DEFINE n == Asked(a) - BrkBase
<1>0. MemTypes /\ MemoryKept /\ Reserved /\ brksize \in 0..BrkSize
  BY DEF KInv, MemTypes
<1>1. n \in 0..BrkSize /\ Asked(a) = BrkBase + n /\ Break = BrkBase + brksize /\ brksize' = n
  BY <1>0, AskedIn DEF BrkMove
<1>2. UNCHANGED <<tracked, access, text, stack, wrote, gaveUp>>
  BY DEF BrkMove
<1>3. /\ given' \in [BoxPage -> SUBSET Holders]
      /\ \A p \in BoxPage :
           given'[p] = IF p \in HeapPages(brksize) \ HeapPages(n) THEN given[p] \ {"heap"} ELSE given[p]
  <2>1. TakeBack(HeapPages(brksize) \ HeapPages(brksize'), "heap")
    BY DEF BrkMove
  <2>2. TakeBack(HeapPages(brksize) \ HeapPages(n), "heap")
    BY <1>1, <2>1
  <2> HIDE DEF n
  <2> QED BY <1>0, <2>2, TakenBack
<1>4. HeapPages(n) \subseteq HeapPages(brksize)
  <2>1. CASE n <= brksize
    BY <1>0, <1>1, <2>1, HeapArea
  <2>2. CASE brksize <= n /\ Growth(Asked(a)) = {}
    <3>1. PagesOf(Up(BrkBase + brksize), BrkBase + n) = HeapPages(n) \ HeapPages(brksize)
      BY <1>0, <1>1, <2>2, HeapArea
    <3>2. PagesOf(Up(BrkBase + brksize), BrkBase + n) = {}
      BY <1>1, <2>2 DEF Growth
    <3> QED BY <3>1, <3>2
  <2>3. n \in Int /\ brksize \in Int /\ BrkBase \in Int
    BY <1>0, <1>1, MemoryAssumption
  <2>4. Asked(a) <= Break <=> n <= brksize
    BY <1>1, <2>3
  <2> QED BY <2>1, <2>2, <2>3, <2>4 DEF BrkMove
<1> HIDE DEF n
<1>5. MemTypes'
  BY <1>0, <1>1, <1>2, <1>3 DEF MemTypes
<1>6. MemoryKept'
  <2> SUFFICES ASSUME NEW p \in BoxPage, p \notin gaveUp
               PROVE  Kept(p)'
    BY <1>2 DEF MemoryKept, Kept
  <2>1. Kept(p)
    BY <1>0 DEF MemoryKept, Kept
  <2>2. CASE p \in HeapPages(brksize) \ HeapPages(n)
    BY <1>1, <1>2, <1>3, <2>1, <2>2 DEF Kept
  <2>3. CASE p \notin HeapPages(brksize) \ HeapPages(n)
    BY <1>1, <1>2, <1>3, <1>4, <2>1, <2>3 DEF Kept
  <2> QED BY <2>2, <2>3
<1>7. Reserved'
  <2>1. Region \subseteq BoxPage
    BY DEF Region, PagesOf
  <2> QED BY <1>0, <1>2, <1>3, <2>1 DEF Reserved
<1> QED BY <1>5, <1>6, <1>7 DEF KInv

\* sys_brk beyond its pages: they become the heap, or the mapping that was
\* refused gives up a part of the region.
LEMMA GrowStep ==
    ASSUME KInv, NEW a \in 0..(NPages * PageSize), BrkGrow(a)
    PROVE  KInv'
<1> DEFINE n == Asked(a) - BrkBase
           G == Growth(Asked(a))
<1>0. MemTypes /\ MemoryKept /\ Reserved /\ brksize \in 0..BrkSize /\ stack' = stack
  BY DEF KInv, MemTypes, BrkGrow
<1>1. n \in 0..BrkSize /\ Asked(a) = BrkBase + n /\ Break = BrkBase + brksize
  BY <1>0, AskedIn
<1>2. brksize <= n
  <2>1. BrkBase \in Int /\ Asked(a) > Break
    BY MemoryAssumption DEF BrkGrow
  <2> QED BY <1>0, <1>1, <2>1
<1> HIDE DEF n
<1>3. /\ G = HeapPages(n) \ HeapPages(brksize)
      /\ HeapPages(brksize) \subseteq HeapPages(n) /\ HeapPages(n) \subseteq Region
  BY <1>0, <1>1, <1>2, HeapArea DEF Growth
<1>4. /\ Region \subseteq BoxPage /\ G \subseteq Region /\ G \in SUBSET BoxPage
      /\ Region \cap PagesOf(0, BrkBase) = {}
  BY <1>0, <1>3, HeapArea DEF Region, PagesOf
<1> HIDE DEF G
<1>5. CASE /\ MapFixed(G) /\ brksize' = n /\ GiveTo(G, "heap") /\ gaveUp' = gaveUp
  <2>1. /\ tracked' = tracked \cup G /\ access' = access \cup G
        /\ tracked' \subseteq BoxPage /\ access' \subseteq BoxPage
        /\ text' \in [BoxPage -> Text]
        /\ \A p \in BoxPage : text'[p] = IF p \in G THEN "zero" ELSE text[p]
    BY <1>0, <1>4, <1>5, MappedFixed
  <2>2. /\ given' \in [BoxPage -> SUBSET Holders] /\ wrote' \in [BoxPage -> Text]
        /\ \A p \in BoxPage :
             /\ given'[p] = IF p \in G THEN given[p] \cup {"heap"} ELSE given[p]
             /\ wrote'[p] = IF p \in G /\ given[p] = {} THEN "zero" ELSE wrote[p]
    BY <1>0, <1>5, GivenTo DEF Holders
  <2>3. MemTypes'
    BY <1>0, <1>1, <1>5, <2>1, <2>2 DEF MemTypes
  <2>4. \A p \in G : p \notin gaveUp => given[p] = {}
    <3> SUFFICES ASSUME NEW p \in G, p \notin gaveUp PROVE given[p] = {}
      OBVIOUS
    <3>1. p \in BoxPage /\ p \in Region /\ given[p] \subseteq {"heap"} /\ "heap" \notin given[p]
      BY <1>0, <1>3, <1>4 DEF Reserved, MemoryKept
    <3> QED BY <3>1
  <2>5. MemoryKept'
    <3> SUFFICES ASSUME NEW p \in BoxPage, p \notin gaveUp
                 PROVE  Kept(p)'
      BY <1>5 DEF MemoryKept, Kept
    <3>1. Kept(p)
      BY <1>0 DEF MemoryKept, Kept
    <3>2. CASE p \in G
      <4>1. given'[p] = {"heap"} /\ wrote'[p] = "zero" /\ text'[p] = "zero"
        BY <2>1, <2>2, <2>4, <3>2
      <4>2. p \in HeapPages(n) /\ p \notin PagesOf(0, BrkBase) /\ p \notin stack
        BY <1>3, <1>4, <2>4, <3>1, <3>2 DEF Kept
      <4> QED BY <1>0, <1>5, <2>1, <3>2, <4>1, <4>2 DEF Kept
    <3>3. CASE p \notin G
      BY <1>0, <1>3, <1>5, <2>1, <2>2, <3>1, <3>3 DEF Kept
    <3> QED BY <3>2, <3>3
  <2>6. Reserved'
    BY <1>0, <1>4, <1>5, <2>1, <2>2 DEF Reserved
  <2> QED BY <2>3, <2>5, <2>6 DEF KInv
<1>6. CASE Withdraw(G) /\ gaveUp' = gaveUp \cup G /\ UNCHANGED <<brksize, given, wrote>>
  <2>1. /\ tracked' = tracked \ G /\ access' = access \ G
        /\ tracked' \subseteq BoxPage /\ access' \subseteq BoxPage
        /\ text' \in [BoxPage -> Text]
        /\ \A p \in BoxPage : text'[p] = IF p \in G THEN "zero" ELSE text[p]
    BY <1>0, <1>4, <1>6, Withdrawn
  <2>2. MemTypes'
    BY <1>0, <1>4, <1>6, <2>1 DEF MemTypes
  <2>3. MemoryKept'
    BY <1>0, <1>6, <2>1 DEF MemoryKept, MemTypes
  <2>4. Reserved'
    BY <1>0, <1>4, <1>6, <2>1 DEF Reserved
  <2> QED BY <2>2, <2>3, <2>4 DEF KInv
<1>7. \/ /\ MapFixed(G) /\ brksize' = n /\ GiveTo(HeapPages(brksize') \ HeapPages(brksize), "heap")
         /\ gaveUp' = gaveUp
      \/ Withdraw(G) /\ gaveUp' = gaveUp \cup G /\ UNCHANGED <<brksize, given, wrote>>
  BY DEF BrkGrow, G, n
<1> QED BY <1>3, <1>5, <1>6, <1>7

\* Pages outside what is left of the break region and outside the image.
Outside(S) == \A p \in S \ gaveUp : p \notin Region /\ p \notin PagesOf(0, BrkBase)

\* What a mapping for who, or its end, does to the stack.
StackMoves(who, S) ==
    \/ who = "stack" /\ stack = {} /\ stack' = S
    \/ who = "map" /\ stack' = stack /\ S \cap stack \subseteq gaveUp
StackStays(S) ==
    \/ stack' = {} /\ stack = S
    \/ stack' = stack /\ S \cap stack \subseteq gaveUp

\* Outside gaveUp the pages of S change hands and the others do not.
Handed(S, H) ==
    /\ given' \in [BoxPage -> SUBSET Holders]
    /\ \A p \in BoxPage \ gaveUp : given'[p] = IF p \in S THEN H ELSE given[p]

\* Where the heap is.
LEMMA HeapInside ==
    ASSUME KInv
    PROVE  /\ MemTypes /\ MemoryKept /\ Reserved /\ Region \subseteq BoxPage
           /\ HeapPages(brksize) \subseteq Region
<1>1. brksize \in 0..BrkSize /\ brksize <= brksize /\ BrkSize \in Nat
  BY MemoryAssumption DEF KInv, MemTypes
<1> QED BY <1>1, HeapArea DEF KInv, Region, PagesOf

\* sys_mmap and the stack: pages outside the heap become fresh ones of who.
LEMMA MapStep ==
    ASSUME KInv, NEW S \in SUBSET BoxPage, NEW who \in {"map", "stack"},
           MapFixed(S), Handed(S, {who}), wrote' \in [BoxPage -> Text],
           \A p \in BoxPage \ gaveUp : wrote'[p] = IF p \in S THEN "zero" ELSE wrote[p],
           UNCHANGED <<brksize, gaveUp>>, Outside(S), StackMoves(who, S)
    PROVE  KInv'
<1>0. /\ MemTypes /\ MemoryKept /\ Reserved /\ Region \subseteq BoxPage
      /\ HeapPages(brksize) \subseteq Region
  BY HeapInside
<1>1. /\ tracked' = tracked \cup S /\ access' = access \cup S
      /\ tracked' \subseteq BoxPage /\ access' \subseteq BoxPage
      /\ text' \in [BoxPage -> Text]
      /\ \A p \in BoxPage : text'[p] = IF p \in S THEN "zero" ELSE text[p]
  BY <1>0, MappedFixed
<1>3. MemTypes'
  BY <1>0, <1>1 DEF MemTypes, StackMoves, Handed
<1>4. MemoryKept'
  <2> SUFFICES ASSUME NEW p \in BoxPage, p \notin gaveUp
               PROVE  Kept(p)'
    BY DEF MemoryKept, Kept
  <2>0. Kept(p)
    BY <1>0 DEF MemoryKept, Kept
  <2>1. CASE p \in S
    <3>1. given'[p] = {who} /\ wrote'[p] = "zero" /\ text'[p] = "zero"
      BY <1>1, <2>1 DEF Handed
    <3>2. p \notin HeapPages(brksize) /\ p \notin PagesOf(0, BrkBase)
      BY <1>0, <2>1 DEF Outside
    <3>3. who = "stack" <=> p \in stack'
      BY <2>1 DEF StackMoves
    <3> QED BY <1>1, <2>1, <3>1, <3>2, <3>3 DEF Kept
  <2>2. CASE p \notin S
    <3>1. given'[p] = given[p] /\ wrote'[p] = wrote[p] /\ text'[p] = text[p]
      BY <1>1, <2>2 DEF Handed
    <3>2. p \in stack' <=> p \in stack
      BY <2>2 DEF StackMoves
    <3> QED BY <1>1, <2>0, <3>1, <3>2 DEF Kept
  <2> QED BY <2>1, <2>2
<1>5. Reserved'
  BY <1>0, <1>1 DEF Reserved, Outside, Handed
<1> QED BY <1>3, <1>4, <1>5 DEF KInv

\* sys_munmap and lfi_thread_free: pages outside the heap belong to nobody.
LEMMA UnmapStep ==
    ASSUME KInv, NEW S \in SUBSET BoxPage, Withdraw(S), Handed(S, {}),
           UNCHANGED <<brksize, gaveUp, wrote>>, Outside(S), StackStays(S)
    PROVE  KInv'
<1>0. /\ MemTypes /\ MemoryKept /\ Reserved /\ Region \subseteq BoxPage
      /\ HeapPages(brksize) \subseteq Region
  BY HeapInside
<1>1. /\ tracked' = tracked \ S /\ access' = access \ S
      /\ tracked' \subseteq BoxPage /\ access' \subseteq BoxPage
      /\ text' \in [BoxPage -> Text]
      /\ \A p \in BoxPage : text'[p] = IF p \in S THEN "zero" ELSE text[p]
  BY <1>0, Withdrawn
<1>3. MemTypes'
  BY <1>0, <1>1 DEF MemTypes, StackStays, Handed
<1>4. MemoryKept'
  <2> SUFFICES ASSUME NEW p \in BoxPage, p \notin gaveUp
               PROVE  Kept(p)'
    BY DEF MemoryKept, Kept
  <2>0. Kept(p)
    BY <1>0 DEF MemoryKept, Kept
  <2>1. CASE p \in S
    <3>1. given'[p] = {}
      BY <2>1 DEF Handed
    <3>2. p \notin HeapPages(brksize) /\ p \notin PagesOf(0, BrkBase) /\ p \notin stack'
      BY <1>0, <2>1 DEF Outside, StackStays
    <3> QED BY <3>1, <3>2 DEF Kept
  <2>2. CASE p \notin S
    <3>1. given'[p] = given[p] /\ text'[p] = text[p]
      BY <1>1, <2>2 DEF Handed
    <3>2. p \in stack' <=> p \in stack
      BY <2>2 DEF StackStays
    <3> QED BY <1>1, <2>0, <2>2, <3>1, <3>2 DEF Kept
  <2> QED BY <2>1, <2>2
<1>5. Reserved'
  BY <1>0, <1>1 DEF Reserved, Outside, Handed
<1> QED BY <1>3, <1>4, <1>5 DEF KInv

\* Pages that nobody holds are given to who alone, and fresh.
LEMMA GivenFree ==
    ASSUME KInv, NEW S \in SUBSET BoxPage, NEW who \in {"map", "stack"}, GiveTo(S, who),
           \A p \in S \ gaveUp : given[p] = {}
    PROVE  /\ Handed(S, {who}) /\ wrote' \in [BoxPage -> Text]
           /\ \A p \in BoxPage \ gaveUp : wrote'[p] = IF p \in S THEN "zero" ELSE wrote[p]
<1>1. MemTypes /\ who \in Holders
  BY DEF KInv, Holders
<1>2. /\ given' \in [BoxPage -> SUBSET Holders] /\ wrote' \in [BoxPage -> Text]
      /\ \A p \in BoxPage :
           /\ given'[p] = IF p \in S THEN given[p] \cup {who} ELSE given[p]
           /\ wrote'[p] = IF p \in S /\ given[p] = {} THEN "zero" ELSE wrote[p]
  BY <1>1, GivenTo
<1> QED BY <1>2 DEF Handed

\* Pages that who holds, and so nobody else, are given back.
LEMMA HandedBack ==
    ASSUME KInv, NEW S \in SUBSET BoxPage, NEW who, TakeBack(S, who),
           \A p \in S \ gaveUp : who \in given[p]
    PROVE  Handed(S, {})
<1>1. /\ given' \in [BoxPage -> SUBSET Holders]
      /\ \A p \in BoxPage : given'[p] = IF p \in S THEN given[p] \ {who} ELSE given[p]
  BY TakenBack DEF KInv
<1>2. ASSUME NEW p \in S, p \notin gaveUp
      PROVE  given[p] \ {who} = {}
  <2>1. who \in given[p] /\ \A u, v \in given[p] : u = v
    BY <1>2 DEF KInv, MemoryKept
  <2> QED BY <2>1
<1> QED BY <1>1, <1>2 DEF Handed

\* What a call finds untracked, or was given by mmap, is outside.
LEMMA RoomOutside ==
    ASSUME KInv, NEW S \in SUBSET BoxPage, S \cap tracked = {}
    PROVE  /\ Outside(S) /\ S \cap stack \subseteq gaveUp
           /\ \A p \in S \ gaveUp : given[p] = {}
<1>1. \A p \in S \ gaveUp : given[p] = {}
  BY DEF KInv, MemoryKept
<1>2. Outside(S) /\ S \cap stack \subseteq gaveUp
  BY <1>1 DEF KInv, MemoryKept, Reserved, Outside, MemTypes
<1> QED BY <1>1, <1>2

\* What the program was given by mmap is outside as well.
LEMMA MineOutside ==
    ASSUME KInv, NEW S \in SUBSET BoxPage, Mine(S)
    PROVE  /\ Outside(S) /\ S \cap stack \subseteq gaveUp
           /\ \A p \in S \ gaveUp : given[p] = {"map"}
<1>1. ASSUME NEW p \in S, p \notin gaveUp
      PROVE  given[p] = {"map"} /\ p \notin stack /\ p \notin Region /\ p \notin PagesOf(0, BrkBase)
  <2>1. "map" \in given[p] /\ Kept(p)
    BY <1>1 DEF Mine, KInv, MemoryKept, Kept
  <2>2. \A u \in given[p] : u = "map"
    BY <2>1 DEF Kept
  <2>3. given[p] = {"map"}
    BY <2>1, <2>2
  <2>4. p \notin stack /\ p \notin PagesOf(0, BrkBase)
    BY <2>1, <2>3 DEF Kept
  <2>5. p \notin Region
    BY <1>1, <2>1 DEF KInv, Reserved
  <2> QED BY <2>3, <2>4, <2>5
<1> QED BY <1>1 DEF Outside

\* So is a stack that was mapped.
LEMMA StackOutside ==
    ASSUME KInv
    PROVE  /\ Outside(stack) /\ stack \in SUBSET BoxPage
           /\ \A p \in stack \ gaveUp : "stack" \in given[p]
<1>1. stack \in SUBSET BoxPage /\ \A p \in stack \ gaveUp : "stack" \in given[p]
  BY DEF KInv, MemoryKept, MemTypes
<1>2. ASSUME NEW p \in stack, p \notin gaveUp
      PROVE  p \notin Region /\ p \notin PagesOf(0, BrkBase)
  <2>1. Kept(p) /\ "stack" \in given[p]
    BY <1>1, <1>2 DEF KInv, MemoryKept, Kept
  <2>2. p \notin PagesOf(0, BrkBase)
    BY <2>1 DEF Kept
  <2>3. p \notin Region
    BY <1>2, <2>1 DEF KInv, Reserved
  <2> QED BY <2>2, <2>3
<1> QED BY <1>1, <1>2 DEF Outside

\* So is the top of the box, when places are fixed.
LEMMA TopOutside ==
    ASSUME NoAslr, StackApart
    PROVE  Outside(TopStack) /\ TopStack \in SUBSET BoxPage
<1>0. /\ NPages \in Nat /\ StackPages \in 1..NPages /\ PageSize \in Nat
      /\ BrkBase \in Nat /\ BrkSize \in Nat
  BY MemoryAssumption
<1>1. /\ Up(BrkBase) <= Up(BrkBase + BrkSize) /\ Up(BrkBase + BrkSize) \in Int /\ Up(BrkBase) \in Int
      /\ Up(BrkBase + BrkSize) <= (NPages - StackPages) * PageSize
  BY <1>0, UpMonotone, Upward DEF StackApart
<1>2. ASSUME NEW p \in (NPages - StackPages)..(NPages - 1)
      PROVE  p \notin Region /\ p \notin PagesOf(0, BrkBase)
  <2>1. NPages - StackPages \in Int /\ p \in Int /\ NPages - StackPages <= p
    BY <1>0
  <2>2. (NPages - StackPages) * PageSize <= p * PageSize
        /\ (NPages - StackPages) * PageSize \in Int /\ p * PageSize \in Int
    BY <2>1, Times
  <2> QED BY <1>1, <2>2 DEF Region, PagesOf
<1>3. (NPages - StackPages)..(NPages - 1) \in SUBSET BoxPage
  BY <1>0 DEF BoxPage
<1> QED BY <1>2, <1>3 DEF Outside, TopStack

\* Page owners, the tracker, access rights and contents agree after every brk,
\* mmap, munmap, stack mapping and store, for any box and page size.
THEOREM MemoryInvariance ==
    ASSUME StackApart
    PROVE  MemInit /\ [][MemNext /\ StackFirst]_memVars => []KInv
<1>1. MemInit => KInv
  <2> SUFFICES ASSUME MemInit PROVE KInv
    OBVIOUS
  <2> DEFINE image == PagesOf(0, BrkBase)
  <2>1. /\ brksize = 0 /\ 0 \in 0..BrkSize /\ HeapPages(0) = {} /\ Region \cap image = {}
        /\ image \subseteq BoxPage /\ Region \subseteq BoxPage
    <3>1. BrkSize \in Nat /\ 0 \in 0..BrkSize /\ 0 <= 0
      BY MemoryAssumption
    <3> QED BY <3>1, HeapArea DEF MemInit, PagesOf, Region
  <2>2. /\ tracked = image \cup Region /\ access = image /\ stack = {} /\ gaveUp = {} /\ wrote = text
        /\ text = [p \in BoxPage |-> IF p \in image THEN "data" ELSE "zero"]
        /\ given = [p \in BoxPage |-> IF p \in image THEN {"image"} ELSE {}]
    BY DEF MemInit
  <2> HIDE DEF image
  <2>3. MemTypes
    BY <2>1, <2>2 DEF MemTypes, Text, Holders
  <2>4. Reserved
    BY <2>1, <2>2 DEF Reserved
  <2>5. MemoryKept
    BY <2>1, <2>2 DEF MemoryKept, image
  <2> QED BY <2>3, <2>4, <2>5 DEF KInv
<1>2. KInv /\ [MemNext /\ StackFirst]_memVars => KInv'
  <2> SUFFICES ASSUME KInv, [MemNext /\ StackFirst]_memVars PROVE KInv'
    OBVIOUS
  <2>1. ASSUME NEW a \in 0..(NPages * PageSize), BrkMove(a) \/ BrkGrow(a)
        PROVE  KInv'
    BY <2>1, MoveStep, GrowStep
  <2>2. ASSUME NEW n \in 1..NPages, MmapAny(n)
        PROVE  KInv'
    <3>1. PICK S \in Room(n) : MapFixed(S) /\ GiveTo(S, "map")
      BY <2>2 DEF MmapAny
    <3>2. S \in SUBSET BoxPage /\ S \cap tracked = {} /\ UNCHANGED <<brksize, stack, gaveUp>>
      BY <2>2 DEF Room, Runs, MmapAny
    <3>3. Outside(S) /\ StackMoves("map", S) /\ \A p \in S \ gaveUp : given[p] = {}
      BY <3>2, RoomOutside DEF StackMoves
    <3>4. /\ Handed(S, {"map"}) /\ wrote' \in [BoxPage -> Text]
          /\ \A p \in BoxPage \ gaveUp : wrote'[p] = IF p \in S THEN "zero" ELSE wrote[p]
      BY <3>1, <3>2, <3>3, GivenFree
    <3> QED BY <3>1, <3>2, <3>3, <3>4, MapStep
  <2>3. ASSUME NEW S \in Spans, MmapFixed(S) \/ Munmap(S)
        PROVE  KInv'
    <3>1. S \in SUBSET BoxPage /\ Mine(S) /\ UNCHANGED <<brksize, stack, gaveUp>>
      BY <2>3, MemoryAssumption DEF Spans, BoxPage, MmapFixed, Munmap
    <3>2. /\ Outside(S) /\ StackMoves("map", S) /\ StackStays(S)
          /\ \A p \in S \ gaveUp : given[p] = {"map"}
      BY <3>1, MineOutside DEF StackMoves, StackStays
    <3>3. CASE MapFixed(S) /\ wrote' = Cleared(wrote, S) /\ UNCHANGED given
      <4>1. /\ wrote' \in [BoxPage -> Text]
            /\ \A p \in BoxPage : wrote'[p] = IF p \in S THEN "zero" ELSE wrote[p]
        BY <3>3, ClearedIs DEF KInv, MemTypes
      <4>2. Handed(S, {"map"})
        BY <3>2, <3>3 DEF Handed, KInv, MemTypes
      <4> QED BY <3>1, <3>2, <3>3, <4>1, <4>2, MapStep
    <3>4. CASE Withdraw(S) /\ TakeBack(S, "map") /\ UNCHANGED wrote
      <4>1. Handed(S, {})
        BY <3>1, <3>2, <3>4, HandedBack
      <4> QED BY <3>1, <3>2, <3>4, <4>1, UnmapStep
    <3> QED BY <2>3, <3>3, <3>4 DEF MmapFixed, Munmap
  <2>4. ASSUME MapStack, StackFirst
        PROVE  KInv'
    <3>1. PICK S \in StackPlaces :
            \/ MapFixed(S) /\ GiveTo(S, "stack") /\ stack' = S
            \/ NoAslr /\ Withdraw(S) /\ UNCHANGED <<given, wrote, stack>>
      BY <2>4 DEF MapStack
    <3>2. stack = {} /\ UNCHANGED <<brksize, gaveUp>>
      BY <2>4 DEF MapStack
    <3>3. S \in SUBSET BoxPage /\ Outside(S) /\ \A p \in S \ gaveUp : given[p] = {}
      <4>1. CASE NoAslr
        <5>1. S = TopStack
          BY <4>1 DEF StackPlaces
        <5>2. \A p \in S : given[p] = {}
          BY <2>4, <4>1, <5>1 DEF StackFirst
        <5> QED BY <4>1, <5>1, <5>2, TopOutside
      <4>2. CASE ~NoAslr
        <5>1. S \in SUBSET BoxPage /\ S \cap tracked = {}
          BY <4>2 DEF StackPlaces, Room, Runs
        <5> QED BY <5>1, RoomOutside
      <4> QED BY <4>1, <4>2
    <3>4. CASE MapFixed(S) /\ GiveTo(S, "stack") /\ stack' = S
      <4>1. StackMoves("stack", S)
        BY <3>2, <3>4 DEF StackMoves
      <4>2. /\ Handed(S, {"stack"}) /\ wrote' \in [BoxPage -> Text]
            /\ \A p \in BoxPage \ gaveUp : wrote'[p] = IF p \in S THEN "zero" ELSE wrote[p]
        BY <3>3, <3>4, GivenFree
      <4> QED BY <3>2, <3>3, <3>4, <4>1, <4>2, MapStep
    <3>5. CASE Withdraw(S) /\ UNCHANGED <<given, wrote, stack>>
      <4>1. Handed(S, {})
        BY <3>3, <3>5 DEF Handed, KInv, MemTypes
      <4>2. StackStays(S)
        BY <3>2, <3>5 DEF StackStays
      <4> QED BY <3>2, <3>3, <3>5, <4>1, <4>2, UnmapStep
    <3> QED BY <3>1, <3>4, <3>5
  <2>5. ASSUME FreeStack
        PROVE  KInv'
    <3>1. /\ Withdraw(stack) /\ TakeBack(stack, "stack") /\ StackStays(stack)
          /\ UNCHANGED <<brksize, gaveUp, wrote>>
      BY <2>5 DEF FreeStack, StackStays
    <3>2. Handed(stack, {})
      BY <3>1, StackOutside, HandedBack
    <3> QED BY <3>1, <3>2, StackOutside, UnmapStep
  <2>6. ASSUME NEW p \in BoxPage, StorePage(p)
        PROVE  KInv'
    <3>1. /\ text' = [text EXCEPT ![p] = "data"] /\ wrote' = [wrote EXCEPT ![p] = "data"]
          /\ UNCHANGED <<tracked, access, brksize, stack, given, gaveUp>>
      BY <2>6 DEF StorePage
    <3>2. MemTypes'
      BY <3>1 DEF KInv, MemTypes, Text
    <3>3. MemoryKept'
      <4> SUFFICES ASSUME NEW q \in BoxPage, q \notin gaveUp
                   PROVE  Kept(q)'
        BY <3>1 DEF MemoryKept, Kept
      <4>1. Kept(q)
        BY DEF KInv, MemoryKept, Kept
      <4>2. q = p => text'[q] = "data" /\ wrote'[q] = "data"
        BY <3>1 DEF KInv, MemTypes
      <4>3. q # p => text'[q] = text[q] /\ wrote'[q] = wrote[q]
        BY <3>1 DEF KInv, MemTypes
      <4> QED BY <3>1, <4>1, <4>2, <4>3 DEF Kept
    <3>4. Reserved'
      BY <3>1 DEF KInv, Reserved
    <3> QED BY <3>2, <3>3, <3>4 DEF KInv
  <2>7. CASE UNCHANGED memVars
    BY <2>7 DEF memVars, KInv, MemTypes, MemoryKept, Reserved
  <2> QED BY <2>1, <2>2, <2>3, <2>4, <2>5, <2>6, <2>7 DEF MemNext
<1> QED BY <1>1, <1>2, PTL

\* A page that brk, mmap or the stack handed out stays accessible, tracked,
\* with what was written to it and in one hand until its holder gives it back,
\* for any box and page size and wherever mappings are placed: sys_brk.c,
\* sys_mmap.c, sys_munmap.c and the stack of thread.c.  With no_aslr the stack is
\* mapped first (StackFirst); without, that says nothing.
THEOREM MemoryStaysKept ==
    ASSUME StackApart
    PROVE  MemInit /\ [][MemNext /\ StackFirst]_memVars => []MemoryKept
<1>1. MemInit /\ [][MemNext /\ StackFirst]_memVars => []KInv
  BY MemoryInvariance
<1>2. KInv => MemoryKept
  BY DEF KInv
<1> QED BY <1>1, <1>2, PTL

-----------------------------------------------------------------------------
(* The address space of an engine. *)

\* A guard around every region, and one inside or behind every box: arm64, and
\* x86-64 without protection keys (core.h, BOX_INTERNAL_GUARD and below).
Guarded == \A c \in Configs : c.region > 0 /\ c.internal + c.external > 0

\* A guard behind every box: x86-64.
GuardsBetween == \A c \in Configs : c.external > 0 /\ c.region > 0

\* The chunks and the pages from one box to where the next may start.
Slots == Chunks(Footprint)
Stride == Slots * Chunk

\* What a page of the host may belong to.
Owners ==
    {<<"other">>, <<"free">>, <<"reserved">>, <<"forgotten">>}
      \cup {<<"sys", b>> : b \in Box} \cup {<<"box", b>> : b \in Box}

\* struct BoxMapRegion.
RegionRecord == [base : Int, size : Int, bits : SUBSET Int, active : Int, mapbase : Int, mapsize : Int]

SpaceTypes ==
    /\ guards \in Configs
    /\ va \in [Unit -> Owners]
    /\ phase \in {"new", "reserving", "up", "failed", "freed"}
    /\ left \in [total : Int, got : Int]
    /\ regions \in Seq(RegionRecord)
    /\ boxes \in [Box -> Int]
    /\ holes \subseteq Unit

\* Regions lie in the host's space, with their guards, one beside the other.
RegionsIn ==
    \A i \in DOMAIN regions :
        /\ 1 <= regions[i].mapbase /\ 1 <= regions[i].mapsize
        /\ regions[i].mapbase + regions[i].mapsize <= NUnits + 1
        /\ regions[i].mapbase + guards.region <= regions[i].base
        /\ regions[i].base + regions[i].size + guards.region <= regions[i].mapbase + regions[i].mapsize
RegionsApart ==
    \A i, j \in DOMAIN regions : i # j =>
        \/ regions[i].mapbase + regions[i].mapsize <= regions[j].mapbase
        \/ regions[j].mapbase + regions[j].mapsize <= regions[i].mapbase

\* A box at a starts at chunk k of region i, which has room for it.
Slot(a, i, k) ==
    /\ a = regions[i].base + k * Chunk
    /\ k + Slots <= regions[i].size \div Chunk
Placed == \A b \in Live : \E i \in DOMAIN regions : \E k \in Nat : Slot(boxes[b], i, k)
\* Boxes keep their distance.
Disjoint ==
    \A b, c \in Live : b # c => boxes[b] + Stride <= boxes[c] \/ boxes[c] + Stride <= boxes[b]

InRegions(u) == \E i \in DOMAIN regions : u \in From(regions[i].mapbase, regions[i].mapsize)
\* The labels of the pages are those of the boxes and regions.
Labels ==
    \A u \in Unit :
        /\ \A b \in Box : va[u] = <<"sys", b>> <=> (boxes[b] # 0 /\ u = SysPage(boxes[b]))
        /\ \A b \in Box : va[u] = <<"box", b>> <=> (boxes[b] # 0 /\ u \in Usable(boxes[b]))
        /\ va[u] = <<"reserved">> => InRegions(u)
        /\ InRegions(u) => u \in holes \/ va[u] \notin {<<"free">>, <<"other">>, <<"forgotten">>}

\* What there is before lfi_new is done and after lfi_free.
Stage ==
    /\ phase # "up" => Live = {}
    /\ phase \in {"new", "failed", "freed"} => regions = <<>>
    /\ phase \in {"new", "reserving"} => holes = {}

\* The bits and the counts of the regions are those of their boxes.
BoxesOf(i) == {b \in Live : boxes[b] \in From(regions[i].base, regions[i].size)}
Accounted ==
    \A i \in DOMAIN regions :
       /\ regions[i].active = Cardinality(BoxesOf(i))
       /\ \A x : x \in regions[i].bits <=> \E b \in BoxesOf(i) : x \in Bits(regions[i], boxes[b], Footprint)

\* The inductive invariant.
SpInv == SpaceTypes /\ RegionsIn /\ RegionsApart /\ Placed /\ Disjoint /\ Labels /\ Stage /\ Accounted

-----------------------------------------------------------------------------
\* Chunk numbers and addresses.
LEMMA Multiples ==
    ASSUME NEW k \in Int, NEW l \in Int
    PROVE  /\ k * Chunk \in Int /\ l * Chunk \in Int
           /\ (k + l) * Chunk = k * Chunk + l * Chunk
           /\ k <= l => k * Chunk <= l * Chunk
           /\ k < l => k * Chunk < l * Chunk
           /\ (k * Chunk) \div Chunk = k
<1>1. Chunk \in Nat /\ Chunk > 0
  BY SpacesAssumption
<1>2. k * Chunk \in Int /\ l * Chunk \in Int /\ (k + l) * Chunk = k * Chunk + l * Chunk
  BY <1>1
<1>3. k <= l => k * Chunk <= l * Chunk
  BY <1>1
<1>4. k < l => k * Chunk < l * Chunk
  BY <1>1
<1>5. (k * Chunk) \div Chunk = k
  BY <1>1
<1> QED BY <1>2, <1>3, <1>4, <1>5

\* Rounding down to a chunk.
LEMMA Division ==
    ASSUME NEW x \in Int
    PROVE  /\ x \div Chunk \in Int /\ (x \div Chunk) * Chunk \in Int
           /\ (x \div Chunk) * Chunk <= x /\ x < (x \div Chunk) * Chunk + Chunk
           /\ Floor(x) = (x \div Chunk) * Chunk
           /\ Floor(x) \in Int /\ Floor(x) <= x /\ x < Floor(x) + Chunk
<1>1. Chunk \in Nat /\ Chunk > 0
  BY SpacesAssumption
<1>2. x \div Chunk \in Int /\ x % Chunk \in 0..(Chunk - 1) /\ x = Chunk * (x \div Chunk) + (x % Chunk)
  BY <1>1
<1>3. (x \div Chunk) * Chunk = Chunk * (x \div Chunk) /\ (x \div Chunk) * Chunk \in Int
  BY <1>1, <1>2
<1> QED BY <1>1, <1>2, <1>3 DEF Floor

\* What the guards of the configuration mean for the distance of boxes.
LEMMA Strides ==
    ASSUME Guarded, guards \in Configs
    PROVE  /\ guards.internal \in Nat /\ guards.external \in Nat /\ guards.region \in Nat /\ guards.n \in Nat
           /\ guards.internal + guards.external > 0 /\ guards.region > 0
           /\ Footprint \in Nat /\ Footprint = BoxSize + guards.external /\ BoxSize \in Nat /\ BoxSize > 0
           /\ Slots \in Nat /\ Slots > 0 /\ Stride \in Nat /\ Footprint <= Stride
           /\ Chunk \in Nat /\ Chunk > 0 /\ Stride = Slots * Chunk
<1>1. /\ guards.internal \in Nat /\ guards.external \in Nat /\ guards.region \in Nat /\ guards.n \in Nat
      /\ guards.internal + guards.external > 0 /\ guards.region > 0 /\ BoxSize \in Nat /\ BoxSize > 0
      /\ Chunk \in Nat /\ Chunk > 0
  BY SpacesAssumption DEF Guarded
<1>2. Footprint \in Nat /\ Footprint = BoxSize + guards.external /\ Footprint > 0
  BY <1>1 DEF Footprint
<1>3. /\ Slots = (Footprint + Chunk - 1) \div Chunk /\ Footprint + Chunk - 1 \in Int
  BY <1>1, <1>2 DEF Slots, Chunks
<1>4. Slots \in Int /\ Slots * Chunk \in Int /\ Footprint + Chunk - 1 < Slots * Chunk + Chunk
  BY <1>3, Division
<1>5. Footprint <= Slots * Chunk
  BY <1>1, <1>2, <1>4
<1>6. Slots > 0
  <2>1. SUFFICES ASSUME Slots <= 0 PROVE FALSE
    BY <1>4
  <2>2. Slots * Chunk <= 0 * Chunk /\ 0 * Chunk = 0
    BY <2>1, <1>1, <1>4, Multiples
  <2> QED BY <1>2, <1>4, <1>5, <2>2
<1> QED BY <1>1, <1>2, <1>4, <1>5, <1>6 DEF Stride

\* Non-empty sets of numbers from 0 have a least one.
LEMMA LeastOf ==
    ASSUME NEW S \in SUBSET Nat, S # {}
    PROVE  \E x \in S : \A y \in S : x <= y
<1> DEFINE R == OpToRel(<, Nat)
<1>1. IsWellFoundedOn(R, Nat)
  BY NatLessThanWellFounded
<1>2. PICK x \in S : \A y \in S : ~(<<y, x>> \in R)
  <2> HIDE DEF R
  <2> QED BY <1>1, WFMin
<1>3. \A y \in S : ~(y < x)
  BY <1>2 DEF OpToRel
<1> QED BY <1>3

\* bitvec_find_zeroes finds chunks of the region that are all free.
LEMMA Found ==
    ASSUME NEW r \in RegionRecord, NEW n \in Nat, n > 0, FindZeroes(r, n) # -1
    PROVE  /\ FindZeroes(r, n) \in Nat
           /\ From(FindZeroes(r, n), n) \cap r.bits = {}
           /\ FindZeroes(r, n) + n <= r.size \div Chunk
           /\ \A h \in Nat : h + n <= r.size \div Chunk /\ From(h, n) \cap r.bits = {}
                 => FindZeroes(r, n) <= h
<1> DEFINE E == FreeEnds(r, n)
           e == CHOOSE i \in E : \A j \in E : i <= j
<1>1. r.size \in Int /\ r.size \div Chunk \in Int
  BY Division DEF RegionRecord
<1>2. E # {} /\ FindZeroes(r, n) = e - n + 1
  BY DEF FindZeroes
<1>3. E \in SUBSET Nat
  BY <1>1 DEF FreeEnds
<1>4. \E i \in E : \A j \in E : i <= j
  <2> HIDE DEF E
  <2> QED BY <1>2, <1>3, LeastOf
<1>5. e \in E
  BY <1>4
<1>8. \A j \in E : e <= j
  BY <1>4
<1> HIDE DEF e
<1>6. /\ e \in 0..(r.size \div Chunk - 1) /\ e - n + 1 >= 0
      /\ (e - n + 1)..e \cap r.bits = {}
  BY <1>5 DEF FreeEnds
<1>7. e \in Int /\ From(e - n + 1, n) = (e - n + 1)..e
  BY <1>1, <1>6 DEF From
<1>9. ASSUME NEW h \in Nat, h + n <= r.size \div Chunk, From(h, n) \cap r.bits = {}
      PROVE  e - n + 1 <= h
  <2>1. h + n - 1 \in E
    <3>1. h + n - 1 \in 0..(r.size \div Chunk - 1) /\ (h + n - 1) - n + 1 = h
      BY <1>1, <1>9
    <3> QED BY <1>9, <3>1 DEF FreeEnds, From
  <2>2. e <= h + n - 1
    BY <1>8, <2>1
  <2> QED BY <1>7, <2>2
<1> QED BY <1>1, <1>2, <1>6, <1>7, <1>9

\* It finds some if there are any.
LEMMA FoundSome ==
    ASSUME NEW r \in RegionRecord, NEW n \in Nat, n > 0,
           NEW h \in Nat, h + n <= r.size \div Chunk, From(h, n) \cap r.bits = {}
    PROVE  FindZeroes(r, n) # -1
<1> DEFINE E == FreeEnds(r, n)
           e == CHOOSE i \in E : \A j \in E : i <= j
<1>1. r.size \in Int /\ r.size \div Chunk \in Int
  BY Division DEF RegionRecord
<1>2. h + n - 1 \in E
  <2>1. h + n - 1 \in 0..(r.size \div Chunk - 1) /\ (h + n - 1) - n + 1 = h
    BY <1>1
  <2> QED BY <2>1 DEF FreeEnds, From
<1>3. E \in SUBSET Nat
  BY <1>1 DEF FreeEnds
<1>4. e \in E
  <2> HIDE DEF E
  <2> QED BY <1>2, <1>3, LeastOf
<1>5. FindZeroes(r, n) = e - n + 1
  BY <1>2 DEF FindZeroes
<1> HIDE DEF e
<1>6. e \in Int /\ e - n + 1 >= 0
  BY <1>1, <1>4 DEF FreeEnds
<1> QED BY <1>5, <1>6

\* A region is a record of numbers.
LEMMA RegionIs ==
    ASSUME SpInv, NEW i \in DOMAIN regions
    PROVE  /\ regions[i] \in RegionRecord
           /\ regions[i].base \in Int /\ regions[i].size \in Int
           /\ regions[i].mapbase \in Int /\ regions[i].mapsize \in Int
           /\ regions[i].active \in Int /\ regions[i].bits \subseteq Int
           /\ regions[i].size \div Chunk \in Int
           /\ (regions[i].size \div Chunk) * Chunk \in Int
           /\ (regions[i].size \div Chunk) * Chunk <= regions[i].size
           /\ i \in Nat
<1>1. regions \in Seq(RegionRecord)
  BY DEF SpInv, SpaceTypes
<1>2. regions[i] \in RegionRecord /\ i \in Nat
  BY <1>1
<1>3. regions[i].size \in Int
  BY <1>2 DEF RegionRecord
<1> QED BY <1>2, <1>3, Division DEF RegionRecord

\* The guards are those of one of the configurations.
LEMMA Configured == SpInv => guards \in Configs
BY DEF SpInv, SpaceTypes

\* Where a box in a slot lies.
LEMMA Extent ==
    ASSUME Guarded, SpInv, NEW i \in DOMAIN regions, NEW k \in Nat, NEW a, Slot(a, i, k)
    PROVE  /\ a \in Int /\ regions[i].base <= a /\ a + Stride <= regions[i].base + regions[i].size
           /\ a \in From(regions[i].base, regions[i].size)
           /\ regions[i].mapbase <= a - 1 /\ 1 <= a - 1
           /\ a + Stride <= regions[i].mapbase + regions[i].mapsize - 1
           /\ a + Stride <= NUnits
           /\ Bits(regions[i], a, Footprint) = From(k, Slots)
<1>0. /\ guards.region \in Nat /\ guards.region > 0 /\ Chunk \in Nat /\ Chunk > 0
      /\ Slots \in Nat /\ Slots > 0 /\ Stride \in Nat /\ Stride = Slots * Chunk
      /\ Footprint \in Nat /\ Footprint <= Stride /\ Footprint > 0
  BY Strides, Configured
<1>1. /\ regions[i].base \in Int /\ regions[i].size \in Int
      /\ regions[i].mapbase \in Int /\ regions[i].mapsize \in Int
      /\ regions[i].size \div Chunk \in Int
      /\ (regions[i].size \div Chunk) * Chunk \in Int
      /\ (regions[i].size \div Chunk) * Chunk <= regions[i].size
  BY RegionIs
<1>2. /\ 1 <= regions[i].mapbase
      /\ regions[i].mapbase + regions[i].mapsize <= NUnits + 1
      /\ regions[i].mapbase + guards.region <= regions[i].base
      /\ regions[i].base + regions[i].size + guards.region <= regions[i].mapbase + regions[i].mapsize
  BY DEF SpInv, RegionsIn
<1>3. a = regions[i].base + k * Chunk /\ k + Slots <= regions[i].size \div Chunk
  BY DEF Slot
<1>4. /\ k * Chunk \in Int /\ 0 * Chunk <= k * Chunk /\ 0 * Chunk = 0
      /\ (k + Slots) * Chunk = k * Chunk + Stride /\ (k * Chunk) \div Chunk = k
  BY <1>0, Multiples
<1>5. (k + Slots) * Chunk <= (regions[i].size \div Chunk) * Chunk
  <2>1. k + Slots \in Int
    BY <1>0
  <2> QED BY <1>1, <1>3, <2>1, Multiples
<1>6. /\ a \in Int /\ regions[i].base <= a /\ a + Stride <= regions[i].base + regions[i].size
  BY <1>0, <1>1, <1>3, <1>4, <1>5
<1>7. NUnits \in Int
  BY SpacesAssumption
<1>8. Bits(regions[i], a, Footprint) = From(k, Slots)
  <2>1. a - regions[i].base = k * Chunk
    BY <1>1, <1>3, <1>4
  <2> QED BY <1>4, <2>1 DEF Bits, Slots
<1>9. a \in From(regions[i].base, regions[i].size)
  BY <1>0, <1>1, <1>6 DEF From
<1> QED BY <1>0, <1>1, <1>2, <1>6, <1>7, <1>8, <1>9

\* Different slots keep their distance.
LEMMA SlotsApart ==
    ASSUME Guarded, SpInv,
           NEW i \in DOMAIN regions, NEW k \in Nat, NEW a, Slot(a, i, k),
           NEW j \in DOMAIN regions, NEW l \in Nat, NEW c, Slot(c, j, l)
    PROVE  /\ i # j \/ k + Slots <= l \/ l + Slots <= k => a + Stride <= c \/ c + Stride <= a
           /\ i = j /\ a + Stride <= c => k + Slots <= l
<1>0. /\ Chunk \in Nat /\ Slots \in Nat /\ Slots > 0 /\ Stride \in Nat /\ Stride = Slots * Chunk
  BY Strides, Configured
<1>1. /\ a \in Int /\ c \in Int
      /\ regions[i].mapbase <= a - 1 /\ a + Stride <= regions[i].mapbase + regions[i].mapsize - 1
      /\ regions[j].mapbase <= c - 1 /\ c + Stride <= regions[j].mapbase + regions[j].mapsize - 1
  BY Extent
<1>2. /\ regions[i].mapbase \in Int /\ regions[i].mapsize \in Int /\ regions[i].base \in Int
      /\ regions[j].mapbase \in Int /\ regions[j].mapsize \in Int
  BY RegionIs
<1>3. CASE i # j
  <2>1. \/ regions[i].mapbase + regions[i].mapsize <= regions[j].mapbase
        \/ regions[j].mapbase + regions[j].mapsize <= regions[i].mapbase
    BY <1>3 DEF SpInv, RegionsApart
  <2> QED BY <1>0, <1>1, <1>2, <1>3, <2>1
<1>4. CASE i = j
  <2>1. /\ a = regions[i].base + k * Chunk /\ c = regions[i].base + l * Chunk
    BY <1>4 DEF Slot
  <2>2. /\ k * Chunk \in Int /\ l * Chunk \in Int
        /\ (k + Slots) * Chunk = k * Chunk + Stride
        /\ (l + Slots) * Chunk = l * Chunk + Stride
    BY <1>0, Multiples
  <2>7. k + Slots \in Int /\ l + Slots \in Int /\ l \in Int /\ k \in Int
    BY <1>0
  <2>3. k + Slots <= l => (k + Slots) * Chunk <= l * Chunk
    BY <2>7, Multiples
  <2>4. l + Slots <= k => (l + Slots) * Chunk <= k * Chunk
    BY <2>7, Multiples
  <2>5. l < k + Slots => l * Chunk < (k + Slots) * Chunk
    BY <2>7, Multiples
  <2>6. k + Slots <= l \/ l < k + Slots
    BY <1>0
  <2> QED BY <1>0, <1>2, <1>4, <2>1, <2>2, <2>3, <2>4, <2>5, <2>6
<1> QED BY <1>3, <1>4

\* A slot is in one region.
LEMMA OneRegion ==
    ASSUME Guarded, SpInv, NEW i \in DOMAIN regions, NEW k \in Nat, NEW a, Slot(a, i, k),
           NEW j \in DOMAIN regions, a \in From(regions[j].base, regions[j].size)
    PROVE  i = j
<1>0. guards.region \in Nat
  BY Strides, Configured
<1>1. /\ a \in Int /\ regions[i].mapbase <= a - 1 /\ Stride \in Nat
      /\ a + Stride <= regions[i].mapbase + regions[i].mapsize - 1
  BY Extent, Strides DEF SpInv, SpaceTypes
<1>2. /\ regions[i].mapbase \in Int /\ regions[i].mapsize \in Int
      /\ regions[j].mapbase \in Int /\ regions[j].mapsize \in Int
      /\ regions[j].base \in Int /\ regions[j].size \in Int
  BY RegionIs
<1>3. /\ regions[j].mapbase + guards.region <= regions[j].base
      /\ regions[j].base + regions[j].size + guards.region <= regions[j].mapbase + regions[j].mapsize
  BY DEF SpInv, RegionsIn
<1>4. regions[j].base <= a /\ a <= regions[j].base + regions[j].size - 1
  BY <1>1, <1>2 DEF From
<1>5. i # j => \/ regions[i].mapbase + regions[i].mapsize <= regions[j].mapbase
               \/ regions[j].mapbase + regions[j].mapsize <= regions[i].mapbase
  BY DEF SpInv, RegionsApart
<1> QED BY <1>0, <1>1, <1>2, <1>3, <1>4, <1>5

\* What the pages of the space belong to, told apart.
LEMMA Labelled ==
    /\ \A b, c : <<"sys", b>> # <<"box", c>>
    /\ \A b, c : <<"sys", b>> = <<"sys", c>> => b = c
    /\ \A b, c : <<"box", b>> = <<"box", c>> => b = c
    /\ \A b, x : x \in {<<"other">>, <<"free">>, <<"reserved">>, <<"forgotten">>} =>
          x # <<"sys", b>> /\ x # <<"box", b>>
    /\ <<"reserved">> \notin {<<"free">>, <<"other">>, <<"forgotten">>}
    /\ <<"free">> # <<"other">> /\ <<"free">> # <<"forgotten">> /\ <<"other">> # <<"forgotten">>
<1>1. \A b, c : <<"sys", b>>[1] = "sys" /\ <<"box", c>>[1] = "box" /\ <<"sys", b>>[2] = b /\ <<"box", c>>[2] = c
  OBVIOUS
<1>2. /\ <<"other">>[1] = "other" /\ <<"free">>[1] = "free" /\ <<"reserved">>[1] = "reserved"
      /\ <<"forgotten">>[1] = "forgotten"
  OBVIOUS
<1>3. \A b, c : <<"sys", b>> # <<"box", c>>
  BY <1>1
<1>4. /\ \A b, c : <<"sys", b>> = <<"sys", c>> => b = c
      /\ \A b, c : <<"box", b>> = <<"box", c>> => b = c
  BY <1>1
<1>5. \A b : /\ <<"other">> # <<"sys", b>> /\ <<"free">> # <<"sys", b>> /\ <<"reserved">> # <<"sys", b>>
             /\ <<"forgotten">> # <<"sys", b>>
             /\ <<"other">> # <<"box", b>> /\ <<"free">> # <<"box", b>> /\ <<"reserved">> # <<"box", b>>
             /\ <<"forgotten">> # <<"box", b>>
  BY <1>1, <1>2
<1>6. /\ <<"reserved">> \notin {<<"free">>, <<"other">>, <<"forgotten">>}
      /\ <<"free">> # <<"other">> /\ <<"free">> # <<"forgotten">> /\ <<"other">> # <<"forgotten">>
  BY <1>2
<1> QED BY <1>3, <1>4, <1>5, <1>6

\* The usable pages of a box.
LEMMA UsableIn ==
    ASSUME Guarded, guards \in Configs, NEW a \in Int, NEW u \in Usable(a)
    PROVE  u \in Int /\ a + 1 <= u /\ u <= a + BoxSize - 1 /\ u <= a + BoxSize - guards.internal - 1
<1>1. guards.internal \in Nat /\ BoxSize \in Nat
  BY Strides
<1> DEFINE low == IF guards.internal > 1 THEN guards.internal ELSE 1
<1>2. Usable(a) = (a + low)..(a + BoxSize - guards.internal - 1)
  BY DEF Usable
<1>3. low \in Nat /\ low >= 1
  BY <1>1
<1> HIDE DEF low
<1> QED BY <1>1, <1>2, <1>3

-----------------------------------------------------------------------------
\* The invariant says what the boxes have to themselves.
LEMMA Apart ==
    ASSUME Guarded, SpInv
    PROVE  BoxesApart
<1>0. /\ guards \in Configs /\ va \in [Unit -> Owners] /\ boxes \in [Box -> Int] /\ NUnits \in Int
  BY SpacesAssumption DEF SpInv, SpaceTypes
<1>1. /\ guards.external \in Nat /\ guards.internal \in Nat /\ BoxSize \in Nat
      /\ Footprint = BoxSize + guards.external /\ Footprint <= Stride /\ Stride \in Nat /\ Footprint \in Nat
  BY <1>0, Strides
<1> SUFFICES ASSUME NEW b \in Live
             PROVE  /\ va[SysPage(boxes[b])] = <<"sys", b>>
                    /\ \A u \in Usable(boxes[b]) : va[u] = <<"box", b>>
                    /\ \A u \in From(boxes[b] + BoxSize, guards.external) :
                         va[u] \in {<<"reserved">>} \cup {<<"sys", c>> : c \in Live} \/ u \in holes
                    /\ \E i \in DOMAIN regions :
                         From(boxes[b] - 1, Footprint + 1) \subseteq From(regions[i].mapbase, regions[i].mapsize)
  BY DEF BoxesApart
<1> DEFINE a == boxes[b]
<1>2. PICK i \in DOMAIN regions : \E k \in Nat : Slot(a, i, k)
  BY DEF SpInv, Placed
<1>3. /\ a \in Int /\ 1 <= a - 1 /\ a + Stride <= NUnits /\ a # 0 /\ b \in Box
      /\ regions[i].mapbase <= a - 1 /\ a + Stride <= regions[i].mapbase + regions[i].mapsize - 1
  BY <1>2, Extent DEF Live
<1>4. regions[i].mapbase \in Int /\ regions[i].mapsize \in Int
  BY RegionIs
<1>5. From(a - 1, Footprint + 1) \subseteq From(regions[i].mapbase, regions[i].mapsize)
  <2>1. ASSUME NEW x \in From(a - 1, Footprint + 1)
        PROVE  x \in From(regions[i].mapbase, regions[i].mapsize)
    <3>1. x \in Int /\ a - 1 <= x /\ x <= a + Footprint - 1
      BY <1>1, <1>3 DEF From
    <3> QED BY <1>1, <1>3, <1>4, <3>1 DEF From
  <2> QED BY <2>1
<1>6. va[SysPage(a)] = <<"sys", b>>
  <2>1. SysPage(a) \in Unit
    BY <1>0, <1>1, <1>3 DEF SysPage, Unit
  <2> QED BY <1>3, <2>1 DEF SpInv, Labels
<1>7. ASSUME NEW u \in Usable(a) PROVE va[u] = <<"box", b>>
  <2>1. u \in Int /\ a + 1 <= u /\ u <= a + BoxSize - 1
    BY <1>0, <1>3, UsableIn
  <2>2. u \in Unit
    BY <1>0, <1>1, <1>3, <2>1 DEF Unit
  <2> QED BY <1>3, <2>2 DEF SpInv, Labels
<1>8. ASSUME NEW u \in From(a + BoxSize, guards.external), u \notin holes
      PROVE  va[u] \in {<<"reserved">>} \cup {<<"sys", c>> : c \in Live}
  <2>1. u \in Int /\ a + BoxSize <= u /\ u <= a + Footprint - 1
    BY <1>1, <1>3 DEF From
  <2>6. 1 <= u /\ u <= NUnits /\ regions[i].mapbase <= u /\ u <= regions[i].mapbase + regions[i].mapsize - 1
    BY <1>0, <1>1, <1>3, <1>4, <2>1
  <2>2. u \in Unit /\ u \in From(regions[i].mapbase, regions[i].mapsize)
    BY <1>0, <1>4, <2>1, <2>6 DEF Unit, From
  <2>3. va[u] \notin {<<"free">>, <<"other">>, <<"forgotten">>} /\ va[u] \in Owners
    BY <1>0, <1>8, <2>2 DEF SpInv, Labels, InRegions
  <2>4. ASSUME NEW c \in Box, va[u] = <<"box", c>> PROVE FALSE
    <3>1. boxes[c] # 0 /\ u \in Usable(boxes[c]) /\ c \in Live /\ boxes[c] \in Int
      BY <1>0, <2>2, <2>4 DEF SpInv, Labels, Live
    <3>2. boxes[c] + 1 <= u /\ u <= boxes[c] + BoxSize - 1
      BY <1>0, <3>1, UsableIn
    <3>3. c # b
      BY <1>1, <1>3, <2>1, <3>2
    <3>4. a + Stride <= boxes[c] \/ boxes[c] + Stride <= a
      BY <3>1, <3>3 DEF SpInv, Disjoint
    <3> QED BY <1>1, <1>3, <2>1, <3>1, <3>2, <3>4
  <2>5. ASSUME NEW c \in Box, va[u] = <<"sys", c>> PROVE c \in Live
    BY <2>2, <2>5 DEF SpInv, Labels, Live
  <2> QED BY <2>3, <2>4, <2>5 DEF Owners
<1> QED BY <1>5, <1>6, <1>7, <1>8

\* The books of the regions.
LEMMA Accounts ==
    ASSUME Guarded, SpInv
    PROVE  SpacesAccounted
<1>1. ASSUME NEW i \in DOMAIN regions
      PROVE  /\ regions[i].active = Cardinality(BoxesOf(i))
             /\ regions[i].bits = UNION {Bits(regions[i], boxes[b], Footprint) : b \in BoxesOf(i)}
  <2>1. /\ regions[i].active = Cardinality(BoxesOf(i))
        /\ \A x : x \in regions[i].bits <=> \E b \in BoxesOf(i) : x \in Bits(regions[i], boxes[b], Footprint)
    BY DEF SpInv, Accounted
  <2> HIDE DEF BoxesOf
  <2>2. \A x : x \in UNION {Bits(regions[i], boxes[b], Footprint) : b \in BoxesOf(i)}
                 <=> \E b \in BoxesOf(i) : x \in Bits(regions[i], boxes[b], Footprint)
    OBVIOUS
  <2> QED BY <2>1, <2>2
<1>2. ASSUME phase \in {"failed", "freed"}, NEW u \in Unit
      PROVE  va[u] \in {<<"free">>, <<"other">>, <<"forgotten">>}
  <2>1. regions = <<>> /\ Live = {}
    BY <1>2 DEF SpInv, Stage
  <2>2. ~InRegions(u)
    BY <2>1 DEF InRegions
  <2>3. \A b \in Box : boxes[b] = 0
    BY <2>1 DEF Live
  <2>4. va[u] \in Owners /\ va[u] # <<"reserved">> /\ \A b \in Box : va[u] # <<"sys", b>> /\ va[u] # <<"box", b>>
    BY <2>2, <2>3 DEF SpInv, SpaceTypes, Labels
  <2> QED BY <2>4 DEF Owners
<1> QED BY <1>1, <1>2 DEF SpacesAccounted, BoxesOf

-----------------------------------------------------------------------------
\* Steps that move no region.
SamePlaces ==
    /\ regions' \in Seq(RegionRecord)
    /\ DOMAIN regions' = DOMAIN regions
    /\ \A j \in DOMAIN regions :
          /\ regions'[j].base = regions[j].base /\ regions'[j].size = regions[j].size
          /\ regions'[j].mapbase = regions[j].mapbase /\ regions'[j].mapsize = regions[j].mapsize

\* The configuration stays, and so do the sizes computed from it.
LEMMA SameGuards ==
    ASSUME guards' = guards
    PROVE  /\ Footprint' = Footprint /\ Slots' = Slots /\ Stride' = Stride
           /\ \A a : Usable(a)' = Usable(a)
BY DEF Footprint, Slots, Stride, Usable

\* Steps that move no region keep what is said of places.
LEMMA PlacesKept ==
    ASSUME SpInv, guards' = guards, SamePlaces
    PROVE  /\ RegionsIn' /\ RegionsApart'
           /\ \A u : InRegions(u)' <=> InRegions(u)
           /\ \A a, k : \A i \in DOMAIN regions : Slot(a, i, k)' <=> Slot(a, i, k)
<1>1. RegionsIn' /\ RegionsApart'
  BY DEF SpInv, RegionsIn, RegionsApart, SamePlaces
<1>2. \A u : InRegions(u)' <=> InRegions(u)
  BY DEF InRegions, SamePlaces, From
<1>3. \A a, k : \A i \in DOMAIN regions : Slot(a, i, k)' <=> Slot(a, i, k)
  BY SameGuards DEF Slot, SamePlaces
<1> QED BY <1>1, <1>2, <1>3

\* boxmap_addspace: the chunks it takes belong to no box.
Vacant(i, k) ==
    /\ i \in DOMAIN regions /\ k \in Nat
    /\ k + Slots <= regions[i].size \div Chunk
    /\ From(k, Slots) \cap regions[i].bits = {}

\* bitvec_find_zeroes takes the first.
FirstVacant(i, k) == \A h : Vacant(i, h) => k <= h

\* What lfi_box_new is given are the first vacant chunks of a region.
LEMMA FittingIs ==
    ASSUME Guarded, SpInv, Fitting # {}
    PROVE  LET i == CHOOSE i \in Fitting : \A j \in Fitting : i <= j
               k == FindZeroes(regions[i], Chunks(Footprint))
           IN  Vacant(i, k) /\ FirstVacant(i, k)
<1> DEFINE i == CHOOSE i \in Fitting : \A j \in Fitting : i <= j
<1>1. Fitting \in SUBSET Nat
  BY RegionIs DEF Fitting
<1>2. \E x \in Fitting : \A y \in Fitting : x <= y
  BY <1>1, LeastOf
<1>3. i \in Fitting
  BY <1>2
<1> HIDE DEF i
<1>4. i \in DOMAIN regions /\ FindZeroes(regions[i], Slots) # -1
  BY <1>3 DEF Fitting, Slots
<1>5. regions[i] \in RegionRecord /\ Slots \in Nat /\ Slots > 0
  BY <1>4, RegionIs, Strides DEF SpInv, SpaceTypes
<1>6. Vacant(i, FindZeroes(regions[i], Slots)) /\ FirstVacant(i, FindZeroes(regions[i], Slots))
  BY <1>4, <1>5, Found DEF Vacant, FirstVacant
<1> QED BY <1>6 DEF i, Slots

\* A box on vacant chunks keeps its distance from the others.
LEMMA VacantApart ==
    ASSUME Guarded, SpInv, NEW i, NEW k, Vacant(i, k),
           NEW a, a = regions[i].base + k * Chunk
    PROVE  /\ Slot(a, i, k)
           /\ \A c \in Live : a + Stride <= boxes[c] \/ boxes[c] + Stride <= a
<1>1. i \in DOMAIN regions /\ k \in Nat /\ Slot(a, i, k)
  BY DEF Vacant, Slot
<1>2. Slots \in Nat /\ Slots > 0
  BY Strides, Configured
<1>3. ASSUME NEW c \in Live
      PROVE  a + Stride <= boxes[c] \/ boxes[c] + Stride <= a
  <2>1. PICK j \in DOMAIN regions, l \in Nat : Slot(boxes[c], j, l)
    BY DEF SpInv, Placed
  <2>2. CASE j # i
    BY <1>1, <2>1, <2>2, SlotsApart
  <2>3. CASE j = i
    <3>1. /\ Bits(regions[i], boxes[c], Footprint) = From(l, Slots)
          /\ boxes[c] \in From(regions[i].base, regions[i].size)
      BY <2>1, <2>3, Extent
    <3>2. From(l, Slots) \subseteq regions[i].bits
      BY <1>1, <3>1 DEF SpInv, Accounted, BoxesOf
    <3>3. From(k, Slots) \cap From(l, Slots) = {}
      BY <3>2 DEF Vacant
    <3>4. k + Slots <= l \/ l + Slots <= k
      <4>1. CASE k <= l /\ l < k + Slots
        <5>1. l \in From(k, Slots) /\ l \in From(l, Slots)
          BY <1>1, <1>2, <4>1 DEF From
        <5> QED BY <3>3, <5>1
      <4>2. CASE l <= k /\ k < l + Slots
        <5>1. k \in From(k, Slots) /\ k \in From(l, Slots)
          BY <1>1, <1>2, <4>2 DEF From
        <5> QED BY <3>3, <5>1
      <4> QED BY <1>1, <1>2, <4>1, <4>2
    <3> QED BY <1>1, <2>1, <2>3, <3>4, SlotsApart
  <2> QED BY <2>2, <2>3
<1> QED BY <1>1, <1>3

\* What boxmap_addspace changes when it takes chunks.
LEMMA Taken ==
    ASSUME Guarded, SpInv, NEW i, NEW k, Vacant(i, k), regions' = Take(i, k)
    PROVE  /\ SamePlaces
           /\ \A j \in DOMAIN regions : j # i => regions'[j] = regions[j]
           /\ regions'[i].bits = regions[i].bits \cup From(k, Slots)
           /\ regions'[i].active = regions[i].active + 1
<1>1. regions \in Seq(RegionRecord) /\ Slots \in Nat
  <2>1. regions \in Seq(RegionRecord)
    BY DEF SpInv, SpaceTypes
  <2>2. Slots \in Nat
    BY Strides, Configured
  <2> QED BY <2>1, <2>2
<1>2. i \in DOMAIN regions /\ k \in Nat
  BY DEF Vacant
<1>3. PICK r : r = regions[i]
  OBVIOUS
<1>4. PICK q : q = regions'[i]
  OBVIOUS
<1>5. PICK C, N : C = regions[i].bits \cup From(k, Slots) /\ N = regions[i].active + 1
  OBVIOUS
<1>6. r \in RegionRecord /\ C \in SUBSET Int /\ N \in Int
  <2>1. From(k, Slots) \subseteq Int
    BY <1>1, <1>2 DEF From
  <2> QED BY <1>2, <1>3, <1>5, <2>1, RegionIs
<1>7. /\ regions' = [regions EXCEPT ![i] = q] /\ q = [r EXCEPT !.bits = C, !.active = N]
  BY <1>1, <1>2, <1>3, <1>4, <1>5 DEF Take, Slots
<1>8. /\ q \in RegionRecord /\ q.bits = C /\ q.active = N
      /\ q.base = r.base /\ q.size = r.size /\ q.mapbase = r.mapbase /\ q.mapsize = r.mapsize
  BY <1>6, <1>7 DEF RegionRecord
<1>9. regions' \in Seq(RegionRecord) /\ DOMAIN regions' = DOMAIN regions
      /\ \A j \in DOMAIN regions : j # i => regions'[j] = regions[j]
  BY <1>1, <1>2, <1>7, <1>8
<1> QED BY <1>3, <1>4, <1>5, <1>8, <1>9 DEF SamePlaces

\* and what giving them back, boxmap_rmspace, does to the regions.
LEMMA Returned ==
    ASSUME Guarded, SpInv, NEW a, NEW i \in DOMAIN regions, NEW k \in Nat, Slot(a, i, k),
           regions' = Return(a)
    PROVE  /\ SamePlaces
           /\ \A j \in DOMAIN regions : j # i => regions'[j] = regions[j]
           /\ regions'[i].bits = regions[i].bits \ From(k, Slots)
           /\ regions'[i].active = regions[i].active - 1
<1>1. /\ DOMAIN regions' = DOMAIN regions
      /\ \A j \in DOMAIN regions : regions'[j] =
           IF a \in From(regions[j].base, regions[j].size)
           THEN [regions[j] EXCEPT !.bits = regions[j].bits \ Bits(regions[j], a, Footprint),
                                   !.active = regions[j].active - 1]
           ELSE regions[j]
  BY DEF Return
<1>2. \A j \in DOMAIN regions : j # i => regions'[j] = regions[j]
  BY <1>1, OneRegion
<1>3. PICK r : r = regions[i]
  OBVIOUS
<1>4. PICK q : q = regions'[i]
  OBVIOUS
<1>5. PICK C, N : C = regions[i].bits \ From(k, Slots) /\ N = regions[i].active - 1
  OBVIOUS
<1>6. r \in RegionRecord /\ C \in SUBSET Int /\ N \in Int
  BY <1>3, <1>5, RegionIs
<1>7. q = [r EXCEPT !.bits = C, !.active = N]
  <2>1. a \in From(regions[i].base, regions[i].size) /\ Bits(regions[i], a, Footprint) = From(k, Slots)
    BY Extent
  <2> QED BY <1>1, <1>3, <1>4, <1>5, <2>1
<1>8. /\ q \in RegionRecord /\ q.bits = C /\ q.active = N
      /\ q.base = r.base /\ q.size = r.size /\ q.mapbase = r.mapbase /\ q.mapsize = r.mapsize
  BY <1>6, <1>7 DEF RegionRecord
<1>9. \A j \in DOMAIN regions : regions'[j] \in RegionRecord
  BY <1>2, <1>4, <1>8, RegionIs
<1>10. regions' \in Seq(RegionRecord)
  <2>1. regions \in Seq(RegionRecord)
    BY DEF SpInv, SpaceTypes
  <2>2. DOMAIN regions = 1..Len(regions) /\ Len(regions) \in Nat
    BY <2>1
  <2>3. regions' = [j \in DOMAIN regions |-> regions'[j]]
    BY DEF Return
  <2> QED BY <1>9, <2>2, <2>3
<1> QED BY <1>1, <1>2, <1>3, <1>4, <1>5, <1>8, <1>10 DEF SamePlaces

\* lfi_box_new.
LEMMA BoxNewStep ==
    ASSUME Guarded, SpInv, NEW b \in Box, BoxNew(b)
    PROVE  SpInv'
<1>1. PICK i, k, a :
         /\ phase = "up" /\ boxes[b] = 0 /\ Vacant(i, k)
         /\ a = regions[i].base + k * Chunk
         /\ boxes' = [boxes EXCEPT ![b] = a]
         /\ va' = [u \in Unit |-> IF u = SysPage(a) THEN <<"sys", b>>
                                  ELSE IF u \in Usable(a) THEN <<"box", b>> ELSE va[u]]
         /\ regions' = Take(i, k)
         /\ UNCHANGED <<guards, phase, left, holes>>
  BY FittingIs DEF BoxNew
<1>2. /\ i \in DOMAIN regions /\ k \in Nat /\ Slot(a, i, k)
      /\ \A c \in Live : a + Stride <= boxes[c] \/ boxes[c] + Stride <= a
  BY <1>1, VacantApart DEF Vacant
<1>3. /\ guards \in Configs /\ va \in [Unit -> Owners] /\ boxes \in [Box -> Int] /\ regions \in Seq(RegionRecord)
      /\ NUnits \in Int
  BY SpacesAssumption DEF SpInv, SpaceTypes
<1>4. /\ a \in Int /\ 1 <= a - 1 /\ a + Stride <= NUnits /\ regions[i].mapbase <= a - 1
      /\ a + Stride <= regions[i].mapbase + regions[i].mapsize - 1
      /\ a \in From(regions[i].base, regions[i].size)
      /\ Bits(regions[i], a, Footprint) = From(k, Slots)
  BY <1>2, Extent
<1>5. /\ guards.external \in Nat /\ guards.internal \in Nat /\ guards.internal + guards.external > 0
      /\ BoxSize \in Nat /\ BoxSize > 0 /\ Footprint = BoxSize + guards.external /\ Footprint <= Stride /\ Stride \in Nat /\ Slots \in Nat
  BY <1>3, Strides
<1>6. /\ \A c \in Box : boxes'[c] = IF c = b THEN a ELSE boxes[c]
      /\ boxes' \in [Box -> Int] /\ Live' = Live \cup {b} /\ b \notin Live
  BY <1>1, <1>3, <1>4 DEF Live
<1>7. /\ SamePlaces
      /\ \A j \in DOMAIN regions : j # i => regions'[j] = regions[j]
      /\ regions'[i].bits = regions[i].bits \cup From(k, Slots)
      /\ regions'[i].active = regions[i].active + 1
  BY <1>1, Taken
<1>8. /\ RegionsIn' /\ RegionsApart'
      /\ \A u : InRegions(u)' <=> InRegions(u)
      /\ \A x, y : \A j \in DOMAIN regions : Slot(x, j, y)' <=> Slot(x, j, y)
  BY <1>1, <1>7, PlacesKept
<1>9. /\ Footprint' = Footprint /\ Slots' = Slots /\ Stride' = Stride
      /\ \A x : Usable(x)' = Usable(x)
  BY <1>1, SameGuards
<1>10. SpaceTypes'
  <2>1. va' \in [Unit -> Owners]
    BY <1>1, <1>3 DEF Owners
  <2> QED BY <1>1, <1>6, <1>7, <2>1 DEF SpInv, SpaceTypes, SamePlaces
<1>11. Placed'
  <2>1. \A c \in Live' : \E j \in DOMAIN regions : \E y \in Nat : Slot(boxes'[c], j, y)
    BY <1>2, <1>6 DEF SpInv, Placed, Live
  <2>2. ASSUME NEW c \in Live'
        PROVE  \E j \in DOMAIN regions' : \E y \in Nat : Slot(boxes[c], j, y)'
    <3>1. PICK j \in DOMAIN regions, y \in Nat : Slot(boxes'[c], j, y)
      BY <2>1
    <3>2. Slot(boxes[c], j, y)'
      BY <1>7, <1>9, <3>1 DEF Slot, SamePlaces
    <3> QED BY <1>7, <3>2 DEF SamePlaces
  <2> QED BY <2>2 DEF Placed
<1>12. Disjoint'
  BY <1>2, <1>6, <1>9 DEF SpInv, Disjoint, Live
<1>13. Stage'
  BY <1>1 DEF SpInv, Stage
<1>14. Accounted'
  <2> SUFFICES ASSUME NEW j \in DOMAIN regions
               PROVE  /\ regions'[j].active = Cardinality(BoxesOf(j)')
                      /\ \A x : x \in regions'[j].bits
                            <=> \E c \in BoxesOf(j)' : x \in Bits(regions'[j], boxes'[c], Footprint)
    BY <1>7, <1>9 DEF Accounted, SamePlaces
  <2>1. /\ regions'[j].base = regions[j].base /\ regions'[j].size = regions[j].size
        /\ \A x : Bits(regions'[j], x, Footprint) = Bits(regions[j], x, Footprint)
    BY <1>7 DEF SamePlaces, Bits
  <2>2. /\ regions[j].active = Cardinality(BoxesOf(j))
        /\ \A x : x \in regions[j].bits <=> \E c \in BoxesOf(j) : x \in Bits(regions[j], boxes[c], Footprint)
    BY DEF SpInv, Accounted
  <2>3. CASE j # i
    <3>1. a \notin From(regions[j].base, regions[j].size)
      BY <1>2, <2>3, OneRegion
    <3>2. BoxesOf(j)' = BoxesOf(j) /\ \A c \in BoxesOf(j) : boxes'[c] = boxes[c]
      BY <1>6, <2>1, <3>1 DEF BoxesOf, Live
    <3>3. regions'[j] = regions[j]
      BY <1>7, <2>3
    <3> QED BY <2>2, <3>2, <3>3
  <2>4. CASE j = i
    <3>1. BoxesOf(i)' = BoxesOf(i) \cup {b} /\ b \notin BoxesOf(i)
      <4>1. /\ regions'[i].base = regions[i].base /\ regions'[i].size = regions[i].size
        BY <2>1, <2>4
      <4>2. \A c : c \in BoxesOf(i)' <=> c \in Live' /\ boxes'[c] \in From(regions[i].base, regions[i].size)
        BY <4>1 DEF BoxesOf
      <4>3. \A c : c \in BoxesOf(i) <=> c \in Live /\ boxes[c] \in From(regions[i].base, regions[i].size)
        BY DEF BoxesOf
      <4>4. \A c \in Live : c \in Box
        BY DEF Live
      <4> HIDE DEF BoxesOf
      <4>5. \A c : c \in BoxesOf(i)' <=> c \in BoxesOf(i) \/ c = b
        BY <1>4, <1>6, <4>2, <4>3, <4>4
      <4> QED BY <1>6, <4>3, <4>5
    <3>2. \A c \in BoxesOf(i) : boxes'[c] = boxes[c]
      BY <1>6 DEF BoxesOf, Live
    <3>3. IsFiniteSet(BoxesOf(i))
      BY SpacesAssumption, FS_Subset DEF BoxesOf, Live
    <3>4. Cardinality(BoxesOf(i) \cup {b}) = Cardinality(BoxesOf(i)) + 1
      BY <3>1, <3>3, FS_AddElement
    <3>5. \A x : x \in regions'[i].bits <=> x \in regions[i].bits \/ x \in Bits(regions[i], a, Footprint)
      BY <1>4, <1>7
    <3>6. boxes'[b] = a
      BY <1>6
    <3> HIDE DEF BoxesOf
    <3>7. ASSUME NEW x
          PROVE  x \in regions'[i].bits <=> \E c \in BoxesOf(i)' : x \in Bits(regions'[i], boxes'[c], Footprint)
      <4>1. \A y : Bits(regions'[i], y, Footprint) = Bits(regions[i], y, Footprint)
        BY <2>1, <2>4
      <4>2. x \in regions[i].bits <=> \E c \in BoxesOf(i) : x \in Bits(regions[i], boxes[c], Footprint)
        BY <2>2, <2>4
      <4>3. (\E c \in BoxesOf(i)' : x \in Bits(regions'[i], boxes'[c], Footprint))
             <=> (\E c \in BoxesOf(i) : x \in Bits(regions[i], boxes[c], Footprint)) \/ x \in Bits(regions[i], a, Footprint)
        BY <3>1, <3>2, <3>6, <4>1
      <4> QED BY <3>5, <4>2, <4>3
    <3>8. regions'[i].active = Cardinality(BoxesOf(i)')
      BY <1>7, <2>2, <2>4, <3>1, <3>4
    <3> QED BY <2>4, <3>7, <3>8
  <2> QED BY <2>3, <2>4
<1>15. Labels'
  <2>0. \A u \in Usable(a) : u \in Int /\ a + 1 <= u /\ u <= a + BoxSize - guards.internal - 1
    BY <1>3, <1>4, UsableIn
  <2> SUFFICES ASSUME NEW u \in Unit
               PROVE  /\ \A c \in Box : va'[u] = <<"sys", c>> <=> (boxes'[c] # 0 /\ u = SysPage(boxes'[c]))
                      /\ \A c \in Box : va'[u] = <<"box", c>> <=> (boxes'[c] # 0 /\ u \in Usable(boxes'[c]))
                      /\ va'[u] = <<"reserved">> => InRegions(u)
                      /\ InRegions(u) => u \in holes \/ va'[u] \notin {<<"free">>, <<"other">>, <<"forgotten">>}
    BY <1>1, <1>8, <1>9 DEF Labels
  <2>1. /\ \A c \in Box : va[u] = <<"sys", c>> <=> (boxes[c] # 0 /\ u = SysPage(boxes[c]))
        /\ \A c \in Box : va[u] = <<"box", c>> <=> (boxes[c] # 0 /\ u \in Usable(boxes[c]))
        /\ va[u] = <<"reserved">> => InRegions(u)
        /\ InRegions(u) => u \in holes \/ va[u] \notin {<<"free">>, <<"other">>, <<"forgotten">>}
        /\ u \in Int
    BY <1>3 DEF SpInv, Labels, Unit
  <2>2. /\ u = SysPage(a) => va'[u] = <<"sys", b>>
        /\ u # SysPage(a) /\ u \in Usable(a) => va'[u] = <<"box", b>>
        /\ u # SysPage(a) /\ u \notin Usable(a) => va'[u] = va[u]
    BY <1>1
  <2>3. SysPage(a) = a - 1 /\ SysPage(a) \notin Usable(a)
    BY <1>4, <2>0 DEF SysPage
  <2>4. ASSUME NEW c \in Box, c # b
        PROVE  /\ va'[u] = <<"sys", c>> <=> (boxes'[c] # 0 /\ u = SysPage(boxes'[c]))
               /\ va'[u] = <<"box", c>> <=> (boxes'[c] # 0 /\ u \in Usable(boxes'[c]))
    <3>1. boxes'[c] = boxes[c] /\ boxes[c] \in Int
      BY <1>3, <1>6, <2>4
    <3>2. CASE u # SysPage(a) /\ u \notin Usable(a)
      BY <2>1, <2>2, <3>1, <3>2
    <3>3. CASE u = SysPage(a) \/ u \in Usable(a)
      <4>1. va'[u] # <<"sys", c>> /\ va'[u] # <<"box", c>>
        BY <2>2, <2>4, <3>3, Labelled
      <4>2. u = a - 1 \/ (a + 1 <= u /\ u <= a + BoxSize - guards.internal - 1)
        BY <1>4, <1>5, <2>0, <2>3, <3>3
      <4>3. boxes[c] # 0 => a + Stride <= boxes[c] \/ boxes[c] + Stride <= a
        BY <1>2 DEF Live
      <4>4. boxes[c] # 0 => u # SysPage(boxes[c])
        BY <1>4, <1>5, <3>1, <4>2, <4>3 DEF SysPage
      <4>5. boxes[c] # 0 => u \notin Usable(boxes[c])
        <5>1. u \in Usable(boxes[c]) => boxes[c] + 1 <= u /\ u <= boxes[c] + BoxSize - guards.internal - 1
          BY <1>3, <3>1, UsableIn
        <5> QED BY <1>4, <1>5, <2>1, <3>1, <4>2, <4>3, <5>1
      <4> QED BY <3>1, <4>1, <4>4, <4>5
    <3> QED BY <3>2, <3>3
  <2>5. /\ va'[u] = <<"sys", b>> <=> (boxes'[b] # 0 /\ u = SysPage(boxes'[b]))
        /\ va'[u] = <<"box", b>> <=> (boxes'[b] # 0 /\ u \in Usable(boxes'[b]))
    <3>1. boxes'[b] = a /\ a # 0
      BY <1>4, <1>6
    <3>2. va[u] # <<"sys", b>> /\ va[u] # <<"box", b>>
      BY <1>1, <2>1
    <3> QED BY <2>2, <2>3, <3>1, <3>2, Labelled
  <2>6. /\ va'[u] = <<"reserved">> => InRegions(u)
        /\ InRegions(u) => u \in holes \/ va'[u] \notin {<<"free">>, <<"other">>, <<"forgotten">>}
    BY <2>1, <2>2, Labelled
  <2> QED BY <2>4, <2>5, <2>6
<1> QED BY <1>8, <1>10, <1>11, <1>12, <1>13, <1>14, <1>15 DEF SpInv

\* lfi_box_free, with no live box where the range of b ends.
LEMMA BoxFreeStep ==
    ASSUME Guarded, SpInv, NEW b \in Box, BoxFree(b), FreeOrder
    PROVE  SpInv'
<1>1. PICK a :
         /\ phase = "up" /\ boxes[b] # 0 /\ a = boxes[b]
         /\ boxes' = [boxes EXCEPT ![b] = 0]
         /\ va' = Put(From(SysPage(a), BoxSize + 1), <<"reserved">>)
         /\ regions' = Return(a)
         /\ UNCHANGED <<guards, phase, left, holes>>
  BY DEF BoxFree
<1>2. /\ guards \in Configs /\ va \in [Unit -> Owners] /\ boxes \in [Box -> Int] /\ regions \in Seq(RegionRecord)
      /\ NUnits \in Int
  BY SpacesAssumption DEF SpInv, SpaceTypes
<1>3. b \in Live /\ a # 0 /\ a \in Int
  BY <1>1, <1>2 DEF Live
<1>4. PICK i \in DOMAIN regions, k \in Nat : Slot(a, i, k)
  BY <1>1, <1>3 DEF SpInv, Placed
<1>5. /\ 1 <= a - 1 /\ a + Stride <= NUnits /\ regions[i].mapbase <= a - 1
      /\ a + Stride <= regions[i].mapbase + regions[i].mapsize - 1
      /\ a \in From(regions[i].base, regions[i].size)
      /\ Bits(regions[i], a, Footprint) = From(k, Slots)
  BY <1>4, Extent
<1>6. /\ guards.external \in Nat /\ guards.internal \in Nat /\ guards.internal + guards.external > 0
      /\ BoxSize \in Nat /\ BoxSize > 0 /\ Footprint = BoxSize + guards.external /\ Footprint <= Stride /\ Stride \in Nat /\ Slots \in Nat
  BY <1>2, Strides
<1>7. /\ \A c \in Box : boxes'[c] = IF c = b THEN 0 ELSE boxes[c]
      /\ boxes' \in [Box -> Int] /\ Live' = Live \ {b}
  BY <1>1, <1>2 DEF Live
<1>8. /\ SamePlaces
      /\ \A j \in DOMAIN regions : j # i => regions'[j] = regions[j]
      /\ regions'[i].bits = regions[i].bits \ From(k, Slots)
      /\ regions'[i].active = regions[i].active - 1
  BY <1>1, <1>4, Returned
<1>9. /\ RegionsIn' /\ RegionsApart'
      /\ \A u : InRegions(u)' <=> InRegions(u)
  BY <1>1, <1>8, PlacesKept
<1>10. /\ Footprint' = Footprint /\ Slots' = Slots /\ Stride' = Stride
      /\ \A x : Usable(x)' = Usable(x)
  BY <1>1, SameGuards
<1>11. SpaceTypes'
  <2>1. va' \in [Unit -> Owners]
    BY <1>1, <1>2 DEF Owners, Put
  <2> QED BY <1>1, <1>7, <1>8, <2>1 DEF SpInv, SpaceTypes, SamePlaces
<1>12. Placed'
  <2>1. ASSUME NEW c \in Live'
        PROVE  \E j \in DOMAIN regions' : \E y \in Nat : Slot(boxes[c], j, y)'
    <3>1. c \in Live /\ boxes'[c] = boxes[c]
      BY <1>7, <2>1 DEF Live
    <3>2. PICK j \in DOMAIN regions, y \in Nat : Slot(boxes'[c], j, y)
      BY <3>1 DEF SpInv, Placed
    <3>3. Slot(boxes[c], j, y)'
      BY <1>8, <1>10, <3>2 DEF Slot, SamePlaces
    <3> QED BY <1>8, <3>3 DEF SamePlaces
  <2> QED BY <2>1 DEF Placed
<1>13. Disjoint'
  BY <1>7, <1>10 DEF SpInv, Disjoint, Live
<1>14. Stage'
  BY <1>1 DEF SpInv, Stage
<1>15. ASSUME NEW c \in Live, c # b
       PROVE  /\ a + Stride <= boxes[c] \/ boxes[c] + Stride <= a
              /\ boxes[c] # a + BoxSize
  <2>1. a + Stride <= boxes[c] \/ boxes[c] + Stride <= a
    BY <1>1, <1>3, <1>15 DEF SpInv, Disjoint
  <2>2. boxes[c] # a + BoxSize
    BY <1>1, <1>15 DEF FreeOrder, Live
  <2> QED BY <2>1, <2>2
<1>16. Accounted'
  <2> SUFFICES ASSUME NEW j \in DOMAIN regions
               PROVE  /\ regions'[j].active = Cardinality(BoxesOf(j)')
                      /\ \A x : x \in regions'[j].bits
                            <=> \E c \in BoxesOf(j)' : x \in Bits(regions'[j], boxes'[c], Footprint)
    BY <1>8, <1>10 DEF Accounted, SamePlaces
  <2>1. /\ regions'[j].base = regions[j].base /\ regions'[j].size = regions[j].size
        /\ \A x : Bits(regions'[j], x, Footprint) = Bits(regions[j], x, Footprint)
    BY <1>8 DEF SamePlaces, Bits
  <2>2. /\ regions[j].active = Cardinality(BoxesOf(j))
        /\ \A x : x \in regions[j].bits <=> \E c \in BoxesOf(j) : x \in Bits(regions[j], boxes[c], Footprint)
    BY DEF SpInv, Accounted
  <2>3. /\ \A c : c \in BoxesOf(j)' <=> c \in Live' /\ boxes'[c] \in From(regions[j].base, regions[j].size)
        /\ \A c : c \in BoxesOf(j) <=> c \in Live /\ boxes[c] \in From(regions[j].base, regions[j].size)
        /\ \A c \in Live : c \in Box
    BY <2>1 DEF BoxesOf, Live
  <2>4. BoxesOf(j)' = BoxesOf(j) \ {b} /\ \A c \in BoxesOf(j)' : boxes'[c] = boxes[c]
    <3>1. \A c : c \in BoxesOf(j)' <=> c \in BoxesOf(j) /\ c # b
      <4> HIDE DEF BoxesOf
      <4> QED BY <1>7, <2>3
    <3>2. \A c \in BoxesOf(j)' : boxes'[c] = boxes[c]
      <4> HIDE DEF BoxesOf
      <4> QED BY <1>7, <2>3
    <3> QED BY <3>1, <3>2
  <2>5. IsFiniteSet(BoxesOf(j))
    BY SpacesAssumption, FS_Subset DEF BoxesOf, Live
  <2>6. CASE j # i
    <3>1. a \notin From(regions[j].base, regions[j].size)
      BY <1>4, <2>6, OneRegion
    <3>2. b \notin BoxesOf(j)
      BY <1>1, <2>3, <3>1
    <3>3. regions'[j] = regions[j]
      BY <1>8, <2>6
    <3>4. BoxesOf(j)' = BoxesOf(j) /\ \A c \in BoxesOf(j) : boxes'[c] = boxes[c]
      BY <2>4, <3>2
    <3> QED BY <2>2, <3>3, <3>4
  <2>7. CASE j = i
    <3>1. b \in BoxesOf(j)
      BY <1>1, <1>3, <1>5, <2>3, <2>7
    <3>2. Cardinality(BoxesOf(j) \ {b}) = Cardinality(BoxesOf(j)) - 1
      BY <2>5, <3>1, FS_RemoveElement
    <3>3. regions'[j].active = Cardinality(BoxesOf(j)')
      BY <1>8, <2>2, <2>4, <2>7, <3>2
    <3>4. ASSUME NEW x, NEW c \in BoxesOf(j), c # b, x \in Bits(regions[j], boxes[c], Footprint)
          PROVE  x \notin From(k, Slots)
      <4>1. c \in Live /\ boxes[c] \in From(regions[j].base, regions[j].size)
        BY <2>3, <3>4
      <4>2. PICK h \in DOMAIN regions, l \in Nat : Slot(boxes[c], h, l)
        BY <4>1 DEF SpInv, Placed
      <4>3. h = j
        BY <4>1, <4>2, OneRegion
      <4>4. Bits(regions[j], boxes[c], Footprint) = From(l, Slots)
        BY <4>2, <4>3, Extent
      <4>5. a + Stride <= boxes[c] \/ boxes[c] + Stride <= a
        BY <1>15, <3>4, <4>1
      <4>6. k + Slots <= l \/ l + Slots <= k
        BY <1>4, <2>7, <4>2, <4>3, <4>5, SlotsApart
      <4> QED BY <1>4, <1>6, <3>4, <4>4, <4>6 DEF From
    <3>5. \A x : x \in regions'[j].bits <=> x \in regions[j].bits /\ x \notin From(k, Slots)
      BY <1>8, <2>7
    <3>6. \A x : x \in Bits(regions[j], boxes[b], Footprint) <=> x \in From(k, Slots)
      BY <1>1, <1>5, <2>7
    <3>7. ASSUME NEW x
          PROVE  x \in regions'[j].bits <=> \E c \in BoxesOf(j)' : x \in Bits(regions'[j], boxes'[c], Footprint)
      <4>1. (\E c \in BoxesOf(j)' : x \in Bits(regions'[j], boxes'[c], Footprint))
              <=> (\E c \in BoxesOf(j) : c # b /\ x \in Bits(regions[j], boxes[c], Footprint))
        BY <2>1, <2>4
      <4>2. x \in regions[j].bits <=> \E c \in BoxesOf(j) : x \in Bits(regions[j], boxes[c], Footprint)
        BY <2>2
      <4>3. x \in regions'[j].bits <=> x \in regions[j].bits /\ x \notin From(k, Slots)
        BY <3>5
      <4> HIDE DEF BoxesOf
      <4> QED BY <3>4, <3>6, <4>1, <4>2, <4>3
    <3> QED BY <3>3, <3>7
  <2> QED BY <2>6, <2>7
<1>17. Labels'
  <2> SUFFICES ASSUME NEW u \in Unit
               PROVE  /\ \A c \in Box : va'[u] = <<"sys", c>> <=> (boxes'[c] # 0 /\ u = SysPage(boxes'[c]))
                      /\ \A c \in Box : va'[u] = <<"box", c>> <=> (boxes'[c] # 0 /\ u \in Usable(boxes'[c]))
                      /\ va'[u] = <<"reserved">> => InRegions(u)
                      /\ InRegions(u) => u \in holes \/ va'[u] \notin {<<"free">>, <<"other">>, <<"forgotten">>}
    BY <1>1, <1>9, <1>10 DEF Labels
  <2>1. /\ \A c \in Box : va[u] = <<"sys", c>> <=> (boxes[c] # 0 /\ u = SysPage(boxes[c]))
        /\ \A c \in Box : va[u] = <<"box", c>> <=> (boxes[c] # 0 /\ u \in Usable(boxes[c]))
        /\ va[u] = <<"reserved">> => InRegions(u)
        /\ InRegions(u) => u \in holes \/ va[u] \notin {<<"free">>, <<"other">>, <<"forgotten">>}
        /\ u \in Int
    BY <1>2 DEF SpInv, Labels, Unit
  <2> DEFINE gone == From(SysPage(a), BoxSize + 1)
  <2>2. /\ u \in gone => va'[u] = <<"reserved">>
        /\ u \notin gone => va'[u] = va[u]
    BY <1>1 DEF Put
  <2>3. u \in gone <=> a - 1 <= u /\ u <= a + BoxSize - 1
    BY <1>3, <1>6, <2>1 DEF SysPage, From
  <2> HIDE DEF gone
  <2>4. ASSUME NEW c \in Box, c # b
        PROVE  /\ va'[u] = <<"sys", c>> <=> (boxes'[c] # 0 /\ u = SysPage(boxes'[c]))
               /\ va'[u] = <<"box", c>> <=> (boxes'[c] # 0 /\ u \in Usable(boxes'[c]))
    <3>1. boxes'[c] = boxes[c] /\ boxes[c] \in Int
      BY <1>2, <1>7, <2>4
    <3>2. CASE u \notin gone
      BY <2>1, <2>2, <3>1, <3>2
    <3>3. CASE u \in gone
      <4>1. va'[u] # <<"sys", c>> /\ va'[u] # <<"box", c>>
        BY <2>2, <3>3, Labelled
      <4>2. boxes[c] # 0 => /\ a + Stride <= boxes[c] \/ boxes[c] + Stride <= a
                            /\ boxes[c] # a + BoxSize
        BY <1>15, <2>4 DEF Live
      <4>3. boxes[c] # 0 => u # SysPage(boxes[c])
        BY <1>3, <1>6, <2>1, <2>3, <3>1, <3>3, <4>2 DEF SysPage
      <4>4. boxes[c] # 0 => u \notin Usable(boxes[c])
        <5>1. u \in Usable(boxes[c]) => boxes[c] + 1 <= u /\ u <= boxes[c] + BoxSize - guards.internal - 1
          BY <1>2, <3>1, UsableIn
        <5> QED BY <1>3, <1>6, <2>1, <2>3, <3>1, <3>3, <4>2, <5>1
      <4> QED BY <3>1, <4>1, <4>3, <4>4
    <3> QED BY <3>2, <3>3
  <2>5. /\ va'[u] # <<"sys", b>> /\ va'[u] # <<"box", b>> /\ boxes'[b] = 0
    <3>1. boxes'[b] = 0
      BY <1>7
    <3>2. CASE u \in gone
      BY <2>2, <3>1, <3>2, Labelled
    <3>3. CASE u \notin gone
      <4>1. u # SysPage(a)
        BY <1>3, <1>6, <2>1, <2>3, <3>3 DEF SysPage
      <4>2. u \notin Usable(a)
        <5>1. u \in Usable(a) => a + 1 <= u /\ u <= a + BoxSize - 1
          BY <1>2, <1>3, UsableIn
        <5> QED BY <1>3, <1>6, <2>1, <2>3, <3>3, <5>1
      <4> QED BY <1>1, <2>1, <2>2, <3>1, <3>3, <4>1, <4>2
    <3> QED BY <3>2, <3>3
  <2>6. u \in gone => InRegions(u)
    <3>1. regions[i].mapbase \in Int /\ regions[i].mapsize \in Int
      BY <1>4, RegionIs
    <3>2. u \in gone => regions[i].mapbase <= u /\ u <= regions[i].mapbase + regions[i].mapsize - 1
      BY <1>3, <1>5, <1>6, <2>1, <2>3, <3>1
    <3> QED BY <1>4, <2>1, <3>1, <3>2 DEF InRegions, From
  <2>7. /\ va'[u] = <<"reserved">> => InRegions(u)
        /\ InRegions(u) => u \in holes \/ va'[u] \notin {<<"free">>, <<"other">>, <<"forgotten">>}
    BY <2>1, <2>2, <2>6, Labelled
  <2> QED BY <2>4, <2>5, <2>7
<1> QED BY <1>9, <1>11, <1>12, <1>13, <1>14, <1>16, <1>17 DEF SpInv

\* Steps that relabel pages and leave boxes and regions alone.
LEMMA RelabelStep ==
    ASSUME SpInv, UNCHANGED <<guards, regions, boxes>>,
           phase' \in {"new", "reserving", "up", "failed", "freed"}, left' \in [total : Int, got : Int],
           Stage', holes \subseteq holes', holes' \subseteq Unit, va' \in [Unit -> Owners],
           \A u \in Unit : va'[u] # va[u] =>
               /\ \A b \in Box : va[u] # <<"sys", b>> /\ va[u] # <<"box", b>>
               /\ \A b \in Box : va'[u] # <<"sys", b>> /\ va'[u] # <<"box", b>>
               /\ va'[u] = <<"reserved">> => InRegions(u)
               /\ InRegions(u) => u \in holes' \/ va'[u] = <<"reserved">>
    PROVE  SpInv'
<1>1. SpaceTypes'
  BY DEF SpInv, SpaceTypes
<1>2. RegionsIn' /\ RegionsApart' /\ Placed' /\ Disjoint' /\ Accounted'
  BY SameGuards DEF SpInv, RegionsIn, RegionsApart, Placed, Slot, Disjoint, Accounted, BoxesOf, Live
<1>3. Labels'
  <2> SUFFICES ASSUME NEW u \in Unit
               PROVE  /\ \A c \in Box : va'[u] = <<"sys", c>> <=> (boxes[c] # 0 /\ u = SysPage(boxes[c]))
                      /\ \A c \in Box : va'[u] = <<"box", c>> <=> (boxes[c] # 0 /\ u \in Usable(boxes[c]))
                      /\ va'[u] = <<"reserved">> => InRegions(u)
                      /\ InRegions(u) => u \in holes' \/ va'[u] \notin {<<"free">>, <<"other">>, <<"forgotten">>}
    BY SameGuards DEF Labels, InRegions
  <2>1. /\ \A c \in Box : va[u] = <<"sys", c>> <=> (boxes[c] # 0 /\ u = SysPage(boxes[c]))
        /\ \A c \in Box : va[u] = <<"box", c>> <=> (boxes[c] # 0 /\ u \in Usable(boxes[c]))
        /\ va[u] = <<"reserved">> => InRegions(u)
        /\ InRegions(u) => u \in holes \/ va[u] \notin {<<"free">>, <<"other">>, <<"forgotten">>}
    BY DEF SpInv, Labels
  <2>2. CASE va'[u] = va[u]
    BY <2>1, <2>2
  <2>3. CASE va'[u] # va[u]
    <3>1. /\ \A b \in Box : va[u] # <<"sys", b>> /\ va[u] # <<"box", b>>
          /\ \A b \in Box : va'[u] # <<"sys", b>> /\ va'[u] # <<"box", b>>
          /\ va'[u] = <<"reserved">> => InRegions(u)
          /\ InRegions(u) => u \in holes' \/ va'[u] = <<"reserved">>
      BY <2>3
    <3> QED BY <2>1, <3>1, Labelled
  <2> QED BY <2>2, <2>3
<1> QED BY <1>1, <1>2, <1>3 DEF SpInv

\* The regions go, boxmap_delete.
LEMMA UnreserveStep ==
    ASSUME Guarded, SpInv, Live = {}, va' = Unreserved(regions), regions' = <<>>,
           UNCHANGED <<guards, left, boxes, holes>>, phase' \in {"failed", "freed"}
    PROVE  SpInv'
<1>1. \A b \in Box : boxes[b] = 0
  BY DEF Live
<1>2. \A u \in Unit : va'[u] = IF InRegions(u) THEN <<"free">> ELSE va[u]
  BY DEF Unreserved, InRegions
<1>3. SpaceTypes'
  <2>1. va' \in [Unit -> Owners]
    BY DEF Unreserved, SpInv, SpaceTypes, Owners
  <2>2. regions' \in Seq(RegionRecord)
    OBVIOUS
  <2> QED BY <2>1, <2>2 DEF SpInv, SpaceTypes
<1>4. DOMAIN regions' = {} /\ Live' = {}
  BY <1>1 DEF Live
<1>5. RegionsIn' /\ RegionsApart' /\ Accounted' /\ Placed' /\ Disjoint'
  BY <1>4 DEF RegionsIn, RegionsApart, Accounted, Placed, Disjoint
<1>6. Stage'
  BY <1>4 DEF Stage
<1>7. Labels'
  <2> SUFFICES ASSUME NEW u \in Unit
               PROVE  /\ \A c \in Box : va'[u] # <<"sys", c>> /\ va'[u] # <<"box", c>>
                      /\ va'[u] # <<"reserved">>
    BY <1>1, <1>4 DEF Labels, InRegions
  <2>1. /\ \A c \in Box : va[u] # <<"sys", c>> /\ va[u] # <<"box", c>>
        /\ va[u] = <<"reserved">> => InRegions(u)
    BY <1>1 DEF SpInv, Labels
  <2> QED BY <1>2, <2>1, Labelled
<1> QED BY <1>3, <1>5, <1>6, <1>7 DEF SpInv

\* boxmap_addspace and what follows fails, lfi_box_new.
LEMMA BoxNewFailsStep ==
    ASSUME Guarded, SpInv, NEW b \in Box, BoxNewFails(b)
    PROVE  SpInv'
<1>1. PICK i, k, a :
         /\ phase = "up" /\ Vacant(i, k)
         /\ a = regions[i].base + k * Chunk
         /\ \/ va' = Put({SysPage(a)}, <<"reserved">>) /\ UNCHANGED holes
            \/ va' = Put({SysPage(a)}, <<"free">>) /\ holes' = holes \cup {SysPage(a)}
         /\ UNCHANGED <<guards, phase, left, regions, boxes>>
  BY FittingIs DEF BoxNewFails
<1>2. /\ i \in DOMAIN regions /\ k \in Nat /\ Slot(a, i, k)
      /\ \A c \in Live : a + Stride <= boxes[c] \/ boxes[c] + Stride <= a
  BY <1>1, VacantApart DEF Vacant
<1>3. /\ guards \in Configs /\ va \in [Unit -> Owners] /\ boxes \in [Box -> Int] /\ holes \subseteq Unit
      /\ NUnits \in Int /\ left \in [total : Int, got : Int] /\ Stage /\ Labels
  BY SpacesAssumption DEF SpInv, SpaceTypes
<1>4. /\ a \in Int /\ 1 <= a - 1 /\ a + Stride <= NUnits /\ regions[i].mapbase <= a - 1
      /\ a + Stride <= regions[i].mapbase + regions[i].mapsize - 1
  BY <1>2, Extent
<1>5. /\ BoxSize \in Nat /\ BoxSize > 0 /\ BoxSize - guards.internal < Stride /\ Stride \in Nat
      /\ guards.internal \in Nat /\ 0 < Stride
      /\ regions[i].mapbase \in Int /\ regions[i].mapsize \in Int
  <2>1. /\ guards.external \in Nat /\ guards.internal \in Nat /\ guards.internal + guards.external > 0
        /\ Footprint = BoxSize + guards.external /\ Footprint <= Stride /\ Stride \in Nat /\ BoxSize \in Nat /\ BoxSize > 0
    BY <1>3, Strides
  <2> QED BY <1>2, <2>1, RegionIs
<1>6. SysPage(a) \in Unit /\ InRegions(SysPage(a)) /\ SysPage(a) = a - 1
  BY <1>2, <1>3, <1>4, <1>5 DEF SysPage, Unit, InRegions, From
<1>7. \A c \in Box : va[SysPage(a)] # <<"sys", c>> /\ va[SysPage(a)] # <<"box", c>>
  <2> SUFFICES ASSUME NEW c \in Box
               PROVE  va[SysPage(a)] # <<"sys", c>> /\ va[SysPage(a)] # <<"box", c>>
    OBVIOUS
  <2>1. /\ va[SysPage(a)] = <<"sys", c>> => boxes[c] # 0 /\ SysPage(a) = SysPage(boxes[c])
        /\ va[SysPage(a)] = <<"box", c>> => boxes[c] # 0 /\ SysPage(a) \in Usable(boxes[c])
    BY <1>3, <1>6 DEF Labels
  <2>2. boxes[c] \in Int /\ (boxes[c] # 0 => a + Stride <= boxes[c] \/ boxes[c] + Stride <= a)
    BY <1>2, <1>3 DEF Live
  <2>3. boxes[c] # 0 => SysPage(a) # SysPage(boxes[c])
    BY <1>4, <1>5, <1>6, <2>2 DEF SysPage
  <2>4. SysPage(a) \in Usable(boxes[c]) => boxes[c] + 1 <= a - 1 /\ a - 1 <= boxes[c] + BoxSize - guards.internal - 1
    BY <1>3, <1>6, <2>2, UsableIn
  <2> QED BY <1>4, <1>5, <2>1, <2>2, <2>3, <2>4
<1>8. Stage'
  BY <1>1, <1>3 DEF Stage, Live
<1>9. CASE va' = Put({SysPage(a)}, <<"reserved">>) /\ UNCHANGED holes
  <2>1. va' \in [Unit -> Owners]
    BY <1>3, <1>9 DEF Put, Owners
  <2>2. \A u \in Unit : va'[u] # va[u] => u = SysPage(a) /\ va'[u] = <<"reserved">>
    BY <1>9 DEF Put
  <2>3. \A u \in Unit : va'[u] # va[u] =>
               /\ \A c \in Box : va[u] # <<"sys", c>> /\ va[u] # <<"box", c>>
               /\ \A c \in Box : va'[u] # <<"sys", c>> /\ va'[u] # <<"box", c>>
               /\ va'[u] = <<"reserved">> => InRegions(u)
               /\ InRegions(u) => u \in holes' \/ va'[u] = <<"reserved">>
    BY <1>6, <1>7, <2>2, Labelled
  <2> QED BY <1>1, <1>3, <1>8, <1>9, <2>1, <2>3, RelabelStep
<1>10. CASE va' = Put({SysPage(a)}, <<"free">>) /\ holes' = holes \cup {SysPage(a)}
  <2>1. va' \in [Unit -> Owners]
    BY <1>3, <1>10 DEF Put, Owners
  <2>2. \A u \in Unit : va'[u] # va[u] => u = SysPage(a) /\ va'[u] = <<"free">>
    BY <1>10 DEF Put
  <2>3. \A u \in Unit : va'[u] # va[u] =>
               /\ \A c \in Box : va[u] # <<"sys", c>> /\ va[u] # <<"box", c>>
               /\ \A c \in Box : va'[u] # <<"sys", c>> /\ va'[u] # <<"box", c>>
               /\ va'[u] = <<"reserved">> => InRegions(u)
               /\ InRegions(u) => u \in holes' \/ va'[u] = <<"reserved">>
    BY <1>6, <1>7, <1>10, <2>2, Labelled
  <2>4. holes \subseteq holes' /\ holes' \subseteq Unit /\ phase' = phase
    BY <1>1, <1>3, <1>6, <1>10
  <2> QED BY <1>1, <1>3, <1>8, <2>1, <2>3, <2>4, RelabelStep
<1> QED BY <1>1, <1>9, <1>10

\* The rest of the program takes a free page.
LEMMA OtherMapsStep ==
    ASSUME SpInv, OtherMaps
    PROVE  SpInv'
<1>1. PICK u \in Unit : va[u] = <<"free">> /\ va' = Put({u}, <<"other">>)
  BY DEF OtherMaps
<1>2. /\ UNCHANGED <<guards, phase, left, regions, boxes, holes>> /\ SpaceTypes /\ Stage /\ Labels
  BY DEF OtherMaps, SpInv
<1>3. va' \in [Unit -> Owners]
  BY <1>1, <1>2 DEF Put, Owners, SpaceTypes
<1>4. InRegions(u) => u \in holes
  BY <1>1, <1>2 DEF Labels
<1>5. \A w \in Unit : va'[w] # va[w] =>
         /\ \A c \in Box : va[w] # <<"sys", c>> /\ va[w] # <<"box", c>>
         /\ \A c \in Box : va'[w] # <<"sys", c>> /\ va'[w] # <<"box", c>>
         /\ va'[w] = <<"reserved">> => InRegions(w)
         /\ InRegions(w) => w \in holes' \/ va'[w] = <<"reserved">>
  <2>1. \A w \in Unit : va'[w] # va[w] => w = u /\ va'[w] = <<"other">>
    BY <1>1 DEF Put
  <2> QED BY <1>1, <1>2, <1>4, <2>1, Labelled
<1>6. Stage'
  BY <1>2 DEF Stage, Live
<1>7. /\ left' \in [total : Int, got : Int] /\ holes' \subseteq Unit
      /\ phase' \in {"new", "reserving", "up", "failed", "freed"} /\ holes \subseteq holes'
  BY <1>2 DEF SpaceTypes
<1> QED BY <1>2, <1>3, <1>5, <1>6, <1>7, RelabelStep

\* What boxmap_reserve asks for is a number of pages.
LEMMA Sized ==
    ASSUME Guarded, guards \in Configs
    PROVE  Size \in Int /\ MinSize \in Int /\ MinSize >= 1 /\ NBoxes \in Nat
<1>1. /\ guards.region \in Nat /\ guards.n \in Nat /\ Footprint \in Nat /\ Chunk \in Nat /\ Chunk > 0
  BY Strides
<1>2. {Want, Least} \subseteq Nat \ {0}
  BY SpacesAssumption
<1>3. NBoxes \in Nat /\ NBoxes * Footprint \in Nat
  BY <1>1 DEF NBoxes
<1>4. NBoxes > 0 => Size \in Int /\ Size >= 1
  BY <1>1, <1>3 DEF Size
<1> QED BY <1>2, <1>3, <1>4 DEF Size, MinSize

\* reserve and addregion: an aligned region within fresh pages.
LEMMA Added ==
    ASSUME Guarded, SpInv, NEW n \in Sizes, NEW a \in Unit, n >= MinSize, Lands(a, n)
    PROVE  /\ n \in Int /\ n >= 1 /\ a \in Int /\ 1 <= a /\ a + n <= NUnits + 1
           /\ AlignedBase(a) \in Int /\ AlignedSize(a, n) \in Int
           /\ a + guards.region <= AlignedBase(a)
           /\ AlignedBase(a) + AlignedSize(a, n) + guards.region <= a + n
<1>1. /\ guards \in Configs /\ left.total \in Int /\ left.got \in Int /\ NUnits \in Int
  BY SpacesAssumption DEF SpInv, SpaceTypes
<1>2. Size \in Int /\ MinSize \in Int /\ MinSize >= 1
  BY <1>1, Sized
<1>3. n \in Int
  BY <1>1, <1>2 DEF Sizes, Asks
<1>4. a \in Int /\ 1 <= a
  BY DEF Unit
<1>5. a + n <= NUnits + 1
  <2>1. a + n - 1 \in From(a, n)
    BY <1>2, <1>3, <1>4 DEF From
  <2>2. a + n - 1 \in Unit
    BY <2>1 DEF Lands
  <2> QED BY <1>1, <1>3, <1>4, <2>2 DEF Unit
<1>6. guards.region \in Nat /\ Chunk \in Nat /\ Chunk > 0
  BY <1>1, Strides
<1>7. AlignedBase(a) \in Int /\ a + guards.region <= AlignedBase(a)
  <2>1. a + guards.region + Chunk - 1 \in Int
    BY <1>4, <1>6
  <2>2. Floor(a + guards.region + Chunk - 1) \in Int
        /\ a + guards.region + Chunk - 1 < Floor(a + guards.region + Chunk - 1) + Chunk
    BY <2>1, Division
  <2> QED BY <1>4, <1>6, <2>2 DEF AlignedBase, RoundUp
<1>8. Floor(a + n - guards.region) \in Int /\ Floor(a + n - guards.region) <= a + n - guards.region
  <2>1. a + n - guards.region \in Int
    BY <1>3, <1>4, <1>6
  <2> QED BY <2>1, Division
<1>9. AlignedSize(a, n) = Floor(a + n - guards.region) - AlignedBase(a)
  BY DEF AlignedSize
<1> QED BY <1>2, <1>3, <1>4, <1>5, <1>6, <1>7, <1>8, <1>9

\* reserve grants a region.
LEMMA ReserveStep ==
    ASSUME Guarded, SpInv, Reserve
    PROVE  SpInv'
<1>1. PICK n \in Sizes, a \in Unit :
          /\ n >= MinSize /\ Lands(a, n)
          /\ va' = Put(From(a, n), <<"reserved">>)
          /\ regions' = Append(regions, [base |-> AlignedBase(a), size |-> AlignedSize(a, n),
                                         bits |-> {}, active |-> 0, mapbase |-> a, mapsize |-> n])
          /\ left' = [total |-> left.total - n, got |-> left.got + n]
          /\ phase' = IF left.got + n >= Size THEN "up" ELSE "reserving"
  BY DEF Reserve
<1>2. phase = "reserving" /\ UNCHANGED <<guards, boxes, holes>>
  BY DEF Reserve
<1>3. /\ SpaceTypes /\ RegionsIn /\ RegionsApart /\ Labels /\ Live = {} /\ holes = {}
  BY <1>2 DEF SpInv, Stage
<1>4. /\ n \in Int /\ n >= 1 /\ a \in Int /\ 1 <= a /\ a + n <= NUnits + 1
      /\ AlignedBase(a) \in Int /\ AlignedSize(a, n) \in Int
      /\ a + guards.region <= AlignedBase(a)
      /\ AlignedBase(a) + AlignedSize(a, n) + guards.region <= a + n
  BY <1>1, Added
<1>5. PICK r : r = [base |-> AlignedBase(a), size |-> AlignedSize(a, n),
                    bits |-> {}, active |-> 0, mapbase |-> a, mapsize |-> n]
  OBVIOUS
<1>6. /\ r \in RegionRecord /\ r.base = AlignedBase(a) /\ r.size = AlignedSize(a, n) /\ r.bits = {}
      /\ r.active = 0 /\ r.mapbase = a /\ r.mapsize = n
  BY <1>4, <1>5 DEF RegionRecord
<1>7. PICK m : m = Len(regions) + 1
  OBVIOUS
<1>8. /\ regions' \in Seq(RegionRecord) /\ DOMAIN regions' = DOMAIN regions \cup {m} /\ m \notin DOMAIN regions
      /\ \A i \in DOMAIN regions : regions'[i] = regions[i]
      /\ regions'[m] = r
  <2>1. regions \in Seq(RegionRecord) /\ regions' = Append(regions, r)
    BY <1>1, <1>3, <1>5 DEF SpaceTypes
  <2> QED BY <1>6, <1>7, <2>1
<1>9. SpaceTypes'
  <2>1. va' \in [Unit -> Owners]
    BY <1>1, <1>3 DEF Put, Owners, SpaceTypes
  <2>2. left' \in [total : Int, got : Int]
    BY <1>1, <1>3, <1>4 DEF SpaceTypes
  <2> QED BY <1>1, <1>2, <1>3, <1>8, <2>1, <2>2 DEF SpaceTypes
<1>10. RegionsIn'
  <2>1. /\ 1 <= r.mapbase /\ 1 <= r.mapsize /\ r.mapbase + r.mapsize <= NUnits + 1
        /\ r.mapbase + guards.region <= r.base
        /\ r.base + r.size + guards.region <= r.mapbase + r.mapsize
    BY <1>4, <1>6
  <2> QED BY <1>2, <1>3, <1>8, <2>1 DEF RegionsIn
<1>11. ASSUME NEW i \in DOMAIN regions
       PROVE  regions[i].mapbase + regions[i].mapsize <= a \/ a + n <= regions[i].mapbase
  <2>1. /\ regions[i].mapbase \in Int /\ regions[i].mapsize \in Int
        /\ 1 <= regions[i].mapbase /\ 1 <= regions[i].mapsize
        /\ regions[i].mapbase + regions[i].mapsize <= NUnits + 1
    BY <1>3, RegionIs DEF RegionsIn
  <2>2. ASSUME NEW u \in Int, u \in From(a, n), u \in From(regions[i].mapbase, regions[i].mapsize)
        PROVE  FALSE
    <3>1. u \in Unit /\ va[u] = <<"free">>
      BY <1>1, <2>2 DEF Lands
    <3>2. va[u] # <<"free">>
      BY <1>3, <2>2, <3>1 DEF Labels, InRegions
    <3> QED BY <3>1, <3>2
  <2>3. a <= regions[i].mapbase /\ regions[i].mapbase < a + n => FALSE
    BY <1>4, <2>1, <2>2 DEF From
  <2>4. regions[i].mapbase <= a /\ a < regions[i].mapbase + regions[i].mapsize => FALSE
    BY <1>4, <2>1, <2>2 DEF From
  <2> QED BY <1>4, <2>1, <2>3, <2>4
<1>12. RegionsApart'
  <2> SUFFICES ASSUME NEW i \in DOMAIN regions', NEW j \in DOMAIN regions', i # j
               PROVE  \/ regions'[i].mapbase + regions'[i].mapsize <= regions'[j].mapbase
                      \/ regions'[j].mapbase + regions'[j].mapsize <= regions'[i].mapbase
    BY DEF RegionsApart
  <2>1. CASE i = m
    BY <1>6, <1>8, <1>11, <2>1
  <2>2. CASE j = m
    BY <1>6, <1>8, <1>11, <2>2
  <2>3. CASE i # m /\ j # m
    BY <1>3, <1>8, <2>3 DEF RegionsApart
  <2> QED BY <2>1, <2>2, <2>3
<1>13. Live' = {} /\ \A b \in Box : boxes[b] = 0
  BY <1>2, <1>3 DEF Live
<1>14. Placed' /\ Disjoint' /\ Stage'
  BY <1>1, <1>2, <1>3, <1>13 DEF Placed, Disjoint, Stage
<1>15. Accounted'
  <2>1. \A i : BoxesOf(i)' = {} /\ BoxesOf(i) = {}
    BY <1>3, <1>13 DEF BoxesOf
  <2>2. \A i \in DOMAIN regions' : regions'[i].bits = {} /\ regions'[i].active = Cardinality({})
    <3>1. \A i \in DOMAIN regions : regions[i].bits = {} /\ regions[i].active = Cardinality({})
      BY <2>1 DEF SpInv, Accounted
    <3> QED BY <1>6, <1>8, <3>1, FS_EmptySet
  <2> QED BY <2>1, <2>2 DEF Accounted
<1>16. Labels'
  <2> SUFFICES ASSUME NEW u \in Unit
               PROVE  /\ \A c \in Box : va'[u] # <<"sys", c>> /\ va'[u] # <<"box", c>>
                      /\ va'[u] = <<"reserved">> => InRegions(u)'
                      /\ InRegions(u)' => va'[u] \notin {<<"free">>, <<"other">>, <<"forgotten">>}
    BY <1>2, <1>13 DEF Labels
  <2>1. /\ \A c \in Box : va[u] # <<"sys", c>> /\ va[u] # <<"box", c>>
        /\ va[u] = <<"reserved">> => InRegions(u)
        /\ InRegions(u) => va[u] \notin {<<"free">>, <<"other">>, <<"forgotten">>}
    BY <1>3, <1>13 DEF Labels
  <2>2. InRegions(u)' <=> InRegions(u) \/ u \in From(a, n)
    <3>1. InRegions(u)' <=> \E i \in DOMAIN regions' : u \in From(regions'[i].mapbase, regions'[i].mapsize)
      BY DEF InRegions
    <3> QED BY <1>6, <1>8, <3>1 DEF InRegions
  <2>3. /\ u \in From(a, n) => va'[u] = <<"reserved">>
        /\ u \notin From(a, n) => va'[u] = va[u]
    BY <1>1 DEF Put
  <2> QED BY <2>1, <2>2, <2>3, Labelled
<1> QED BY <1>9, <1>10, <1>12, <1>14, <1>15, <1>16 DEF SpInv

\* reserve is refused, for good or after enough.
LEMMA GiveUpStep ==
    ASSUME Guarded, SpInv, GiveUpReserve
    PROVE  SpInv'
<1>1. phase = "reserving" /\ UNCHANGED <<guards, left, boxes, holes>> /\ phase' \in {"up", "failed"}
  BY DEF GiveUpReserve
<1>2. SpaceTypes /\ Labels /\ Live = {} /\ Live' = {} /\ holes = {}
  BY <1>1 DEF SpInv, Stage, Live
<1>3. CASE phase' = "failed"
  <2>1. va' = Unreserved(regions) /\ regions' = <<>>
    BY <1>3 DEF GiveUpReserve
  <2> QED BY <1>1, <1>2, <1>3, <2>1, UnreserveStep
<1>4. CASE phase' = "up"
  <2>1. /\ UNCHANGED regions
        /\ \/ UNCHANGED va
           \/ \E a \in Unit : Lands(a, left.total) /\ va' = Put(From(a, left.total), <<"forgotten">>)
    BY <1>4 DEF GiveUpReserve
  <2>2. va' \in [Unit -> Owners]
    BY <1>2, <2>1 DEF Put, Owners, SpaceTypes
  <2>3. \A u \in Unit : va'[u] # va[u] => va[u] = <<"free">> /\ va'[u] = <<"forgotten">>
    BY <2>1 DEF Put, Lands
  <2>4. \A u \in Unit : va'[u] # va[u] =>
           /\ \A c \in Box : va[u] # <<"sys", c>> /\ va[u] # <<"box", c>>
           /\ \A c \in Box : va'[u] # <<"sys", c>> /\ va'[u] # <<"box", c>>
           /\ va'[u] = <<"reserved">> => InRegions(u)
           /\ InRegions(u) => u \in holes' \/ va'[u] = <<"reserved">>
    <3>1. \A u \in Unit : va[u] = <<"free">> => ~InRegions(u)
      BY <1>2 DEF Labels
    <3> QED BY <2>3, <3>1, Labelled
  <2>5. Stage'
    BY <1>1, <1>2, <1>4 DEF Stage
  <2>6. left' \in [total : Int, got : Int] /\ holes \subseteq holes' /\ holes' \subseteq Unit
    BY <1>1, <1>2 DEF SpaceTypes
  <2> QED BY <1>1, <1>4, <2>1, <2>2, <2>4, <2>5, <2>6, RelabelStep
<1> QED BY <1>1, <1>3, <1>4

\* lfi_new starts with no region and no box.
LEMMA NewStep ==
    ASSUME Guarded, SpInv, LfiNew \/ ReserveMost
    PROVE  SpInv'
<1>1. /\ phase = "new" /\ phase' \in {"reserving", "up"} /\ UNCHANGED <<guards, va, regions, boxes, holes>>
      /\ left' \in {left, [total |-> Size, got |-> 0], [total |-> Most, got |-> 0]}
  BY DEF LfiNew, ReserveMost
<1>2. SpaceTypes /\ Stage /\ Size \in Int /\ Most \in Int
  BY Sized, SpacesAssumption DEF SpInv, SpaceTypes
<1>3. left' \in [total : Int, got : Int] /\ holes' \subseteq Unit /\ holes \subseteq holes' /\ va' \in [Unit -> Owners]
  BY <1>1, <1>2 DEF SpaceTypes
<1>4. Stage'
  BY <1>1, <1>2 DEF Stage, Live
<1> QED BY <1>1, <1>3, <1>4, RelabelStep

-----------------------------------------------------------------------------
\* Before lfi_new there is neither region nor box.
LEMMA SpaceBegins == SpaceInit => SpInv
<1> SUFFICES ASSUME SpaceInit PROVE SpInv
  OBVIOUS
<1>1. /\ guards \in Configs /\ phase = "new" /\ left = [total |-> 0, got |-> 0] /\ regions = <<>>
      /\ boxes = [b \in Box |-> 0] /\ holes = {}
      /\ \E n \in 1..Chunk : va = [u \in Unit |-> IF u <= n THEN <<"other">> ELSE <<"free">>]
  BY DEF SpaceInit
<1>2. va \in [Unit -> Owners] /\ \A u \in Unit : va[u] = <<"other">> \/ va[u] = <<"free">>
  BY <1>1 DEF Owners
<1>3. DOMAIN regions = {} /\ Live = {} /\ regions \in Seq(RegionRecord) /\ \A b \in Box : boxes[b] = 0
  BY <1>1 DEF Live
<1>4. SpaceTypes
  BY <1>1, <1>2, <1>3 DEF SpaceTypes
<1>5. RegionsIn /\ RegionsApart /\ Placed /\ Disjoint /\ Accounted /\ Stage
  BY <1>1, <1>3 DEF RegionsIn, RegionsApart, Placed, Disjoint, Accounted, Stage
<1>6. Labels
  BY <1>2, <1>3, Labelled DEF Labels, InRegions
<1> QED BY <1>4, <1>5, <1>6 DEF SpInv

\* Every step keeps the invariant.
LEMMA SpaceStep ==
    ASSUME Guarded, SpInv, [SpaceNext]_spaceVars, [FreeOrder]_spaceVars
    PROVE  SpInv'
<1>1. CASE LfiNew \/ ReserveMost
  BY <1>1, NewStep
<1>2. CASE Reserve
  BY <1>2, ReserveStep
<1>3. CASE GiveUpReserve
  BY <1>3, GiveUpStep
<1>4. CASE LfiFree
  BY <1>4, UnreserveStep DEF LfiFree, Live
<1>5. CASE OtherMaps
  BY <1>5, OtherMapsStep
<1>6. ASSUME NEW b \in Box, BoxNew(b) PROVE SpInv'
  BY <1>6, BoxNewStep
<1>7. ASSUME NEW b \in Box, BoxNewFails(b) PROVE SpInv'
  BY <1>7, BoxNewFailsStep
<1>8. ASSUME NEW b \in Box, BoxFree(b) PROVE SpInv'
  <2>1. FreeOrder \/ UNCHANGED spaceVars
    OBVIOUS
  <2>2. boxes'[b] = 0 /\ boxes[b] # 0
    BY <1>8 DEF BoxFree, SpInv, SpaceTypes
  <2> QED BY <1>8, <2>1, <2>2, BoxFreeStep DEF spaceVars
<1>9. CASE UNCHANGED spaceVars
  <2>1. UNCHANGED <<guards, va, phase, left, regions, boxes, holes>>
    BY <1>9 DEF spaceVars
  <2>2. SpaceTypes /\ Stage
    BY DEF SpInv
  <2>3. Stage' /\ holes \subseteq holes' /\ holes' \subseteq Unit /\ va' \in [Unit -> Owners]
        /\ left' \in [total : Int, got : Int] /\ phase' \in {"new", "reserving", "up", "failed", "freed"}
    BY <2>1, <2>2 DEF Stage, Live, SpaceTypes
  <2> QED BY <2>1, <2>3, RelabelStep
<1> QED BY <1>1, <1>2, <1>3, <1>4, <1>5, <1>6, <1>7, <1>8, <1>9 DEF SpaceNext

\* The labels of pages, the places of boxes and regions and their books agree
\* after every lfi_new, lfi_box_new, lfi_box_free and lfi_free, and every failure.
THEOREM SpaceInvariance ==
    ASSUME Guarded
    PROVE  SpaceSpec /\ [][FreeOrder]_spaceVars => []SpInv
<1>1. SpaceInit => SpInv
  BY SpaceBegins
<1>2. SpInv /\ [SpaceNext]_spaceVars /\ [FreeOrder]_spaceVars => SpInv'
  BY SpaceStep
<1> QED BY <1>1, <1>2, PTL DEF SpaceSpec

\* With guards outside every box no box begins where the range of another ends.
LEMMA AnyOrder ==
    ASSUME GuardsBetween, SpInv
    PROVE  Guarded /\ FreeOrder
<1>1. Guarded
  BY SpacesAssumption DEF GuardsBetween, Guarded
<1>2. ASSUME NEW b \in Live, NEW c \in Live PROVE boxes[c] # boxes[b] + BoxSize
  <2>1. guards \in Configs /\ boxes[b] \in Int /\ boxes[c] \in Int
    BY DEF SpInv, SpaceTypes, Live
  <2>2. /\ Footprint = BoxSize + guards.external /\ guards.external \in Nat /\ BoxSize \in Nat /\ BoxSize > 0
        /\ Footprint <= Stride /\ Stride \in Nat
    BY <1>1, <2>1, Strides
  <2>3. guards.external > 0
    BY <2>1 DEF GuardsBetween
  <2>4. b # c => boxes[b] + Stride <= boxes[c] \/ boxes[c] + Stride <= boxes[b]
    BY DEF SpInv, Disjoint
  <2> QED BY <2>1, <2>2, <2>3, <2>4
<1>3. FreeOrder
  BY <1>2 DEF FreeOrder, BoxFree, Live
<1> QED BY <1>1, <1>3

\* So their boxes may be freed in any order.
LEMMA Ordered ==
    ASSUME GuardsBetween
    PROVE  SpaceSpec => [][FreeOrder]_spaceVars
<1>1. SpaceInit => SpInv
  BY SpaceBegins
<1>2. SpInv => FreeOrder
  BY AnyOrder
<1>3. SpInv /\ [SpaceNext]_spaceVars /\ [FreeOrder]_spaceVars => SpInv'
  BY SpaceStep, AnyOrder
<1> QED BY <1>1, <1>2, <1>3, PTL DEF SpaceSpec

\* Every box has its pages, its page of runtime calls and the guard behind it
\* to itself, and the bit vectors say which chunks are taken (box.c, boxmap.c),
\* if boxes are freed in an order that suits the guards.
THEOREM BoxesKeepApart ==
    ASSUME Guarded
    PROVE  SpaceSpec /\ [][FreeOrder]_spaceVars => []SpacesSound
<1>1. SpInv => SpacesSound
  BY Apart, Accounts DEF SpacesSound
<1> QED BY <1>1, SpaceInvariance, PTL

\* Only free pages and pages of regions change hands.
LEMMA OthersStep ==
    ASSUME Guarded, SpInv, SpaceNext, NEW u \in Unit \ holes, va[u] = <<"other">>
    PROVE  va'[u] = <<"other">>
<1>1. ~InRegions(u) /\ u \in Int /\ SpaceTypes /\ RegionsIn
  <2>1. SpaceTypes /\ RegionsIn /\ Labels
    BY DEF SpInv
  <2>2. u \in Unit /\ u \in Int
    BY SpacesAssumption DEF Unit
  <2>3. ~InRegions(u)
    BY <2>1, <2>2 DEF Labels
  <2> QED BY <2>1, <2>2, <2>3
<1>2. ASSUME NEW a, NEW i \in DOMAIN regions, NEW k \in Nat, Slot(a, i, k)
      PROVE  u # SysPage(a) /\ u \notin Usable(a) /\ u \notin From(SysPage(a), BoxSize + 1)
  <2>1. /\ a \in Int /\ regions[i].mapbase <= a - 1
        /\ a + Stride <= regions[i].mapbase + regions[i].mapsize - 1
    BY <1>2, Extent
  <2>2. /\ regions[i].mapbase \in Int /\ regions[i].mapsize \in Int
        /\ BoxSize \in Nat /\ BoxSize > 0 /\ BoxSize <= Stride /\ Stride \in Nat
    <3>1. /\ guards.external \in Nat /\ Footprint = BoxSize + guards.external
          /\ Footprint <= Stride /\ Stride \in Nat /\ BoxSize \in Nat /\ BoxSize > 0
      BY <1>1, Strides DEF SpaceTypes
    <3> QED BY <3>1, RegionIs
  <2>3. ~(a - 1 <= u /\ u <= a + BoxSize - 1)
    <3>1. ~(regions[i].mapbase <= u /\ u <= regions[i].mapbase + regions[i].mapsize - 1)
      BY <1>1, <2>2 DEF InRegions, From
    <3> QED BY <1>1, <2>1, <2>2, <3>1
  <2>4. u \in Usable(a) => a + 1 <= u /\ u <= a + BoxSize - 1
    BY <1>1, <2>1, UsableIn DEF SpaceTypes
  <2>5. u # SysPage(a) /\ u \notin From(SysPage(a), BoxSize + 1)
    BY <1>1, <2>1, <2>2, <2>3 DEF SysPage, From
  <2> QED BY <1>1, <2>1, <2>2, <2>3, <2>4, <2>5
<1>3. CASE LfiNew \/ ReserveMost
  BY <1>3 DEF LfiNew, ReserveMost
<1>4. CASE Reserve
  BY <1>4, Labelled DEF Reserve, Put, Lands
<1>5. CASE GiveUpReserve \/ LfiFree
  <2>1. va' = Unreserved(regions) => va'[u] = va[u]
    BY <1>1 DEF Unreserved, InRegions
  <2>2. \/ va' = Unreserved(regions) \/ UNCHANGED va
        \/ \E a \in Unit : Lands(a, left.total) /\ va' = Put(From(a, left.total), <<"forgotten">>)
    BY <1>5 DEF GiveUpReserve, LfiFree
  <2> QED BY <2>1, <2>2, Labelled DEF Put, Lands
<1>6. CASE OtherMaps
  BY <1>6 DEF OtherMaps, Put
<1>7. ASSUME NEW b \in Box, BoxNew(b) \/ BoxNewFails(b)
      PROVE  va'[u] = <<"other">>
  <2>1. PICK i, k, a :
           /\ Vacant(i, k) /\ a = regions[i].base + k * Chunk
           /\ \/ va' = [w \in Unit |-> IF w = SysPage(a) THEN <<"sys", b>>
                                       ELSE IF w \in Usable(a) THEN <<"box", b>> ELSE va[w]]
              \/ va' = Put({SysPage(a)}, <<"reserved">>)
              \/ va' = Put({SysPage(a)}, <<"free">>)
    <3>1. CASE BoxNew(b)
      BY <3>1, FittingIs DEF BoxNew
    <3>2. CASE BoxNewFails(b)
      BY <3>2, FittingIs DEF BoxNewFails
    <3> QED BY <1>7, <3>1, <3>2
  <2>2. u # SysPage(a) /\ u \notin Usable(a)
    BY <1>2, <2>1, VacantApart DEF Vacant
  <2> QED BY <2>1, <2>2 DEF Put
<1>8. ASSUME NEW b \in Box, BoxFree(b)
      PROVE  va'[u] = <<"other">>
  <2>1. b \in Live /\ va' = Put(From(SysPage(boxes[b]), BoxSize + 1), <<"reserved">>)
    BY <1>8 DEF BoxFree, Live
  <2>2. u \notin From(SysPage(boxes[b]), BoxSize + 1)
    BY <1>2, <2>1 DEF SpInv, Placed
  <2> QED BY <2>1, <2>2 DEF Put
<1> QED BY <1>3, <1>4, <1>5, <1>6, <1>7, <1>8 DEF SpaceNext

\* The library never maps over pages of the rest of the program (boxmap.c
\* reserve and box.c), but where it left a hole itself.
THEOREM OthersStayMapped ==
    ASSUME Guarded
    PROVE  SpaceSpec /\ [][FreeOrder]_spaceVars => OthersKept
<1>1. SpInv /\ [SpaceNext]_spaceVars =>
        [\A u \in Unit \ holes : va[u] = <<"other">> => va'[u] = <<"other">>]_spaceVars
  BY OthersStep
<1>2. SpaceSpec /\ [][FreeOrder]_spaceVars => []SpInv
  BY SpaceInvariance
<1> QED BY <1>1, <1>2, PTL DEF SpaceSpec, OthersKept

-----------------------------------------------------------------------------
\* Guards of whole chunks (core.h, core.c: 4 GiB both on x86-64).
WholeGuards == \A c \in Configs : c.external % Chunk = 0

\* Boxes start at multiples of their size, and each region has room for all.
OnSlots ==
    \A b \in Live : \E i \in DOMAIN regions : \E q \in Nat : Slot(boxes[b], i, q * Slots)
Roomy ==
    NBoxes > 0 =>
        /\ \A i \in DOMAIN regions : NBoxes * Slots <= regions[i].size \div Chunk
        /\ phase = "up" \/ (phase = "reserving" /\ left.got > 0) => regions # <<>>
        /\ left.got >= 0

\* Multiples of a number keep its distance.
LEMMA SlotMultiples ==
    ASSUME NEW m \in Nat, m > 0, NEW p \in Int, NEW q \in Int
    PROVE  /\ p * m \in Int /\ q * m \in Int
           /\ p < q => p * m + m <= q * m
           /\ p <= q => p * m <= q * m
<1>1. p * m \in Int /\ q * m \in Int /\ (p + 1) * m = p * m + m
  OBVIOUS
<1>2. \A x, y \in Int : x <= y => x * m <= y * m
  OBVIOUS
<1>3. p < q => (p + 1) * m <= q * m
  BY <1>2
<1> QED BY <1>1, <1>2, <1>3

\* A multiple of a chunk.
LEMMA WholeChunks ==
    ASSUME NEW x \in Int, x % Chunk = 0
    PROVE  \E y \in Int : x = y * Chunk
<1>1. Floor(x) = (x \div Chunk) * Chunk /\ x \div Chunk \in Int
  BY Division
<1>2. Floor(x) = x
  BY DEF Floor
<1> QED BY <1>1, <1>2

\* What it is to lie in a range.
LEMMA Within ==
    ASSUME NEW a \in Int, NEW n \in Int, NEW x \in From(a, n)
    PROVE  x \in Int /\ a <= x /\ x < a + n
BY DEF From

\* Whole guards: nothing is lost between boxes.
LEMMA WholeStride ==
    ASSUME Guarded, WholeGuards, guards \in Configs
    PROVE  Stride = Footprint
<1>1. /\ guards.external \in Nat /\ guards.external % Chunk = 0 /\ BoxSize \in Nat
      /\ Chunk \in Nat /\ Chunk > 0 /\ BoxSize % Chunk = 0
      /\ Footprint = BoxSize + guards.external /\ Stride = Slots * Chunk
  BY Strides, SpacesAssumption DEF WholeGuards
<1>2. PICK x \in Int : BoxSize = x * Chunk
  <2>1. BoxSize \in Int /\ BoxSize % Chunk = 0
    BY <1>1
  <2> QED BY <2>1, WholeChunks
<1>3. PICK y \in Int : guards.external = y * Chunk
  <2>1. guards.external \in Int /\ guards.external % Chunk = 0
    BY <1>1
  <2> QED BY <2>1, WholeChunks
<1>4. Footprint = (x + y) * Chunk /\ (x + y) * Chunk \in Int
  BY <1>1, <1>2, <1>3, Multiples
<1>5. Slots = ((x + y) * Chunk + Chunk - 1) \div Chunk
  BY <1>4 DEF Slots, Chunks
<1>6. PICK s \in Int : /\ s = Slots /\ s * Chunk \in Int
                       /\ s * Chunk <= (x + y) * Chunk + Chunk - 1
                       /\ (x + y) * Chunk + Chunk - 1 < s * Chunk + Chunk
  <2>1. (x + y) * Chunk + Chunk - 1 \in Int
    BY <1>1, <1>4
  <2> QED BY <1>5, <2>1, Division
<1>7. PICK z \in Int : z = x + y
  OBVIOUS
<1>8. s = z
  <2>1. s < z => s * Chunk + Chunk <= z * Chunk
    BY <1>1, SlotMultiples
  <2>2. z < s => z * Chunk + Chunk <= s * Chunk
    BY <1>1, SlotMultiples
  <2> QED BY <1>1, <1>4, <1>6, <1>7, <2>1, <2>2
<1> QED BY <1>1, <1>4, <1>6, <1>7, <1>8

\* bitvec_find_zeroes finds a whole slot.
LEMMA FirstOnSlot ==
    ASSUME Guarded, SpInv, OnSlots, NEW i, NEW k, Vacant(i, k), FirstVacant(i, k)
    PROVE  \E q \in Nat : k = q * Slots
<1>1. /\ i \in DOMAIN regions /\ k \in Nat /\ k + Slots <= regions[i].size \div Chunk
      /\ From(k, Slots) \cap regions[i].bits = {} /\ regions[i].size \div Chunk \in Int
  BY RegionIs DEF Vacant
<1>2. Slots \in Nat /\ Slots > 0
  BY Strides, Configured
<1>3. PICK q \in Nat : q * Slots \in Nat /\ q * Slots <= k /\ k < q * Slots + Slots
  <2>1. k \div Slots \in Nat /\ k % Slots \in 0..(Slots - 1) /\ k = Slots * (k \div Slots) + (k % Slots)
    BY <1>1, <1>2
  <2>2. PICK q \in Nat : q = k \div Slots
    BY <2>1
  <2>3. Slots * q = q * Slots /\ q * Slots \in Nat
    BY <1>2, <2>2
  <2> QED BY <1>1, <1>2, <2>1, <2>2, <2>3
<1>4. From(q * Slots, Slots) \cap regions[i].bits = {}
  <2> SUFFICES ASSUME NEW x \in From(q * Slots, Slots), x \in regions[i].bits
               PROVE  FALSE
    OBVIOUS
  <2>1. PICK c \in BoxesOf(i) : x \in Bits(regions[i], boxes[c], Footprint)
    BY <1>1 DEF SpInv, Accounted
  <2>2. c \in Live /\ boxes[c] \in From(regions[i].base, regions[i].size)
    BY DEF BoxesOf
  <2>3. PICK j \in DOMAIN regions, p \in Nat : Slot(boxes[c], j, p * Slots)
    BY <2>2 DEF OnSlots
  <2>4. p * Slots \in Nat
    BY <1>2
  <2>5. j = i
    BY <1>1, <2>2, <2>3, <2>4, OneRegion
  <2>6. Bits(regions[i], boxes[c], Footprint) = From(p * Slots, Slots)
    BY <1>1, <2>3, <2>4, <2>5, Extent
  <2>7. x \in Int /\ q * Slots <= x /\ x < q * Slots + Slots /\ p * Slots <= x /\ x < p * Slots + Slots
    <3>1. x \in From(p * Slots, Slots)
      BY <2>1, <2>6
    <3> QED BY <1>2, <1>3, <2>4, <3>1, Within
  <2>8. ~(p < q) /\ ~(q < p)
    <3>1. p < q => p * Slots + Slots <= q * Slots
      BY <1>2, SlotMultiples
    <3>2. q < p => q * Slots + Slots <= p * Slots
      BY <1>2, SlotMultiples
    <3> QED BY <1>2, <1>3, <2>4, <2>7, <3>1, <3>2
  <2>9. p = q
    BY <2>8
  <2>10. k \in Bits(regions[i], boxes[c], Footprint)
    BY <1>1, <1>2, <1>3, <2>6, <2>9 DEF From
  <2>11. k \in regions[i].bits
    BY <1>1, <2>10 DEF SpInv, Accounted
  <2>12. k \in From(k, Slots)
    BY <1>1, <1>2 DEF From
  <2> QED BY <1>1, <2>11, <2>12
<1>5. Vacant(i, q * Slots)
  <2>1. q * Slots + Slots <= regions[i].size \div Chunk
    BY <1>1, <1>2, <1>3
  <2> QED BY <1>1, <1>3, <1>4, <2>1 DEF Vacant
<1>6. k <= q * Slots
  BY <1>5 DEF FirstVacant
<1> QED BY <1>1, <1>3, <1>6

\* As long as a box is missing, its slot is free: the boxes there are take a
\* slot each.
LEMMA RoomLeft ==
    ASSUME Guarded, SpInv, OnSlots, Roomy
    PROVE  EnoughSpace
<1> SUFFICES ASSUME phase = "up", NBoxes > 0, Cardinality(Live) < NBoxes, Fitting = {}
             PROVE  FALSE
  BY DEF EnoughSpace
<1>1. /\ Slots \in Nat /\ Slots > 0 /\ Chunk \in Nat /\ Chunk > 0 /\ NBoxes \in Nat
  BY Strides, Sized DEF SpInv, SpaceTypes
<1>2. PICK i \in DOMAIN regions : NBoxes * Slots <= regions[i].size \div Chunk
  <2>1. regions # <<>> /\ regions \in Seq(RegionRecord)
    BY DEF Roomy, SpInv, SpaceTypes
  <2>2. 1 \in DOMAIN regions
    BY <2>1
  <2> QED BY <2>2 DEF Roomy
<1>3. /\ regions[i] \in RegionRecord /\ regions[i].size \div Chunk \in Int /\ regions[i].base \in Int
  BY RegionIs
<1>4. ASSUME NEW q \in 0..(NBoxes - 1)
      PROVE  \E c \in Live : boxes[c] = regions[i].base + (q * Slots) * Chunk
  <2>1. q \in Nat /\ q * Slots \in Nat /\ q * Slots + Slots <= NBoxes * Slots /\ NBoxes * Slots \in Int
    <3>1. q \in Nat /\ q < NBoxes
      BY <1>1
    <3>2. q * Slots \in Nat
      BY <1>1, <3>1
    <3> QED BY <1>1, <3>1, <3>2, SlotMultiples
  <2>2. q * Slots + Slots <= regions[i].size \div Chunk
    BY <1>1, <1>2, <1>3, <2>1
  <2>3. From(q * Slots, Slots) \cap regions[i].bits # {}
    <3>1. SUFFICES ASSUME From(q * Slots, Slots) \cap regions[i].bits = {}
                   PROVE  FALSE
      OBVIOUS
    <3>2. FindZeroes(regions[i], Slots) # -1
      BY <1>1, <1>3, <2>1, <2>2, <3>1, FoundSome
    <3> QED BY <3>2 DEF Fitting, Slots
  <2>4. PICK x \in From(q * Slots, Slots) : x \in regions[i].bits
    BY <2>3
  <2>5. PICK c \in BoxesOf(i) : x \in Bits(regions[i], boxes[c], Footprint)
    BY <2>4 DEF SpInv, Accounted
  <2>6. c \in Live /\ boxes[c] \in From(regions[i].base, regions[i].size)
    BY DEF BoxesOf
  <2>7. PICK j \in DOMAIN regions, p \in Nat : Slot(boxes[c], j, p * Slots)
    BY <2>6 DEF OnSlots
  <2>8. p * Slots \in Nat
    BY <1>1
  <2>9. j = i
    BY <2>6, <2>7, <2>8, OneRegion
  <2>10. Bits(regions[i], boxes[c], Footprint) = From(p * Slots, Slots)
    BY <2>7, <2>8, <2>9, Extent
  <2>11. x \in Int /\ q * Slots <= x /\ x < q * Slots + Slots /\ p * Slots <= x /\ x < p * Slots + Slots
    <3>1. x \in From(p * Slots, Slots)
      BY <2>5, <2>10
    <3> QED BY <1>1, <2>1, <2>4, <2>8, <3>1, Within
  <2>12. ~(p < q) /\ ~(q < p)
    <3>1. p < q => p * Slots + Slots <= q * Slots
      BY <1>1, <2>1, SlotMultiples
    <3>2. q < p => q * Slots + Slots <= p * Slots
      BY <1>1, <2>1, SlotMultiples
    <3> QED BY <1>1, <2>1, <2>8, <2>11, <3>1, <3>2
  <2>13. p = q
    BY <2>1, <2>12
  <2> QED BY <2>6, <2>7, <2>9, <2>13 DEF Slot
<1>5. PICK f \in [0..(NBoxes - 1) -> Live] :
         \A q \in 0..(NBoxes - 1) : boxes[f[q]] = regions[i].base + (q * Slots) * Chunk
  <2> DEFINE f == [q \in 0..(NBoxes - 1) |->
                     CHOOSE c \in Live : boxes[c] = regions[i].base + (q * Slots) * Chunk]
  <2>1. \A q \in 0..(NBoxes - 1) : f[q] \in Live /\ boxes[f[q]] = regions[i].base + (q * Slots) * Chunk
    BY <1>4
  <2>2. f \in [0..(NBoxes - 1) -> Live]
    BY <2>1
  <2> QED BY <2>1, <2>2
<1>6. ASSUME NEW p \in 0..(NBoxes - 1), NEW q \in 0..(NBoxes - 1), f[p] = f[q]
      PROVE  p = q
  <2>1. /\ p \in Int /\ q \in Int /\ p * Slots \in Int /\ q * Slots \in Int
    BY <1>1
  <2>2. (p * Slots) * Chunk \in Int /\ (q * Slots) * Chunk \in Int
        /\ (p * Slots < q * Slots => (p * Slots) * Chunk < (q * Slots) * Chunk)
        /\ (q * Slots < p * Slots => (q * Slots) * Chunk < (p * Slots) * Chunk)
    BY <2>1, Multiples
  <2>3. (p * Slots) * Chunk = (q * Slots) * Chunk
    BY <1>3, <1>5, <1>6, <2>2
  <2>4. (p < q => p * Slots + Slots <= q * Slots) /\ (q < p => q * Slots + Slots <= p * Slots)
    BY <1>1, <2>1, SlotMultiples
  <2> QED BY <1>1, <2>1, <2>2, <2>3, <2>4
<1>7. IsFiniteSet(Live)
  BY SpacesAssumption, FS_Subset DEF Live
<1>8. f \in Injection(0..(NBoxes - 1), Live)
  BY <1>5, <1>6 DEF Injection, IsInjective
<1>9. Cardinality(0..(NBoxes - 1)) <= Cardinality(Live)
  BY <1>7, <1>8, FS_Injection
<1>10. Cardinality(0..(NBoxes - 1)) = NBoxes
  <2>1. 0 \in Int /\ NBoxes - 1 \in Int /\ ~(0 > NBoxes - 1)
    BY <1>1
  <2>2. Cardinality(0..(NBoxes - 1)) = (NBoxes - 1) - 0 + 1
    BY <2>1, FS_Interval
  <2> QED BY <1>1, <2>2
<1>11. Cardinality(Live) \in Nat
  BY <1>7, FS_CardinalityType
<1> QED BY <1>1, <1>9, <1>10, <1>11

\* A region reserved for all boxes has room for them once it is aligned.
LEMMA RoomAdded ==
    ASSUME Guarded, WholeGuards, SpInv, NBoxes > 0,
           NEW n \in Sizes, NEW a \in Unit, n >= MinSize, Lands(a, n)
    PROVE  NBoxes * Slots <= AlignedSize(a, n) \div Chunk
<1>1. /\ guards \in Configs /\ NBoxes \in Nat /\ n \in Int /\ a \in Int /\ n >= Size /\ Size \in Int
  BY Added, Sized DEF SpInv, SpaceTypes, MinSize
<1>2. /\ guards.region \in Nat /\ Chunk \in Nat /\ Chunk > 0 /\ Slots \in Nat /\ Footprint \in Nat
      /\ Footprint = Slots * Chunk
  BY <1>1, Strides, WholeStride
<1>3. PICK z \in Int : z = NBoxes * Slots /\ z * Chunk \in Int /\ NBoxes * Footprint = z * Chunk
  <2>1. NBoxes * Slots \in Int /\ NBoxes * (Slots * Chunk) = (NBoxes * Slots) * Chunk
        /\ (NBoxes * Slots) * Chunk \in Int
    BY <1>1, <1>2
  <2> QED BY <1>2, <2>1
<1>4. Size = z * Chunk + Chunk + 2 * guards.region
  BY <1>3 DEF Size
<1>5. PICK b \in Int : /\ b * Chunk \in Int /\ AlignedBase(a) = b * Chunk
                       /\ b * Chunk <= a + guards.region + Chunk - 1
  <2>1. a + guards.region + Chunk - 1 \in Int
    BY <1>1, <1>2
  <2> QED BY <2>1, Division DEF AlignedBase, RoundUp
<1>6. PICK e \in Int : /\ e * Chunk \in Int /\ Floor(a + n - guards.region) = e * Chunk
                       /\ a + n - guards.region < e * Chunk + Chunk
  <2>1. a + n - guards.region \in Int
    BY <1>1, <1>2
  <2> QED BY <2>1, Division
<1>7. PICK s \in Int : s = e - b /\ s * Chunk \in Int /\ s * Chunk = e * Chunk - b * Chunk
  BY <1>2, <1>5, <1>6
<1>8. AlignedSize(a, n) = s * Chunk
  BY <1>5, <1>6, <1>7 DEF AlignedSize
<1>9. s * Chunk + Chunk > z * Chunk
  BY <1>1, <1>2, <1>3, <1>4, <1>5, <1>6, <1>7
<1>10. z <= s
  <2>1. s < z => s * Chunk + Chunk <= z * Chunk
    BY <1>2, SlotMultiples
  <2> QED BY <1>2, <1>3, <1>7, <1>9, <2>1
<1>11. (s * Chunk) \div Chunk = s
  BY Multiples
<1> QED BY <1>3, <1>8, <1>10, <1>11

\* No step moves a box off its slot or takes a region that was promised.
LEMMA RoomStep ==
    ASSUME Guarded, WholeGuards, SpInv, OnSlots, Roomy, [SpaceNext]_spaceVars
    PROVE  OnSlots' /\ Roomy'
<1>0. /\ SpaceTypes /\ Stage /\ guards \in Configs /\ left.total \in Int /\ left.got \in Int
  BY DEF SpInv, SpaceTypes
<1>1. ASSUME UNCHANGED <<guards, regions, boxes>>,
             left' = left \/ (left'.got = 0 /\ phase' # "up"),
             phase' = "up" => phase = "up" \/ (phase = "reserving" /\ left.got >= MinSize),
             phase' = "reserving" => phase = "reserving" \/ left'.got = 0
      PROVE  OnSlots' /\ Roomy'
  <2>1. OnSlots'
    BY <1>1, SameGuards DEF OnSlots, Live, Slot
  <2>2. NBoxes' = NBoxes /\ Slots' = Slots
    BY <1>1, SameGuards DEF NBoxes
  <2>3. MinSize \in Int /\ MinSize >= 1
    BY <1>0, Sized
  <2>4. Roomy'
    BY <1>0, <1>1, <2>2, <2>3 DEF Roomy
  <2> QED BY <2>1, <2>4
<1>2. CASE LfiNew \/ ReserveMost
  <2>1. UNCHANGED <<guards, regions, boxes>> /\ phase = "new"
    BY <1>2 DEF LfiNew, ReserveMost
  <2>2. CASE NBoxes > 0
    <3>1. phase' = "reserving" /\ left'.got = 0
      BY <1>2, <2>2 DEF LfiNew, ReserveMost
    <3> QED BY <1>1, <2>1, <3>1
  <2>3. CASE ~(NBoxes > 0)
    <3>1. boxes' = boxes /\ Live' = Live /\ Live = {}
      BY <1>0, <2>1 DEF Live, Stage
    <3>2. OnSlots'
      BY <3>1 DEF OnSlots
    <3>3. NBoxes' = NBoxes
      BY <2>1 DEF NBoxes
    <3> QED BY <2>3, <3>2, <3>3 DEF Roomy
  <2> QED BY <2>2, <2>3
<1>3. CASE Reserve
  <2>1. PICK n \in Sizes, a \in Unit :
          /\ n >= MinSize /\ Lands(a, n)
          /\ regions' = Append(regions, [base |-> AlignedBase(a), size |-> AlignedSize(a, n),
                                         bits |-> {}, active |-> 0, mapbase |-> a, mapsize |-> n])
          /\ left' = [total |-> left.total - n, got |-> left.got + n]
    BY <1>3 DEF Reserve
  <2>2. phase = "reserving" /\ UNCHANGED <<guards, boxes, holes>> /\ Live = {} /\ Live' = {}
    BY <1>0, <1>3 DEF Reserve, Stage, Live
  <2>3. OnSlots'
    BY <2>2 DEF OnSlots
  <2>4. NBoxes' = NBoxes /\ Slots' = Slots
    BY <2>2, SameGuards DEF NBoxes
  <2>5. ASSUME NBoxes > 0
        PROVE  /\ \A i \in DOMAIN regions' : NBoxes * Slots <= regions'[i].size \div Chunk
               /\ regions' # <<>> /\ left'.got >= 0
    <3>1. NBoxes * Slots <= AlignedSize(a, n) \div Chunk
      BY <2>1, <2>5, RoomAdded
    <3>2. PICK r : r = [base |-> AlignedBase(a), size |-> AlignedSize(a, n),
                        bits |-> {}, active |-> 0, mapbase |-> a, mapsize |-> n]
      OBVIOUS
    <3>3. r.size = AlignedSize(a, n)
      BY <3>2
    <3>4. regions' = Append(regions, r) /\ regions \in Seq(RegionRecord)
      BY <1>0, <2>1, <3>2 DEF SpaceTypes
    <3>5. /\ DOMAIN regions' = DOMAIN regions \cup {Len(regions) + 1} /\ regions' # <<>>
          /\ \A i \in DOMAIN regions : regions'[i] = regions[i]
          /\ regions'[Len(regions) + 1] = r
      <4>1. Len(regions) \in Nat /\ DOMAIN regions = 1..Len(regions) /\ Len(regions') = Len(regions) + 1
        BY <3>4
      <4> QED BY <3>4, <4>1
    <3>6. n \in Int /\ n >= 1 /\ left.got >= 0
      BY <2>1, <2>5, Added DEF Roomy
    <3>7. left'.got >= 0
      BY <1>0, <2>1, <3>6
    <3> QED BY <2>5, <3>1, <3>3, <3>5, <3>7 DEF Roomy
  <2> QED BY <2>3, <2>4, <2>5 DEF Roomy
<1>4. CASE GiveUpReserve
  <2>1. phase = "reserving" /\ UNCHANGED <<guards, left, boxes, holes>> /\ phase' \in {"up", "failed"}
    BY <1>4 DEF GiveUpReserve
  <2>2. CASE phase' = "up"
    <3>1. UNCHANGED regions /\ left.got >= MinSize
      BY <1>4, <2>2 DEF GiveUpReserve
    <3> QED BY <1>1, <2>1, <2>2, <3>1
  <2>3. CASE phase' = "failed"
    <3>1. regions' = <<>> /\ Live' = {}
      BY <1>0, <1>4, <2>1, <2>3 DEF GiveUpReserve, Stage, Live
    <3>2. NBoxes' = NBoxes
      BY <2>1 DEF NBoxes
    <3> QED BY <2>1, <2>3, <3>1, <3>2 DEF OnSlots, Roomy
  <2> QED BY <2>1, <2>2, <2>3
<1>5. CASE LfiFree
  <2>1. regions' = <<>> /\ Live' = {} /\ phase' = "freed" /\ UNCHANGED <<guards, left>>
    BY <1>5 DEF LfiFree, Live
  <2>2. NBoxes' = NBoxes
    BY <2>1 DEF NBoxes
  <2> QED BY <2>1, <2>2 DEF OnSlots, Roomy
<1>6. CASE OtherMaps \/ UNCHANGED spaceVars
  BY <1>1, <1>6 DEF OtherMaps, spaceVars
<1>7. ASSUME NEW b \in Box, BoxNewFails(b)
      PROVE  OnSlots' /\ Roomy'
  BY <1>1, <1>7 DEF BoxNewFails
<1>8. ASSUME SamePlaces, UNCHANGED <<guards, phase, left>>
      PROVE  Roomy'
  <2>1. NBoxes' = NBoxes /\ Slots' = Slots
    BY <1>8, SameGuards DEF NBoxes
  <2>2. regions # <<>> => regions' # <<>>
    BY <1>0, <1>8 DEF SamePlaces, SpaceTypes
  <2> QED BY <1>8, <2>1, <2>2 DEF Roomy, SamePlaces
<1>9. ASSUME NEW b \in Box, BoxNew(b)
      PROVE  OnSlots' /\ Roomy'
  <2>1. PICK i, k, a :
           /\ boxes[b] = 0 /\ Vacant(i, k) /\ FirstVacant(i, k) /\ a = regions[i].base + k * Chunk
           /\ boxes' = [boxes EXCEPT ![b] = a] /\ regions' = Take(i, k)
           /\ UNCHANGED <<guards, phase, left, holes>>
    BY <1>9, FittingIs DEF BoxNew
  <2>2. SamePlaces
    BY <2>1, Taken
  <2>3. PICK q \in Nat : k = q * Slots
    BY <2>1, FirstOnSlot
  <2>4. Slot(a, i, q * Slots) /\ i \in DOMAIN regions
    BY <2>1, <2>3, VacantApart DEF Vacant
  <2>5. \A c \in Live' : \E j \in DOMAIN regions : \E p \in Nat : Slot(boxes'[c], j, p * Slots)
    BY <1>0, <2>1, <2>4 DEF OnSlots, Live, SpaceTypes
  <2>6. ASSUME NEW c \in Live'
        PROVE  \E j \in DOMAIN regions' : \E p \in Nat : Slot(boxes[c], j, p * Slots)'
    <3>1. PICK j \in DOMAIN regions, p \in Nat : Slot(boxes'[c], j, p * Slots)
      BY <2>5
    <3>2. Slots' = Slots
      BY <2>1, SameGuards
    <3>3. Slot(boxes[c], j, p * Slots)'
      BY <2>2, <3>1, <3>2 DEF Slot, SamePlaces
    <3> QED BY <2>2, <3>3 DEF SamePlaces
  <2> QED BY <1>8, <2>1, <2>2, <2>6 DEF OnSlots
<1>10. ASSUME NEW b \in Box, BoxFree(b)
       PROVE  OnSlots' /\ Roomy'
  <2>1. /\ boxes[b] # 0 /\ boxes' = [boxes EXCEPT ![b] = 0] /\ regions' = Return(boxes[b])
        /\ UNCHANGED <<guards, phase, left, holes>>
    BY <1>10 DEF BoxFree
  <2>2. SamePlaces
    <3>1. PICK a : a = boxes[b]
      OBVIOUS
    <3>2. b \in Live
      BY <2>1 DEF Live
    <3>3. PICK i \in DOMAIN regions, k \in Nat : Slot(a, i, k)
      BY <3>1, <3>2 DEF SpInv, Placed
    <3> QED BY <2>1, <3>1, <3>3, Returned
  <2>3. ASSUME NEW c \in Live'
        PROVE  \E j \in DOMAIN regions' : \E p \in Nat : Slot(boxes[c], j, p * Slots)'
    <3>1. c \in Live /\ boxes'[c] = boxes[c]
      BY <1>0, <2>1 DEF Live, SpaceTypes
    <3>2. PICK j \in DOMAIN regions, p \in Nat : Slot(boxes'[c], j, p * Slots)
      BY <3>1 DEF OnSlots
    <3>3. Slots' = Slots
      BY <2>1, SameGuards
    <3>4. Slot(boxes[c], j, p * Slots)'
      BY <2>2, <3>2, <3>3 DEF Slot, SamePlaces
    <3> QED BY <2>2, <3>4 DEF SamePlaces
  <2> QED BY <1>8, <2>1, <2>2, <2>3 DEF OnSlots
<1> QED BY <1>2, <1>3, <1>4, <1>5, <1>6, <1>7, <1>9, <1>10 DEF SpaceNext

\* lfi_new(opts, n) has room for n boxes at any time, whatever was created and
\* freed before: equal boxes on first fit leave no gap that is too small.
THEOREM PromisedRoom ==
    ASSUME Guarded, WholeGuards
    PROVE  SpaceSpec /\ [][FreeOrder]_spaceVars => []EnoughSpace
<1>1. SpaceInit => OnSlots /\ Roomy
  BY DEF SpaceInit, OnSlots, Roomy, Live
<1>2. SpInv /\ OnSlots /\ Roomy /\ [SpaceNext]_spaceVars => OnSlots' /\ Roomy'
  BY RoomStep
<1>3. SpInv /\ OnSlots /\ Roomy => EnoughSpace
  BY RoomLeft
<1>4. SpaceSpec /\ [][FreeOrder]_spaceVars => []SpInv
  BY SpaceInvariance
<1> QED BY <1>1, <1>2, <1>3, <1>4, PTL DEF SpaceSpec

\* On x86-64, where guards lie behind every box, all three hold whatever order
\* boxes are freed in.
THEOREM GuardedSpaces ==
    ASSUME GuardsBetween
    PROVE  /\ SpaceSpec => []SpacesSound /\ OthersKept
           /\ WholeGuards => (SpaceSpec => []EnoughSpace)
<1>1. Guarded
  BY SpacesAssumption DEF GuardsBetween, Guarded
<1>2. SpaceSpec => [][FreeOrder]_spaceVars
  BY Ordered
<1>3. SpaceSpec => []SpacesSound
  BY <1>1, <1>2, BoxesKeepApart
<1>4. SpaceSpec => OthersKept
  BY <1>1, <1>2, OthersStayMapped
<1>5. WholeGuards => (SpaceSpec => []EnoughSpace)
  BY <1>1, <1>2, PromisedRoom
<1> QED BY <1>3, <1>4, <1>5

-----------------------------------------------------------------------------
(* Loading images. *)

\* An address where a page begins.
OnPage(x) == \E q \in Int : x = q * Page

\* What the sizes of pages and boxes are.
LEMMA PageSizes ==
    /\ Page \in Nat /\ Page > 0 /\ BoxMin \in Nat /\ BoxMax \in Nat /\ BrkMax \in Nat /\ CodeMax \in Nat
    /\ 0 < BoxMin /\ BoxMin < BoxMax /\ OnPage(BoxMin) /\ OnPage(0)
<1>1. /\ Page \in Nat /\ Page > 0 /\ BoxMin \in Nat /\ BoxMax \in Nat /\ BrkMax \in Nat /\ CodeMax \in Nat
      /\ 0 < BoxMin /\ BoxMin < BoxMax /\ BoxMin % Page = 0
  BY LoadAssumption
<1>2. BoxMin = Page * (BoxMin \div Page) + (BoxMin % Page) /\ BoxMin \div Page \in Int
  BY <1>1
<1>3. BoxMin = (BoxMin \div Page) * Page
  BY <1>1, <1>2
<1>4. 0 = 0 * Page
  BY <1>1
<1> QED BY <1>1, <1>2, <1>3, <1>4 DEF OnPage

\* Sums and differences of page addresses are page addresses.
LEMMA PageSums ==
    ASSUME NEW x \in Int, NEW y \in Int, OnPage(x), OnPage(y)
    PROVE  OnPage(x + y) /\ OnPage(x - y)
<1>0. Page \in Nat
  BY PageSizes
<1>1. PICK q \in Int : x = q * Page
  BY DEF OnPage
<1>2. PICK r \in Int : y = r * Page
  BY DEF OnPage
<1>3. x + y = (q + r) * Page /\ x - y = (q - r) * Page
  BY <1>0, <1>1, <1>2
<1> QED BY <1>3 DEF OnPage

\* Between two page addresses there is a page, or they are equal.
LEMMA PageApart ==
    ASSUME NEW x \in Int, NEW y \in Int, OnPage(x), OnPage(y), x < y
    PROVE  x + Page <= y
<1>0. Page \in Nat /\ Page > 0
  BY PageSizes
<1>1. PICK q \in Int : x = q * Page
  BY DEF OnPage
<1>2. PICK r \in Int : y = r * Page
  BY DEF OnPage
<1>3. q < r
  <2>1. SUFFICES ASSUME r <= q PROVE FALSE
    OBVIOUS
  <2>2. r * Page <= q * Page
    BY <1>0, <2>1
  <2> QED BY <1>1, <1>2, <2>2
<1>4. (q + 1) * Page <= r * Page /\ (q + 1) * Page = q * Page + Page
  BY <1>0, <1>3
<1> QED BY <1>0, <1>1, <1>2, <1>4

\* Rounding to an alignment.
LEMMA Rounded ==
    ASSUME NEW x \in Nat, NEW a \in Nat, a > 0
    PROVE  /\ \E m \in Nat : m = x % a /\ Trunc(x, a) = x - m
           /\ Trunc(x, a) \in Nat /\ Trunc(x, a) <= x /\ x < Trunc(x, a) + a
           /\ Ceil(x, a) \in Nat /\ x <= Ceil(x, a) /\ Ceil(x, a) < x + a
           /\ \E q \in Nat : Trunc(x, a) = q * a
           /\ \E q \in Nat : Ceil(x, a) = q * a
<1>1. ASSUME NEW y \in Nat
      PROVE  /\ \E m \in Nat : m = y % a /\ Trunc(y, a) = y - m
             /\ Trunc(y, a) \in Nat /\ Trunc(y, a) <= y /\ y < Trunc(y, a) + a
             /\ \E q \in Nat : Trunc(y, a) = q * a
  <2>1. /\ y % a \in 0..(a - 1) /\ y \div a \in Nat
        /\ y = a * (y \div a) + (y % a) /\ a * (y \div a) = (y \div a) * a /\ (y \div a) * a \in Nat
    OBVIOUS
  <2>2. Trunc(y, a) = (y \div a) * a
    <3>1. PICK m \in Nat : m = y % a
      BY <2>1
    <3>2. PICK n \in Nat : n = (y \div a) * a
      BY <2>1
    <3>3. y = n + m
      BY <2>1, <3>1, <3>2
    <3>4. Trunc(y, a) = y - m
      BY <3>1 DEF Trunc
    <3> QED BY <3>2, <3>3, <3>4
  <2>3. PICK t \in Nat : t = Trunc(y, a)
    BY <2>1, <2>2
  <2>m. PICK m \in 0..(a - 1) : m = y % a
    BY <2>1
  <2>n. y = (y \div a) * a + m /\ y - m = (y \div a) * a
    <3>2. PICK n \in Nat : n = (y \div a) * a
      BY <2>1
    <3>3. y = n + m
      BY <2>1, <2>m, <3>2
    <3> QED BY <3>2, <3>3
  <2>4. t = y - m
    BY <2>2, <2>3, <2>n
  <2>5. t <= y /\ y < t + a
    BY <2>4
  <2>6. \E q \in Nat : t = q * a
    BY <2>1, <2>2, <2>3
  <2> QED BY <2>1, <2>3, <2>m, <2>4, <2>5, <2>6
<1>2. x + a - 1 \in Nat /\ Ceil(x, a) = Trunc(x + a - 1, a)
  BY DEF Ceil
<1>3. PICK y \in Nat : y = x + a - 1
  BY <1>2
<1>4. Ceil(x, a) = Trunc(y, a)
  BY <1>2, <1>3
<1>5. /\ \E m \in Nat : m = x % a /\ Trunc(x, a) = x - m
      /\ Trunc(x, a) \in Nat /\ Trunc(x, a) <= x /\ x < Trunc(x, a) + a
      /\ \E q \in Nat : Trunc(x, a) = q * a
  BY <1>1
<1>6. PICK c \in Nat : c = Trunc(y, a) /\ c <= y /\ y < c + a /\ \E q \in Nat : c = q * a
  BY <1>1
<1>7. Ceil(x, a) = c /\ x <= c /\ c < x + a
  BY <1>3, <1>4, <1>6
<1> QED BY <1>5, <1>6, <1>7

\* What is aligned to a multiple of a page begins a page.
LEMMA AlignedPages ==
    ASSUME NEW x \in Nat, NEW a \in Nat, a > 0, a % Page = 0
    PROVE  OnPage(Trunc(x, a)) /\ OnPage(Ceil(x, a))
<1>0. Page \in Nat /\ Page > 0
  BY PageSizes
<1>1. PICK r \in Int : a = r * Page
  BY <1>0
<1>2. PICK q \in Nat : Trunc(x, a) = q * a
  BY Rounded
<1>3. PICK p \in Nat : Ceil(x, a) = p * a
  BY Rounded
<1>4. Trunc(x, a) = (q * r) * Page /\ Ceil(x, a) = (p * r) * Page
  BY <1>0, <1>1, <1>2, <1>3
<1> QED BY <1>4 DEF OnPage

\* The images there are.
AnImage(image) == image \in Programs \cup Interpreters

\* A segment with memory that passed its checks, for an image at page address b.
Sound(s, b) == s \in SegRecord /\ SegOK(s) /\ s.memsz # 0 /\ b \in Nat /\ OnPage(b)

\* The headers of an image are words.
LEMMA ImageIs ==
    ASSUME NEW image, AnImage(image)
    PROVE  /\ image.segs \in Seq(SegRecord) /\ Len(image.segs) \in Nat
           /\ \A i \in 1..Len(image.segs) : image.segs[i] \in SegRecord
           /\ image.size \in Nat /\ image.entry \in Nat
           /\ image.name \notin {"none", "free", "zero", "trap", "bus"}
BY LoadAssumption DEF AnImage

\* Where the pages of such a segment begin and end.
LEMMA SegmentIs ==
    ASSUME NEW s, NEW b, Sound(s, b)
    PROVE  /\ s.vaddr \in Nat /\ s.memsz \in Nat /\ s.filesz \in Nat /\ s.off \in Nat
           /\ s.filesz <= s.memsz /\ s.memsz > 0 /\ s.flags \subseteq {"r", "w", "x"}
           /\ Start(s, b) \in Nat /\ End(s, b) \in Nat /\ Start(s, 0) \in Nat /\ End(s, 0) \in Nat
           /\ Start(s, b) = b + Start(s, 0) /\ End(s, b) = b + End(s, 0)
           /\ Start(s, b) <= b + s.vaddr /\ b + s.vaddr + s.memsz <= End(s, b)
           /\ OnPage(Start(s, b)) /\ OnPage(End(s, b))
           /\ \E m \in Nat : m = s.vaddr % s.align /\ b + s.vaddr = Start(s, b) + m
           /\ \E m \in Nat : m = s.off % s.align /\ s.off = FileStart(s) + m
           /\ FileStart(s) \in Nat
           /\ OnPage(FileStart(s))
<1>1. /\ s.vaddr \in Nat /\ s.memsz \in Nat /\ s.filesz \in Nat /\ s.off \in Nat /\ s.align \in Nat
      /\ s.flags \subseteq {"r", "w", "x"} /\ s.memsz > 0 /\ b \in Nat /\ OnPage(b)
  BY DEF Sound, SegRecord
<1>2. s.align > 0 /\ s.align % Page = 0 /\ s.filesz <= s.memsz
  BY <1>1 DEF Sound, SegOK
<1>3. PICK v \in Nat : v = Trunc(s.vaddr, s.align)
  BY <1>1, <1>2, Rounded
<1>4. v <= s.vaddr /\ OnPage(v)
  BY <1>1, <1>2, <1>3, Rounded, AlignedPages
<1>m. PICK m2 \in Nat : m2 = s.vaddr % s.align /\ v = s.vaddr - m2
  BY <1>1, <1>2, <1>3, Rounded
<1>5. PICK w \in Nat : w = s.vaddr + s.memsz
  BY <1>1
<1>6. PICK e \in Nat : e = Ceil(w, s.align)
  BY <1>1, <1>2, Rounded
<1>7. w <= e /\ OnPage(e)
  BY <1>1, <1>2, <1>6, Rounded, AlignedPages
<1>8. /\ Start(s, b) = b + v /\ Start(s, 0) = v /\ End(s, b) = b + e /\ End(s, 0) = e
  <2>1. Start(s, b) = b + v /\ Start(s, 0) = 0 + v
    BY <1>3 DEF Start
  <2>2. End(s, b) = b + e /\ End(s, 0) = 0 + e
    BY <1>5, <1>6 DEF End
  <2> QED BY <2>1, <2>2
<1>9. OnPage(b + v) /\ OnPage(b + e)
  <2>1. b \in Int /\ v \in Int /\ e \in Int
    BY <1>1
  <2> QED BY <2>1, <1>1, <1>4, <1>7, PageSums
<1>10. /\ FileStart(s) \in Nat /\ OnPage(FileStart(s))
       /\ \E m \in Nat : m = s.off % s.align /\ s.off = FileStart(s) + m
  <2>0. Trunc(s.off, s.align) \in Nat
    BY <1>1, <1>2, Rounded
  <2>7. OnPage(Trunc(s.off, s.align))
    BY <1>1, <1>2, AlignedPages
  <2>1. PICK f \in Nat : f = Trunc(s.off, s.align) /\ OnPage(f)
    BY <2>0, <2>7
  <2>2. PICK m \in Nat : m = s.off % s.align /\ Trunc(s.off, s.align) = s.off - m
    BY <1>1, <1>2, Rounded
  <2>3. f = s.off - m /\ FileStart(s) = f
    BY <2>1, <2>2 DEF FileStart
  <2>4. s.off = f + m
    BY <1>1, <2>3
  <2> QED BY <2>1, <2>2, <2>3, <2>4
<1>11. /\ Start(s, b) \in Nat /\ End(s, b) \in Nat /\ Start(s, 0) \in Nat /\ End(s, 0) \in Nat
       /\ Start(s, b) = b + Start(s, 0) /\ End(s, b) = b + End(s, 0)
       /\ OnPage(Start(s, b)) /\ OnPage(End(s, b))
  BY <1>1, <1>8, <1>9
<1>12. /\ Start(s, b) <= b + s.vaddr /\ b + s.vaddr + s.memsz <= End(s, b)
       /\ \E m \in Nat : m = s.vaddr % s.align /\ b + s.vaddr = Start(s, b) + m
  <2>2. b + s.vaddr = (b + v) + m2
    BY <1>1, <1>m
  <2>3. b + v <= b + s.vaddr /\ b + s.vaddr + s.memsz <= b + e
    BY <1>1, <1>4, <1>5, <1>7
  <2> QED BY <1>8, <1>m, <2>2, <2>3
<1> QED BY <1>1, <1>2, <1>4, <1>10, <1>11, <1>12

\* What the linker promised of one segment.
Linked(image, s) ==
    /\ s.off % s.align = s.vaddr % s.align
    /\ s.off + s.filesz <= image.size
    /\ s.memsz > s.filesz => "w" \in s.flags /\ "x" \notin s.flags

Brought(image, s, b) ==
    CopyIn(image, s, b) \/ MapIn(image, s, b) \/ (RemapIn(image, s, b) /\ "x" \in s.flags)

\* A segment changes only its own pages.
LEMMA PutKeeps ==
    ASSUME NEW image, AnImage(image), NEW s, NEW b, Sound(s, b), Brought(image, s, b)
    PROVE  /\ InBox(Start(s, b), End(s, b))
           /\ \A x \in Addr : ~(Start(s, b) <= x /\ x < End(s, b)) => mem'[x] = mem[x]
<1>1. InBox(Start(s, b), End(s, b))
  BY DEF Brought, CopyIn, MapIn, RemapIn
<1>2. PICK st \in Nat : st = Start(s, b)
  BY SegmentIs
<1>3. PICK en \in Nat : en = End(s, b)
  BY SegmentIs
<1>4. PICK at \in Nat : at = b + s.vaddr
  BY SegmentIs DEF Sound
<1>5. /\ s.filesz \in Nat /\ st <= at /\ at + s.filesz <= en /\ st < en /\ OnPage(st) /\ OnPage(en)
  <2>1. s.filesz \in Nat /\ s.memsz \in Nat /\ s.filesz <= s.memsz /\ s.memsz > 0
    BY SegmentIs
  <2>2. st <= at /\ at + s.memsz <= en /\ OnPage(st) /\ OnPage(en)
    BY <1>2, <1>3, <1>4, SegmentIs
  <2> QED BY <2>1, <2>2
<1>6. Page \in Nat /\ Page > 0 /\ st + Page <= en
  BY <1>5, PageSizes, PageApart
<1>7. SUFFICES ASSUME NEW x \in Addr, ~(st <= x /\ x < en) PROVE mem'[x] = mem[x]
  BY <1>1, <1>2, <1>3
<1>8. x \in Int
  BY PageSizes DEF Addr
<1>9. CASE CopyIn(image, s, b)
  <2> DEFINE z == Filled(mem, st, en, ZeroFill)
             t == Sanitized(z, st, s.flags)
             u == Sanitized(t, en - Page, s.flags)
  <2>1. mem' = Copied(u, image, s, b)
    BY <1>2, <1>3, <1>9 DEF CopyIn
  <2>2. z[x] = mem[x]
    BY <1>7 DEF Filled
  <2>3. t[x] = z[x]
    BY <1>5, <1>6, <1>7, <1>8 DEF Sanitized, Filled
  <2>4. u[x] = t[x]
    <3> HIDE DEF t
    <3> QED BY <1>5, <1>6, <1>7, <1>8 DEF Sanitized, Filled
  <2>5. mem'[x] = u[x]
    <3> HIDE DEF u
    <3>1. ~(at <= x /\ x < at + s.filesz)
      BY <1>5, <1>7, <1>8
    <3> QED BY <2>1, <1>4, <3>1 DEF Copied, Filled
  <2> QED BY <2>2, <2>3, <2>4, <2>5
<1>a. Mapped(image, s, b)[x] = mem[x]
  BY <1>2, <1>3, <1>7 DEF Mapped, Filled
<1>10. CASE MapIn(image, s, b)
  <2>1. PICK m : m = Mapped(image, s, b)
    OBVIOUS
  <2>2. mem' = BssCleared(m, s, b)
    BY <1>10, <2>1 DEF MapIn
  <2>3. PICK bs \in Nat : bs = at + s.filesz /\ BssStart(s, b) = bs
    BY <1>4, <1>5 DEF BssStart
  <2>4. PICK br \in Nat : br = Ceil(bs, Page) /\ bs <= br /\ BssRest(s, b) = br
    BY <2>3, <1>6, Rounded DEF BssRest
  <2>5. CASE s.memsz # s.filesz
    <3>1. br <= en
      <4>1. OnPage(br) /\ br < bs + Page
        <5>1. Page % Page = 0
          BY <1>6
        <5>2. OnPage(Ceil(bs, Page)) /\ Ceil(bs, Page) < bs + Page
          BY <5>1, <1>6, Rounded, AlignedPages
        <5> QED BY <5>2, <2>4
      <4>2. SUFFICES ASSUME en < br PROVE FALSE
        OBVIOUS
      <4>3. en + Page <= br
        BY <4>1, <4>2, <1>5, PageApart
      <4> QED BY <4>1, <4>3, <1>5, <1>6, <2>3
    <3>2. ~(bs <= x /\ x < br) /\ ~(br <= x /\ x < en)
      BY <3>1, <1>5, <1>7, <1>8, <2>3, <2>4
    <3>3. mem' = Filled(Filled(m, bs, br, ZeroFill), br, en, ZeroFill)
      BY <2>2, <2>3, <2>4, <2>5, <1>3 DEF BssCleared
    <3>4. m[x] = mem[x]
      BY <1>a, <2>1
    <3> QED BY <3>2, <3>3, <3>4 DEF Filled
  <2> QED BY <2>1, <2>2, <2>5, <1>a DEF BssCleared
<1>11. CASE RemapIn(image, s, b)
  BY <1>11, <1>a DEF RemapIn
<1> QED BY <1>9, <1>10, <1>11 DEF Brought

\* The bytes of a segment in memory.
InPlace(image, s, b) ==
    /\ \A k \in 0..(s.filesz - 1) : mem[b + s.vaddr + k] = <<image.name, s.off + k>>
    /\ \A k \in s.filesz..(s.memsz - 1) : mem[b + s.vaddr + k] = Zero

\* A linked segment is in memory as its file has it, and zeroes after that.
LEMMA PutHolds ==
    ASSUME NEW image, AnImage(image), NEW s, NEW b, Sound(s, b), Brought(image, s, b), Linked(image, s)
    PROVE  InPlace(image, s, b)'
<1>1. InBox(Start(s, b), End(s, b))
  BY PutKeeps
<1>2. PICK st \in Nat : st = Start(s, b)
  BY SegmentIs
<1>3. PICK en \in Nat : en = End(s, b)
  BY SegmentIs
<1>4. PICK at \in Nat : at = b + s.vaddr
  BY SegmentIs DEF Sound
<1>5. PICK fs \in Nat, ms \in Nat, off \in Nat : fs = s.filesz /\ ms = s.memsz /\ off = s.off
  BY SegmentIs
<1>6. /\ st <= at /\ at + ms <= en /\ fs <= ms /\ BoxMin <= st /\ en <= BoxMax
  <2>1. st <= at /\ at + ms <= en /\ fs <= ms
    BY <1>2, <1>3, <1>4, <1>5, SegmentIs
  <2> QED BY <2>1, <1>1, <1>2, <1>3 DEF InBox
<1>7. PICK size \in Nat : size = image.size
  BY ImageIs
<1>8. off + fs <= size /\ (ms > fs => "x" \notin s.flags)
  BY <1>5, <1>7 DEF Linked
<1>9. PICK fst \in Nat : fst = FileStart(s)
  BY SegmentIs
<1>10. fst + (at - st) = off
  <2>1. PICK m1 \in Nat : m1 = s.vaddr % s.align /\ b + s.vaddr = Start(s, b) + m1
    BY SegmentIs
  <2>2. PICK m2 \in Nat : m2 = s.off % s.align /\ s.off = FileStart(s) + m2
    BY SegmentIs
  <2>3. m1 = m2
    BY <2>1, <2>2 DEF Linked
  <2>4. at = st + m1
    BY <2>1, <1>2, <1>4
  <2>5. off = fst + m2
    BY <2>2, <1>5, <1>9
  <2> QED BY <2>3, <2>4, <2>5
<1>11. SUFFICES ASSUME NEW k \in 0..(ms - 1)
                PROVE  mem'[at + k] = IF k < fs THEN <<image.name, off + k>> ELSE Zero
  <2>1. SUFFICES /\ \A k \in 0..(fs - 1) : mem'[at + k] = <<image.name, off + k>>
                 /\ \A k \in fs..(ms - 1) : mem'[at + k] = Zero
    BY ONLY <2>1, <1>4, <1>5 DEF InPlace
  <2>2. \A k \in 0..(ms - 1) : mem'[at + k] = IF k < fs THEN <<image.name, off + k>> ELSE Zero
    BY <1>11
  <2>3. ASSUME NEW k \in 0..(fs - 1) PROVE mem'[at + k] = <<image.name, off + k>>
    <3>1. k \in 0..(ms - 1) /\ k < fs
      BY <1>6
    <3> QED BY <3>1, <2>2
  <2>4. ASSUME NEW k \in fs..(ms - 1) PROVE mem'[at + k] = Zero
    <3>1. k \in 0..(ms - 1) /\ ~(k < fs)
      BY <1>6
    <3> QED BY <3>1, <2>2
  <2> QED BY <2>3, <2>4
<1>12. PICK x \in Nat : x = at + k
  OBVIOUS
<1>13. x \in Addr /\ st <= x /\ x < en
  BY <1>6, <1>12, PageSizes DEF Addr
<1>14. CASE CopyIn(image, s, b)
  <2> DEFINE z == Filled(mem, st, en, ZeroFill)
             t == Sanitized(z, st, s.flags)
             u == Sanitized(t, en - Page, s.flags)
  <2>1. mem' = Copied(u, image, s, b)
    BY <1>2, <1>3, <1>14 DEF CopyIn
  <2>2. z[x] = Zero
    BY <1>13 DEF Filled, ZeroFill
  <2>3. ASSUME "x" \notin s.flags PROVE u[x] = Zero
    BY <2>2, <2>3 DEF Sanitized
  <2> HIDE DEF u
  <2>4. mem'[x] = IF at <= x /\ x < at + fs THEN <<image.name, off + (x - at)>> ELSE u[x]
    BY <2>1, <1>4, <1>5, <1>13 DEF Copied, Filled
  <2>5. at <= x /\ x - at = k /\ (x < at + fs <=> k < fs)
    BY <1>12
  <2>6. CASE k < fs
    BY <2>4, <2>5, <2>6, <1>12
  <2>7. CASE ~(k < fs)
    <3>1. ms > fs
      BY <2>7
    <3> QED BY <3>1, <2>3, <2>4, <2>5, <2>7, <1>8, <1>12
  <2> QED BY <2>6, <2>7
<1>15. Mapped(image, s, b)[x] = FileByte(image, off + k)
  <2>1. Mapped(image, s, b)[x] = FileByte(image, fst + (x - st))
    BY <1>2, <1>3, <1>9, <1>13 DEF Mapped, Filled
  <2>2. fst + (x - st) = off + k
    BY <1>10, <1>12
  <2> QED BY <2>1, <2>2
<1>16. ASSUME k < fs PROVE Mapped(image, s, b)[x] = <<image.name, off + k>>
  <2>1. off + k < size
    BY <1>8, <1>16
  <2> QED BY <2>1, <1>15, <1>7 DEF FileByte
<1>17. CASE MapIn(image, s, b)
  <2>1. PICK m : m = Mapped(image, s, b)
    OBVIOUS
  <2>2. mem' = BssCleared(m, s, b)
    BY <1>17, <2>1 DEF MapIn
  <2>3. PICK bs \in Nat : bs = at + fs /\ BssStart(s, b) = bs
    BY <1>4, <1>5 DEF BssStart
  <2>4. PICK br \in Nat : br = Ceil(bs, Page) /\ bs <= br /\ BssRest(s, b) = br
    BY <2>3, PageSizes, Rounded DEF BssRest
  <2>5. CASE ms = fs
    BY <2>1, <2>2, <2>5, <1>5, <1>12, <1>16 DEF BssCleared
  <2>6. CASE ms # fs
    <3>1. mem' = Filled(Filled(m, bs, br, ZeroFill), br, en, ZeroFill)
      BY <2>2, <2>3, <2>4, <2>6, <1>3, <1>5 DEF BssCleared
    <3>2. CASE k < fs
      <4>1. ~(bs <= x /\ x < br) /\ ~(br <= x /\ x < en)
        BY <3>2, <2>3, <2>4, <1>12
      <4>2. mem'[x] = m[x]
        BY <3>1, <4>1, <1>13 DEF Filled
      <4> QED BY <4>2, <3>2, <2>1, <1>12, <1>16
    <3>3. CASE ~(k < fs)
      <4>1. (bs <= x /\ x < br) \/ (br <= x /\ x < en)
        BY <3>3, <2>3, <2>4, <1>12, <1>13
      <4>2. mem'[x] = Zero
        BY <3>1, <4>1, <1>13 DEF Filled, ZeroFill
      <4> QED BY <4>2, <3>3, <1>12
    <3> QED BY <3>2, <3>3
  <2> QED BY <2>5, <2>6
<1>18. CASE RemapIn(image, s, b) /\ "x" \in s.flags
  <2>1. ~(ms > fs)
    BY <1>8, <1>18
  <2>2. k < fs
    BY <2>1, <1>6
  <2> QED BY <2>2, <1>12, <1>16, <1>18 DEF RemapIn
<1> QED BY <1>14, <1>17, <1>18 DEF Brought

\* What is cleared by hand lies on a page that the file backs.
LEMMA NoClears ==
    ASSUME NEW image, AnImage(image), NEW s, NEW b, Sound(s, b), Linked(image, s), ClearsBeyond(image, s, b)
    PROVE  FALSE
<1>2. PICK st \in Nat : st = Start(s, b)
  BY SegmentIs
<1>3. PICK en \in Nat : en = End(s, b)
  BY SegmentIs
<1>4. PICK at \in Nat : at = b + s.vaddr
  BY SegmentIs DEF Sound
<1>5. PICK fs \in Nat, off \in Nat : fs = s.filesz /\ off = s.off
  BY SegmentIs
<1>6. PICK fst \in Nat : fst = FileStart(s)
  BY SegmentIs
<1>7. PICK size \in Nat : size = image.size
  BY ImageIs
<1>8. /\ st <= at /\ off + fs <= size /\ OnPage(st) /\ OnPage(fst)
      /\ BoxMin <= st /\ en <= BoxMax
  <2>1. st <= at /\ OnPage(st) /\ OnPage(fst)
    BY <1>2, <1>4, <1>6, SegmentIs
  <2>2. off + fs <= size
    BY <1>5, <1>7 DEF Linked
  <2> QED BY <2>1, <2>2, <1>2, <1>3 DEF ClearsBeyond, InBox
<1>9. fst + (at - st) = off
  <2>1. PICK m1 \in Nat : m1 = s.vaddr % s.align /\ b + s.vaddr = Start(s, b) + m1
    BY SegmentIs
  <2>2. PICK m2 \in Nat : m2 = s.off % s.align /\ s.off = FileStart(s) + m2
    BY SegmentIs
  <2>3. m1 = m2
    BY <2>1, <2>2 DEF Linked
  <2>4. at = st + m1
    BY <2>1, <1>2, <1>4
  <2>5. off = fst + m2
    BY <2>2, <1>5, <1>6
  <2> QED BY <2>3, <2>4, <2>5
<1>10. PICK bs \in Nat : bs = at + fs /\ BssStart(s, b) = bs
  BY <1>4, <1>5 DEF BssStart
<1>11. Page \in Nat /\ Page > 0 /\ Page % Page = 0
  BY PageSizes
<1>12. PICK br \in Nat : br = Ceil(bs, Page) /\ br < bs + Page /\ BssRest(s, b) = br
  BY <1>10, <1>11, Rounded DEF BssRest
<1>13. OnPage(br)
  BY <1>11, <1>12, AlignedPages
<1>14. PICK cs \in Nat : cs = Ceil(size, Page) /\ size <= cs
  BY <1>11, Rounded
<1>15. OnPage(cs)
  BY <1>11, <1>14, AlignedPages
<1>16. PICK x \in bs..(br - 1) : x < en /\ Mapped(image, s, b)[x] = Beyond
  BY <1>3, <1>10, <1>12 DEF ClearsBeyond
<1>17. x \in Addr /\ st <= x
  BY <1>8, <1>10, <1>16, PageSizes DEF Addr
<1>18. PICK o \in Nat : o = fst + (x - st)
  BY <1>17, <1>16, <1>10
<1>19. FileByte(image, o) = Beyond
  BY <1>2, <1>3, <1>6, <1>16, <1>17, <1>18 DEF Mapped, Filled
<1>20. cs <= o
  <2>1. ASSUME o < size PROVE FALSE
    <3>1. <<image.name, o>> = <<"bus", 0>>
      BY <2>1, <1>7, <1>19 DEF FileByte, Beyond, Mark
    <3> QED BY <3>1, ImageIs
  <2>2. ASSUME ~(o < size), o < cs PROVE FALSE
    BY <2>2, <1>7, <1>14, <1>19 DEF FileByte, Beyond, Zero, Mark
  <2> QED BY <2>1, <2>2
\* The page of the byte begins where a page of the file would, at or after cs.
<1>21. PICK y \in Int : y = br - st + fst
  OBVIOUS
<1>22. OnPage(y)
  <2>1. br \in Int /\ st \in Int /\ fst \in Int /\ br - st \in Int
    OBVIOUS
  <2>2. OnPage(br - st)
    BY <2>1, <1>8, <1>13, PageSums
  <2>3. PICK d \in Int : d = br - st
    BY <2>1
  <2>4. OnPage(d + fst)
    BY <2>2, <2>3, <1>8, PageSums
  <2> QED BY <2>3, <2>4, <1>21
<1>23. y > cs
  BY <1>16, <1>18, <1>20, <1>21
<1>24. cs + Page <= y
  BY <1>15, <1>22, <1>23, PageApart
<1>25. y < off + fs + Page
  <2>1. br < bs + Page /\ bs = at + fs
    BY <1>10, <1>12
  <2> QED BY <2>1, <1>9, <1>11, <1>21
<1>26. off + fs <= size /\ size <= cs
  BY <1>8, <1>14
<1> QED BY <1>11, <1>24, <1>25, <1>26

\* The first n - 1 headers of an image at b: all their segments lie below top,
\* and if the image is well formed, memory holds them.
Below(image, b, n, top) ==
    \A j \in 1..Len(image.segs) :
        LET s == image.segs[j] IN
        j < n /\ s.memsz # 0 =>
            SegOK(s) /\ BoxMin <= Start(s, b) /\ End(s, b) <= top /\ End(s, b) <= BoxMax

Held(image, b, n) ==
    WellFormed(image) =>
        \A j \in 1..Len(image.segs) :
            j < n /\ image.segs[j].memsz # 0 => HoldsSegment(image, image.segs[j], b)

\* All of it.
Whole(image, b, top) == Below(image, b, Len(image.segs) + 1, top) /\ Held(image, b, Len(image.segs) + 1)

Untouched(a) == \A x \in Addr : a <= x => mem[x] = Free

\* The image loaded last: the memory behind it is untouched.
Front == /\ last = 0 \/ base < last
         /\ \A x \in Addr : base <= x /\ last <= x => mem[x] = Free

LoadTypes ==
    /\ prog \in Programs /\ interp \in Interpreters \cup {NoImage} /\ mode \in {"copy", "file", "remap"}
    /\ seg \in Nat \ {0} /\ base \in Nat /\ first \in Nat /\ last \in Nat
    /\ OnPage(base) /\ OnPage(last)
    /\ info \in [elfbase : Nat, elfentry : Nat, ldentry : Nat, lastva : Nat]

AtStart == stage = "start" => base = BoxMin /\ last = 0 /\ interp = NoImage /\ Front

AtProg ==
    stage = "prog" =>
        /\ base = BoxMin /\ Front
        /\ Below(prog, BoxMin, seg, last) /\ Held(prog, BoxMin, seg)

AtInterp ==
    stage = "interp" =>
        /\ interp # NoImage /\ base # BoxMin /\ Front
        /\ info.elfentry = BoxMin + prog.entry
        /\ Whole(prog, BoxMin, base)
        /\ Below(interp, base, seg, last) /\ Held(interp, base, seg)

AtSymbols ==
    stage = "symbols" =>
        /\ Front /\ info.lastva = last
        /\ interp = NoImage =>
              base = BoxMin /\ info.elfentry = base + prog.entry /\ Whole(prog, BoxMin, last)
        /\ interp # NoImage =>
              info.ldentry = base + interp.entry /\ Whole(prog, BoxMin, base) /\ Whole(interp, base, last)

\* The inductive invariant.
LoadInv == LoadTypes /\ AtStart /\ AtProg /\ AtInterp /\ AtSymbols /\ LoadedSound /\ NoBusError

-----------------------------------------------------------------------------
\* The next header with memory.
LEMMA NextIs ==
    ASSUME NEW image, AnImage(image), NEW n \in Nat \ {0}
    PROVE  /\ NextSeg(image, n) \in Nat \ {0}
           /\ \A j \in n..Len(image.segs) : image.segs[j].memsz # 0 => NextSeg(image, n) <= j
           /\ NextSeg(image, n) <= Len(image.segs) =>
                 /\ NextSeg(image, n) \in 1..Len(image.segs) /\ n <= NextSeg(image, n)
                 /\ image.segs[NextSeg(image, n)].memsz # 0
<1> DEFINE S == SkipsFrom(image, n)
<1>0. Len(image.segs) \in Nat
  BY ImageIs
<1>1. S \subseteq n..Len(image.segs) /\ S \in SUBSET Nat
  BY <1>0 DEF SkipsFrom
<1>2. \A j \in n..Len(image.segs) : image.segs[j].memsz # 0 <=> j \in S
  BY DEF SkipsFrom
<1>3. CASE S = {}
  <2>1. NextSeg(image, n) = Len(image.segs) + 1
    BY <1>3 DEF NextSeg
  <2> QED BY <2>1, <1>0, <1>2, <1>3
<1>4. CASE S # {}
  <2> HIDE DEF S
  <2>1. \E j \in S : \A k \in S : j <= k
    BY <1>1, <1>4, LeastOf
  <2>2. PICK m : m = NextSeg(image, n)
    OBVIOUS
  <2>3. m \in S /\ \A k \in S : m <= k
    BY <2>1, <2>2, <1>4 DEF NextSeg, S
  <2>4. m \in n..Len(image.segs)
    BY <2>3, <1>1
  <2> QED BY <2>2, <2>3, <2>4, <1>0, <1>2
<1> QED BY <1>3, <1>4

\* A segment in memory stays there when nothing below top changes.
LEMMA HoldsOn ==
    ASSUME NEW image, NEW s, NEW b, Sound(s, b), NEW top \in Nat,
           BoxMin <= Start(s, b), End(s, b) <= top, End(s, b) <= BoxMax,
           \A x \in Addr : x < top => mem'[x] = mem[x],
           \A p \in PageNo : p * Page < top => prot'[p] = prot[p],
           HoldsSegment(image, s, b)
    PROVE  HoldsSegment(image, s, b)'
<1>1. PICK st \in Nat, en \in Nat : st = Start(s, b) /\ en = End(s, b)
  BY SegmentIs
<1>2. PICK at \in Nat : at = b + s.vaddr
  BY SegmentIs DEF Sound
<1>3. PICK fs \in Nat, ms \in Nat : fs = s.filesz /\ ms = s.memsz
  BY SegmentIs
<1>4. fs <= ms /\ st <= at /\ at + ms <= en /\ BoxMin <= st /\ en <= BoxMax /\ en <= top
  BY <1>1, <1>2, <1>3, SegmentIs
<1>5. ASSUME NEW k \in 0..(ms - 1) PROVE mem'[at + k] = mem[at + k]
  <2>1. at + k \in Addr /\ at + k < top
    BY <1>4, PageSizes DEF Addr
  <2> QED BY <2>1
<1>6. ASSUME NEW k \in 0..(fs - 1) PROVE mem'[at + k] = <<image.name, s.off + k>>
  <2>1. k \in 0..(ms - 1)
    BY <1>4
  <2>2. mem[at + k] = <<image.name, s.off + k>>
    BY <1>2, <1>3 DEF HoldsSegment
  <2> QED BY <2>1, <2>2, <1>5
<1>7. ASSUME NEW k \in fs..(ms - 1) PROVE mem'[at + k] = Zero
  <2>1. k \in 0..(ms - 1)
    BY <1>4
  <2>2. mem[at + k] = Zero
    BY <1>2, <1>3 DEF HoldsSegment
  <2> QED BY <2>1, <2>2, <1>5
<1>8. ASSUME NEW x \in PageNo, st <= x * Page /\ x * Page < en PROVE prot'[x] = s.flags
  <2>1. x \in Int
    BY PageSizes DEF PageNo
  <2>2. PICK y \in Int : y = x * Page
    BY <2>1, PageSizes
  <2>3. prot'[x] = prot[x]
    BY <2>2, <1>4, <1>8
  <2>4. prot[x] = s.flags
    BY <1>1, <1>8 DEF HoldsSegment
  <2> QED BY <2>3, <2>4
<1>9. /\ \A k \in 0..(s.filesz - 1) : mem'[b + s.vaddr + k] = <<image.name, s.off + k>>
      /\ \A k \in s.filesz..(s.memsz - 1) : mem'[b + s.vaddr + k] = Zero
  BY ONLY <1>2, <1>3, <1>6, <1>7
<1> QED BY <1>1, <1>8, <1>9 DEF HoldsSegment

\* What lies below a page stays when a segment is put above it.
LEMMA HeldOn ==
    ASSUME NEW image, AnImage(image), NEW b \in Nat, OnPage(b), NEW n \in Nat, NEW top \in Nat,
           \A x \in Addr : x < top => mem'[x] = mem[x],
           \A p \in PageNo : p * Page < top => prot'[p] = prot[p],
           Below(image, b, n, top), Held(image, b, n)
    PROVE  Held(image, b, n)'
<1>1. SUFFICES ASSUME WellFormed(image), NEW j \in 1..Len(image.segs), j < n, image.segs[j].memsz # 0
               PROVE  HoldsSegment(image, image.segs[j], b)'
  BY DEF Held, WellFormed
<1>2. PICK s : s = image.segs[j]
  OBVIOUS
<1>3. SegOK(s) /\ BoxMin <= Start(s, b) /\ End(s, b) <= top /\ End(s, b) <= BoxMax
  BY <1>1, <1>2 DEF Below
<1>4. Sound(s, b)
  BY <1>1, <1>2, <1>3, ImageIs DEF Sound
<1>5. HoldsSegment(image, s, b)
  BY <1>1, <1>2 DEF Held
<1>6. HoldsSegment(image, s, b)'
  BY <1>3, <1>4, <1>5, HoldsOn
<1> QED BY <1>2, <1>6

\* The segments of a well-formed image lie one above the other.
LEMMA LinkedIs ==
    ASSUME NEW image, AnImage(image), WellFormed(image), NEW j \in 1..Len(image.segs)
    PROVE  /\ SegOK(image.segs[j]) /\ Linked(image, image.segs[j])
           /\ \A i \in 1..Len(image.segs) : i < j => End(image.segs[i], 0) <= Start(image.segs[j], 0)
BY DEF WellFormed, Linked

\* One more segment of an image.
LEMMA OneSegment ==
    ASSUME NEW image, AnImage(image), NEW b \in Nat, OnPage(b), NEW n \in Nat \ {0},
           NEW i, i = NextSeg(image, n), i <= Len(image.segs), NEW s, s = image.segs[i],
           SegOK(s), Brought(image, s, b),
           prot' = Granted(prot, Start(s, b), End(s, b), s.flags),
           NEW l \in Nat, NEW l2 \in Nat, l <= l2, End(s, b) <= l2,
           Below(image, b, n, l), Held(image, b, n)
    PROVE  /\ Sound(s, b) /\ i + 1 \in Nat \ {0}
           /\ Below(image, b, i + 1, l2) /\ Held(image, b, i + 1)'
<1>1. /\ i \in 1..Len(image.segs) /\ Len(image.segs) \in Nat /\ n <= i /\ s.memsz # 0 /\ i \in Nat
      /\ \A j \in n..Len(image.segs) : image.segs[j].memsz # 0 => i <= j
  BY NextIs, ImageIs
<1>2. Sound(s, b)
  BY <1>1, ImageIs DEF Sound
<1>3. ASSUME NEW j \in 1..Len(image.segs), j < i + 1, image.segs[j].memsz # 0
      PROVE  j < n \/ j = i
  BY <1>1, <1>3
<1>4. InBox(Start(s, b), End(s, b)) /\ \A x \in Addr : ~(Start(s, b) <= x /\ x < End(s, b)) => mem'[x] = mem[x]
  BY <1>2, PutKeeps
<1>5. PICK st \in Nat, en \in Nat : st = Start(s, b) /\ en = End(s, b)
  BY <1>2, SegmentIs
<1>6. BoxMin <= st /\ en <= BoxMax
  BY <1>4, <1>5 DEF InBox
<1>7. Below(image, b, i + 1, l2)
  <2>1. SUFFICES ASSUME NEW j \in 1..Len(image.segs), j < i + 1, image.segs[j].memsz # 0
                 PROVE  /\ SegOK(image.segs[j]) /\ BoxMin <= Start(image.segs[j], b)
                        /\ End(image.segs[j], b) <= l2 /\ End(image.segs[j], b) <= BoxMax
    BY DEF Below
  <2>2. CASE j < n
    <3>1. PICK t : t = image.segs[j]
      OBVIOUS
    <3>2. SegOK(t) /\ BoxMin <= Start(t, b) /\ End(t, b) <= l /\ End(t, b) <= BoxMax
      BY <2>1, <2>2, <3>1 DEF Below
    <3>3. Sound(t, b)
      BY <2>1, <3>1, <3>2, ImageIs DEF Sound
    <3>4. End(t, b) \in Nat
      BY <3>3, SegmentIs
    <3>5. End(t, b) <= l2
      <4>1. PICK e \in Nat : e = End(t, b)
        BY <3>4
      <4> QED BY <4>1, <3>2
    <3> QED BY <3>1, <3>2, <3>5
  <2>3. CASE j = i
    BY <2>3, <1>5, <1>6
  <2> QED BY <2>1, <2>2, <2>3, <1>3
<1>8. Held(image, b, i + 1)'
  <2>1. SUFFICES ASSUME WellFormed(image), NEW j \in 1..Len(image.segs), j < i + 1, image.segs[j].memsz # 0
                 PROVE  HoldsSegment(image, image.segs[j], b)'
    BY DEF Held, WellFormed
  <2>2. PICK t : t = image.segs[j]
    OBVIOUS
  <2>3. CASE j < n
    <3>1. SegOK(t) /\ BoxMin <= Start(t, b) /\ End(t, b) <= BoxMax
      BY <2>1, <2>2, <2>3 DEF Below
    <3>2. Sound(t, b)
      BY <2>1, <2>2, <3>1, ImageIs DEF Sound
    <3>3. End(t, b) <= st
      <4>1. End(t, 0) <= Start(s, 0)
        BY <2>1, <2>2, <2>3, <1>1, LinkedIs
      <4>2. PICK e \in Nat, f \in Nat : e = End(t, 0) /\ f = Start(s, 0)
        BY <3>2, <1>2, SegmentIs
      <4>3. End(t, b) = b + e
        BY <4>2, <3>2, SegmentIs
      <4>4. st = b + f
        BY <4>2, <1>2, <1>5, SegmentIs
      <4> QED BY <4>1, <4>2, <4>3, <4>4
    <3>4. HoldsSegment(image, t, b)
      BY <2>1, <2>2, <2>3 DEF Held
    <3>5. \A x \in Addr : x < st => mem'[x] = mem[x]
      <4>1. SUFFICES ASSUME NEW x \in Addr, x < st PROVE mem'[x] = mem[x]
        OBVIOUS
      <4>2. x \in Int
        BY PageSizes DEF Addr
      <4>3. ~(st <= x)
        BY <4>1, <4>2
      <4> QED BY <4>3, <1>4, <1>5
    <3>6. \A p \in PageNo : p * Page < st => prot'[p] = prot[p]
      <4>1. SUFFICES ASSUME NEW p \in PageNo, p * Page < st PROVE prot'[p] = prot[p]
        OBVIOUS
      <4>2. p \in Int
        BY PageSizes DEF PageNo
      <4>3. PICK y \in Int : y = p * Page
        BY <4>2, PageSizes
      <4>4. ~(st <= p * Page)
        BY <4>1, <4>3
      <4> QED BY <4>4, <1>5 DEF Granted
    <3> QED BY <2>2, <3>1, <3>2, <3>3, <3>4, <3>5, <3>6, HoldsOn
  <2>4. CASE j = i
    <3>1. Linked(image, s)
      BY <2>1, <2>4, LinkedIs
    <3>2. InPlace(image, s, b)'
      BY <3>1, <1>2, PutHolds
    <3>3. \A x \in PageNo : Start(s, b) <= x * Page /\ x * Page < End(s, b) => prot'[x] = s.flags
      BY DEF Granted
    <3>4. HoldsSegment(image, s, b)'
      BY <3>2, <3>3 DEF HoldsSegment, InPlace
    <3> QED BY <3>4, <2>4
  <2> QED BY <2>1, <2>3, <2>4, <1>3
<1> QED BY <1>1, <1>2, <1>7, <1>8

\* Bringing in a segment leaves what is in front of it and behind it.
LEMMA PutFront ==
    ASSUME LoadTypes, Front, NEW image, AnImage(image), NEW s, Sound(s, base), Brought(image, s, base),
           base' = base, last' = Highest(End(s, base))
    PROVE  /\ Front' /\ last' \in Nat /\ OnPage(last)' /\ last <= last' /\ End(s, base) <= last'
           /\ \A x \in Addr : x < base => mem'[x] = mem[x]
<1>1. PICK st \in Nat, en \in Nat : st = Start(s, base) /\ en = End(s, base)
  BY SegmentIs
<1>2. base \in Nat /\ last \in Nat
  BY DEF LoadTypes
<1>3. base <= st /\ st < en /\ OnPage(en)
  <2>1. PICK v \in Nat, e \in Nat : v = Start(s, 0) /\ e = End(s, 0)
    BY SegmentIs
  <2>2. st = base + v
    BY <1>1, <2>1, SegmentIs
  <2>3. st <= base + s.vaddr /\ base + s.vaddr + s.memsz <= en /\ s.vaddr \in Nat /\ s.memsz \in Nat
        /\ s.memsz > 0 /\ OnPage(en)
    BY <1>1, SegmentIs
  <2> QED BY <1>2, <2>2, <2>3
<1>4. \A x \in Addr : ~(st <= x /\ x < en) => mem'[x] = mem[x]
  BY <1>1, PutKeeps
<1>5. last' = IF en > last THEN en ELSE last
  BY <1>1 DEF Highest
<1>6. last' \in Nat /\ OnPage(last)' /\ last <= last' /\ en <= last' /\ base < last'
  <2>1. OnPage(last)
    BY DEF LoadTypes
  <2>2. CASE en > last
    BY <1>2, <1>3, <1>5, <2>2 DEF OnPage
  <2>3. CASE ~(en > last)
    BY <1>2, <1>3, <1>5, <2>1, <2>3 DEF OnPage
  <2> QED BY <2>2, <2>3
<1>7. ASSUME NEW x \in Addr, base <= x, last' <= x PROVE mem'[x] = Free
  <2>1. x \in Int
    BY PageSizes DEF Addr
  <2>2. ~(x < en) /\ last <= x
    BY <1>2, <1>6, <1>7, <2>1
  <2>3. mem[x] = Free
    BY <2>2, <1>7 DEF Front
  <2> QED BY <2>2, <2>3, <1>4
<1>8. ASSUME NEW x \in Addr, x < base PROVE mem'[x] = mem[x]
  <2>1. x \in Int
    BY PageSizes DEF Addr
  <2>2. ~(st <= x)
    BY <1>2, <1>3, <1>8, <2>1
  <2> QED BY <2>2, <1>4
<1> QED
  <2>1. Front'
    BY <1>6, <1>7 DEF Front
  <2> QED BY <2>1, <1>1, <1>6, <1>8

\* Copying, mapping and remapping bring the same to memory.
LEMMA Ways ==
    ASSUME mode \in {"copy", "file", "remap"}, NEW s, PutSegment(s)
    PROVE  Brought(Image, s, base)
<1>1. CASE Way(s) = "copy"
  BY <1>1 DEF PutSegment, Brought
<1>2. CASE Way(s) = "file"
  BY <1>2 DEF PutSegment, Brought
<1>3. CASE Way(s) = "remap"
  <2>1. "x" \in s.flags
    BY <1>3 DEF Way
  <2> QED BY <1>3, <2>1 DEF PutSegment, Brought
<1> QED BY <1>1, <1>2, <1>3 DEF Way

\* A step that ends in failure.
LEMMA Fails ==
    ASSUME LoadInv, UNCHANGED <<prog, mode, seg, base, first, last, info>>, stage' = "failed",
           interp' \in Interpreters \cup {NoImage}
    PROVE  LoadInv'
<1> QED BY DEF LoadInv, LoadTypes, AtStart, AtProg, AtInterp, AtSymbols, LoadedSound, ImagesHeld, StartsInside,
           NoBusError, OnPage

\* elf_load goes on to the next program header.
LEMMA SegmentStep ==
    ASSUME LoadInv, Segment
    PROVE  LoadInv'
<1>1. PICK image : image = Image
  OBVIOUS
<1>2. PICK i : i = NextSeg(image, seg)
  OBVIOUS
<1>3. PICK s : s = image.segs[i]
  OBVIOUS
<1>4. /\ stage \in {"prog", "interp"} /\ i <= Len(image.segs)
      /\ UNCHANGED <<prog, mode, interp, fd, buffer>>
      /\ \/ /\ SegOK(s) /\ PutSegment(s)
            /\ prot' = Granted(prot, Start(s, base), End(s, base), s.flags)
            /\ seg' = i + 1
            /\ first' = Lowest(Start(s, base)) /\ last' = Highest(End(s, base))
            /\ UNCHANGED <<stage, base, info, entry, brkbase, dynsym>>
         \/ /\ SegOK(s) /\ ClearsBeyond(image, s, base)
            /\ stage' = "crash"
            /\ UNCHANGED <<seg, base, first, last, info, entry, brkbase, dynsym, mem, prot>>
         \/ Fail
  BY <1>1, <1>2, <1>3 DEF Segment, Places, Process
<1>5. LoadTypes /\ base \in Nat /\ OnPage(base) /\ seg \in Nat \ {0} /\ last \in Nat /\ first \in Nat
  BY DEF LoadInv, LoadTypes
<1>6. AnImage(image) /\ AnImage(prog) /\ (stage = "interp" => AnImage(interp) /\ image = interp)
      /\ (stage = "prog" => image = prog)
  BY <1>1, <1>4 DEF Image, AnImage, LoadInv, LoadTypes, AtInterp
<1>7. Sound(s, base) \/ ~SegOK(s)
  BY <1>2, <1>3, <1>4, <1>5, <1>6, NextIs, ImageIs DEF Sound
<1>8. CASE Fail
  BY <1>4, <1>5, <1>8, Fails DEF Fail, Places, Process, LoadTypes
<1>9. CASE /\ SegOK(s) /\ ClearsBeyond(image, s, base)
           /\ stage' = "crash"
           /\ UNCHANGED <<seg, base, first, last, info, entry, brkbase, dynsym, mem, prot>>
  <2>1. ASSUME WellFormed(image) PROVE FALSE
    <3>1. i \in 1..Len(image.segs)
      BY <1>2, <1>4, <1>5, <1>6, NextIs
    <3>2. Linked(image, s)
      BY <2>1, <3>1, <1>3, <1>6, LinkedIs
    <3> QED BY <3>2, <1>5, <1>6, <1>7, <1>9, NoClears
  <2>2. image = IF base = BoxMin THEN prog ELSE interp
    BY <1>4, <1>6 DEF LoadInv, AtProg, AtInterp
  <2>3. NoBusError'
    BY <2>1, <2>2, <1>4, <1>9 DEF NoBusError, WellFormed
  <2> QED BY <2>3, <1>4, <1>9 DEF LoadInv, LoadTypes, AtStart, AtProg, AtInterp, AtSymbols, LoadedSound,
             ImagesHeld, StartsInside, OnPage
<1>10. CASE /\ SegOK(s) /\ PutSegment(s)
            /\ prot' = Granted(prot, Start(s, base), End(s, base), s.flags)
            /\ seg' = i + 1
            /\ first' = Lowest(Start(s, base)) /\ last' = Highest(End(s, base))
            /\ UNCHANGED <<stage, base, info, entry, brkbase, dynsym>>
  <2>1. Sound(s, base) /\ Brought(image, s, base) /\ Front
    BY <1>1, <1>4, <1>5, <1>7, <1>10, Ways DEF LoadTypes, LoadInv, AtProg, AtInterp
  <2>2. /\ Front' /\ last' \in Nat /\ OnPage(last)' /\ last <= last' /\ End(s, base) <= last'
        /\ \A x \in Addr : x < base => mem'[x] = mem[x]
    BY <2>1, <1>5, <1>6, <1>10, PutFront
  <2>3. PICK b \in Nat, n \in Nat \ {0}, l \in Nat, l2 \in Nat : b = base /\ n = seg /\ l = last /\ l2 = last'
    BY <1>5, <2>2
  <2>4. Below(image, b, n, l) /\ Held(image, b, n)
    BY <2>3, <1>4, <1>6 DEF LoadInv, AtProg, AtInterp
  <2>5. /\ i + 1 \in Nat \ {0} /\ Below(image, b, i + 1, l2) /\ Held(image, b, i + 1)'
    BY <2>1, <2>2, <2>3, <2>4, <1>2, <1>3, <1>4, <1>5, <1>6, <1>10, OneSegment
  <2>6. first' \in Nat
    BY <1>5, <1>10, <2>1, SegmentIs DEF Lowest
  <2>7. LoadTypes'
    <3>1. OnPage(base)'
      BY <1>5, <1>10 DEF OnPage
    <3> QED BY <3>1, <1>4, <1>5, <1>10, <2>2, <2>5, <2>6 DEF LoadTypes
  <2>8. AtProg'
    <3>1. SUFFICES ASSUME stage = "prog" PROVE AtProg'
      BY <1>10 DEF AtProg
    <3>2. image = prog /\ base = BoxMin
      BY <3>1, <1>6 DEF LoadInv, AtProg
    <3>3. Below(prog, BoxMin, seg, last)'
      BY <3>2, <2>3, <2>5, <1>4, <1>10 DEF Below
    <3>4. Held(prog, BoxMin, seg)'
      BY <3>2, <2>3, <2>5, <1>4, <1>10
    <3> QED BY <3>2, <3>3, <3>4, <2>2, <1>10 DEF AtProg
  <2>9. AtInterp'
    <3>1. SUFFICES ASSUME stage = "interp" PROVE AtInterp'
      BY <1>10 DEF AtInterp
    <3>2. image = interp /\ base # BoxMin /\ interp # NoImage /\ info.elfentry = BoxMin + prog.entry
          /\ Whole(prog, BoxMin, base)
      BY <3>1, <1>6 DEF LoadInv, AtInterp
    <3>3. Below(interp, base, seg, last)'
      BY <3>2, <2>3, <2>5, <1>4, <1>10 DEF Below
    <3>4. Held(interp, base, seg)'
      BY <3>2, <2>3, <2>5, <1>4, <1>10
    <3>5. Whole(prog, BoxMin, base)'
      <4>1. PICK p : p = prog
        OBVIOUS
      <4>2. PICK m \in Nat : m = Len(p.segs) + 1
        BY <4>1, <1>6, ImageIs
      <4>3. AnImage(p) /\ Below(p, BoxMin, m, b) /\ Held(p, BoxMin, m)
        BY <4>1, <4>2, <3>2, <2>3, <1>6 DEF Whole
      <4>4. \A x \in Addr : x < b => mem'[x] = mem[x]
        BY <2>2, <2>3
      <4>5. \A x \in PageNo : x * Page < b => prot'[x] = prot[x]
        <5>1. SUFFICES ASSUME NEW x \in PageNo, x * Page < b PROVE prot'[x] = prot[x]
          OBVIOUS
        <5>2. x \in Int
          BY PageSizes DEF PageNo
        <5>3. PICK y \in Int : y = x * Page
          BY <5>2, PageSizes
        <5>4. PICK st \in Nat, v \in Nat : st = Start(s, base) /\ v = Start(s, 0) /\ st = b + v
          BY <2>1, <2>3, SegmentIs
        <5>5. ~(st <= x * Page)
          BY <5>1, <5>3, <5>4
        <5> QED BY <5>4, <5>5, <1>10 DEF Granted
      <4>6. BoxMin \in Nat /\ OnPage(BoxMin)
        BY PageSizes
      <4>7. Held(p, BoxMin, m)'
        BY <4>3, <4>4, <4>5, <4>6, HeldOn
      <4> QED BY <4>1, <4>2, <4>3, <4>7, <2>3, <1>4, <1>10 DEF Whole, Below
    <3> QED BY <3>2, <3>3, <3>4, <3>5, <2>2, <1>4, <1>10 DEF AtInterp
  <2> QED BY <2>7, <2>8, <2>9, <1>4, <1>10 DEF LoadInv, AtStart, AtSymbols, LoadedSound, ImagesHeld, StartsInside,
             NoBusError
<1> QED BY <1>4, <1>8, <1>9, <1>10

\* lfi_proc_load reads and checks the headers of the program.
LEMMA BeginStep ==
    ASSUME LoadInv, Begin
    PROVE  LoadInv'
<1>1. /\ stage = "start" /\ base = BoxMin /\ last = 0 /\ Front /\ LoadTypes /\ interp = NoImage
  BY DEF Begin, LoadInv, AtStart
<1>2. /\ UNCHANGED <<prog, mode, base, first, last, info, entry, brkbase, dynsym, mem, prot>>
      /\ seg' = 1 /\ interp' \in Interpreters \cup {NoImage}
      /\ stage' \in {"prog", "failed"}
  BY <1>1 DEF Begin, Places, Process
<1>3. LoadTypes'
  BY <1>1, <1>2 DEF LoadTypes, OnPage
<1>4. AtProg'
  <2>1. \A j \in 1..Len(prog.segs) : ~(j < 1)
    BY <1>1, ImageIs DEF LoadTypes, AnImage
  <2>2. Below(prog, BoxMin, seg, last)' /\ Held(prog, BoxMin, seg)'
    BY <1>2, <2>1 DEF Below, Held
  <2> QED BY <1>1, <1>2, <2>2 DEF AtProg, Front
<1> QED BY <1>2, <1>3, <1>4 DEF LoadInv, AtStart, AtInterp, AtSymbols, LoadedSound, ImagesHeld, StartsInside, NoBusError

\* When no header with memory is left, the whole image is there.
LEMMA AllIn ==
    ASSUME NEW image, AnImage(image), NEW n \in Nat \ {0}, NextSeg(image, n) > Len(image.segs),
           NEW b, NEW l, Below(image, b, n, l), Held(image, b, n)
    PROVE  Whole(image, b, l)
<1>1. ASSUME NEW j \in 1..Len(image.segs), image.segs[j].memsz # 0 PROVE j < n
  <2>1. SUFFICES ASSUME ~(j < n) PROVE FALSE
    OBVIOUS
  <2>2. Len(image.segs) \in Nat
    BY ImageIs
  <2>3. j \in n..Len(image.segs)
    BY <2>1, <2>2
  <2>4. NextSeg(image, n) <= j /\ NextSeg(image, n) \in Nat
    BY <2>3, <1>1, NextIs
  <2> QED BY <2>2, <2>4
<1>2. Below(image, b, Len(image.segs) + 1, l)
  BY <1>1 DEF Below
<1>3. Held(image, b, Len(image.segs) + 1)
  BY <1>1 DEF Held
<1> QED BY <1>2, <1>3 DEF Whole

\* What is loaded stays when memory is left alone.
LEMMA WholeOn ==
    ASSUME NEW image, NEW b, NEW l, Whole(image, b, l), UNCHANGED <<mem, prot>>
    PROVE  Whole(image, b, l)'
BY DEF Whole, Below, Held, HoldsSegment, WellFormed

\* The program is loaded; its interpreter is next if it names one.
LEMMA ProgramStep ==
    ASSUME LoadInv, ProgramLoaded
    PROVE  LoadInv'
<1>1. /\ LoadTypes /\ AnImage(prog) /\ base = BoxMin /\ Front
      /\ Below(prog, BoxMin, seg, last) /\ Held(prog, BoxMin, seg)
      /\ NextSeg(prog, seg) > Len(prog.segs)
  BY DEF ProgramLoaded, LoadInv, LoadTypes, AtProg, AnImage
<1>p. PICK p : p = prog
  OBVIOUS
<1>n. PICK n \in Nat \ {0}, l \in Nat : n = seg /\ l = last
  BY <1>1 DEF LoadTypes
<1>2. p = prog /\ n = seg /\ l = last
  BY <1>p, <1>n
<1>3. Whole(p, BoxMin, l)
  BY <1>1, <1>2, AllIn
<1>4. UNCHANGED <<prog, mode, interp, mem, prot>>
  BY DEF ProgramLoaded
<1>5. Whole(p, BoxMin, l)'
  BY <1>3, <1>4, WholeOn
<1>6. prog.entry \in Nat /\ Len(prog.segs) \in Nat
  BY <1>1, ImageIs
<1>7. /\ info' \in [elfbase : Nat, elfentry : Nat, ldentry : Nat, lastva : Nat]
      /\ info'.elfentry = base + prog.entry /\ info'.lastva = last
  <2>1. PICK e \in Nat : e = base + prog.entry
    BY <1>1, <1>6, PageSizes
  <2>2. info' = [info EXCEPT !.elfbase = first, !.elfentry = e, !.lastva = last]
    BY <2>1 DEF ProgramLoaded
  <2>3. info \in [elfbase : Nat, elfentry : Nat, ldentry : Nat, lastva : Nat] /\ first \in Nat /\ last \in Nat
    BY <1>1 DEF LoadTypes
  <2>4. info'.elfentry = e /\ info'.lastva = last
    BY <2>2, <2>3
  <2> QED BY <2>1, <2>2, <2>3, <2>4
<1>8. CASE interp = NoImage
  <2>1. stage' = "symbols" /\ UNCHANGED <<seg, base, first, last>>
    BY <1>8 DEF ProgramLoaded, Places
  <2>2. LoadTypes'
    BY <1>1, <1>4, <1>7, <2>1 DEF LoadTypes, OnPage
  <2>3. Whole(prog, BoxMin, last)'
    BY <1>2, <1>4, <1>5, <2>1 DEF Whole, Below, Held
  <2>4. AtSymbols'
    BY <1>1, <1>4, <1>7, <1>8, <2>1, <2>3 DEF AtSymbols, Front
  <2> QED BY <2>1, <2>2, <2>4 DEF LoadInv, AtStart, AtProg, AtInterp, LoadedSound, ImagesHeld, StartsInside, NoBusError
<1>9. CASE interp # NoImage
  <2>1. stage' = "interp" /\ seg' = 1 /\ base' = last /\ first' = 0 /\ last' = 0
    BY <1>9 DEF ProgramLoaded
  <2>2. LoadTypes'
    <3>1. OnPage(base)' /\ OnPage(last)'
      BY <1>1, <2>1, PageSizes DEF LoadTypes, OnPage
    <3> QED BY <3>1, <1>1, <1>2, <1>4, <1>7, <2>1 DEF LoadTypes
  <2>3. Whole(prog, BoxMin, base)'
    BY <1>2, <1>4, <1>5, <2>1 DEF Whole, Below, Held
  <2>4. base' # BoxMin
    BY <1>1, <1>2, <2>1, PageSizes DEF Front
  <2>5. Front'
    <3>1. ASSUME NEW x \in Addr, base' <= x PROVE mem'[x] = Free
      <4>1. base <= x
        BY <1>1 DEF Addr
      <4>2. last <= x
        BY <3>1, <2>1
      <4> QED BY <4>1, <4>2, <1>1, <1>4 DEF Front
    <3> QED BY <3>1, <2>1 DEF Front
  <2>6. Below(interp, base, seg, last)' /\ Held(interp, base, seg)'
    <3>1. AnImage(interp)
      BY <1>1, <1>9 DEF LoadTypes, AnImage
    <3>2. \A j \in 1..Len(interp.segs) : ~(j < 1)
      BY <3>1, ImageIs
    <3> QED BY <3>2, <2>1, <1>4 DEF Below, Held
  <2>7. AtInterp'
    BY <1>1, <1>4, <1>7, <1>9, <2>1, <2>3, <2>4, <2>5, <2>6 DEF AtInterp
  <2> QED BY <2>1, <2>2, <2>7 DEF LoadInv, AtStart, AtProg, AtSymbols, LoadedSound, ImagesHeld, StartsInside, NoBusError
<1> QED BY <1>8, <1>9

\* The interpreter is loaded.
LEMMA InterpStep ==
    ASSUME LoadInv, InterpLoaded
    PROVE  LoadInv'
<1>1. /\ LoadTypes /\ Front /\ interp # NoImage /\ AnImage(interp)
      /\ Whole(prog, BoxMin, base)
      /\ Below(interp, base, seg, last) /\ Held(interp, base, seg)
      /\ NextSeg(interp, seg) > Len(interp.segs)
  BY DEF InterpLoaded, LoadInv, LoadTypes, AtInterp, AnImage
<1>p. PICK p : p = prog
  OBVIOUS
<1>q. PICK q : q = interp
  OBVIOUS
<1>n. PICK b \in Nat, n \in Nat \ {0}, l \in Nat : b = base /\ n = seg /\ l = last
  BY <1>1 DEF LoadTypes
<1>2. p = prog /\ q = interp /\ b = base /\ n = seg /\ l = last
  BY <1>p, <1>q, <1>n
<1>3. Whole(q, b, l)
  BY <1>1, <1>2, AllIn
<1>4. UNCHANGED <<prog, mode, interp, seg, base, first, last, mem, prot>> /\ stage' = "symbols"
  BY DEF InterpLoaded, Places
<1>5. Whole(q, b, l)' /\ Whole(p, BoxMin, b)'
  BY <1>1, <1>2, <1>3, <1>4, WholeOn
<1>6. interp.entry \in Nat
  BY <1>1, ImageIs
<1>7. /\ info' \in [elfbase : Nat, elfentry : Nat, ldentry : Nat, lastva : Nat]
      /\ info'.ldentry = base + interp.entry /\ info'.lastva = last
  <2>1. PICK e \in Nat : e = base + interp.entry
    BY <1>1, <1>2, <1>6
  <2>2. info' = [info EXCEPT !.ldentry = e, !.lastva = last]
    BY <2>1 DEF InterpLoaded
  <2>3. info \in [elfbase : Nat, elfentry : Nat, ldentry : Nat, lastva : Nat] /\ last \in Nat
    BY <1>1 DEF LoadTypes
  <2>4. info'.ldentry = e /\ info'.lastva = last
    BY <2>2, <2>3
  <2> QED BY <2>1, <2>2, <2>3, <2>4
<1>8. LoadTypes'
  BY <1>1, <1>4, <1>7 DEF LoadTypes, OnPage
<1>9. Whole(prog, BoxMin, base)' /\ Whole(interp, base, last)'
  BY <1>2, <1>4, <1>5 DEF Whole, Below, Held
<1>10. AtSymbols'
  BY <1>1, <1>4, <1>7, <1>9 DEF AtSymbols, Front
<1> QED BY <1>4, <1>8, <1>10 DEF LoadInv, AtStart, AtProg, AtInterp, LoadedSound, ImagesHeld, StartsInside, NoBusError

\* The region of the break is filled behind the images.
LEMMA Behind ==
    ASSUME NEW l \in Nat, NEW top \in Nat, top <= l \/ BrkMax = 0,
           mem' = Filled(mem, l, l + BrkMax, ZeroFill), prot' = Granted(prot, l, l + BrkMax, {})
    PROVE  /\ \A x \in Addr : x < top => mem'[x] = mem[x]
           /\ \A x \in PageNo : x * Page < top => prot'[x] = prot[x]
<1>0. BrkMax \in Nat
  BY PageSizes
<1>1. ASSUME NEW x \in Addr, x < top PROVE mem'[x] = mem[x]
  <2>1. x \in Int
    BY PageSizes DEF Addr
  <2>2. ~(l <= x /\ x < l + BrkMax)
    BY <1>0, <1>1, <2>1
  <2> QED BY <2>2 DEF Filled
<1>2. ASSUME NEW x \in PageNo, x * Page < top PROVE prot'[x] = prot[x]
  <2>1. x \in Int
    BY PageSizes DEF PageNo
  <2>2. PICK y \in Int : y = x * Page
    BY <2>1, PageSizes
  <2>3. ~(l <= x * Page /\ x * Page < l + BrkMax)
    BY <1>0, <1>2, <2>2
  <2> QED BY <2>3 DEF Granted
<1> QED BY <1>1, <1>2

\* A byte of code starts in its segment, and the page of it is executable.
LEMMA RunsThere ==
    ASSUME NEW image, AnImage(image), NEW b \in Nat, OnPage(b), NEW l, Whole(image, b, l)', WellFormed(image),
           NEW j \in 1..Len(image.segs), NEW s, s = image.segs[j],
           "x" \in s.flags, s.vaddr <= image.entry, image.entry < s.vaddr + s.memsz
    PROVE  /\ b + image.entry \in Addr /\ mem'[b + image.entry][1] = image.name
           /\ "x" \in prot'[(b + image.entry) \div Page]
<1>1. s \in SegRecord /\ image.entry \in Nat /\ Len(image.segs) \in Nat
  BY ImageIs
<1>2. PICK vad \in Nat, fs \in Nat, ms \in Nat, k \in Nat :
          vad = s.vaddr /\ fs = s.filesz /\ ms = s.memsz /\ k = image.entry
  BY <1>1 DEF SegRecord
<1>3. vad <= k /\ k < vad + ms /\ ms # 0
  BY <1>2
<1>4. j < Len(image.segs) + 1
  BY <1>1
<1>5. /\ SegOK(s) /\ BoxMin <= Start(s, b) /\ End(s, b) <= BoxMax /\ HoldsSegment(image, s, b)'
  BY <1>2, <1>3, <1>4 DEF Whole, Below, Held, WellFormed
<1>6. Sound(s, b)
  BY <1>1, <1>2, <1>3, <1>5 DEF Sound
<1>7. PICK st \in Nat, en \in Nat : st = Start(s, b) /\ en = End(s, b)
  BY <1>6, SegmentIs
<1>8. /\ st <= b + vad /\ b + vad + ms <= en /\ OnPage(st) /\ BoxMin <= st /\ en <= BoxMax /\ fs <= ms
  BY <1>2, <1>5, <1>6, <1>7, SegmentIs
<1>9. ~(ms > fs)
  BY <1>2, LinkedIs DEF Linked
<1>10. PICK e \in Nat, d \in Nat : e = b + k /\ d = k - vad /\ e = b + vad + d
  <2>1. PICK d \in Nat : d = k - vad
    BY <1>3
  <2>2. PICK e \in Nat : e = b + k
    OBVIOUS
  <2>3. e = b + vad + d
    BY <2>1, <2>2
  <2> QED BY <2>1, <2>2, <2>3
<1>11. st <= e /\ e < en /\ d \in 0..(fs - 1)
  BY <1>3, <1>8, <1>9, <1>10
<1>12. e \in Addr
  BY <1>8, <1>11, PageSizes DEF Addr
<1>13. mem'[e][1] = image.name
  <2>1. mem'[b + s.vaddr + d] = <<image.name, s.off + d>>
    BY <1>2, <1>5, <1>11 DEF HoldsSegment
  <2>2. b + s.vaddr + d = e
    BY <1>2, <1>10
  <2>3. mem'[e] = <<image.name, s.off + d>>
    BY <2>1, <2>2
  <2> QED BY <2>3
<1>14. PICK q \in Nat : q = e \div Page /\ q * Page \in Nat /\ q * Page <= e /\ e < q * Page + Page
  <2>1. Page \in Nat /\ Page > 0
    BY PageSizes
  <2>2. /\ e % Page \in 0..(Page - 1) /\ e \div Page \in Nat
        /\ e = Page * (e \div Page) + (e % Page) /\ Page * (e \div Page) = (e \div Page) * Page
        /\ (e \div Page) * Page \in Nat
    BY <2>1
  <2>3. PICK m \in 0..(Page - 1) : m = e % Page
    BY <2>2
  <2>4. PICK q \in Nat : q = e \div Page
    BY <2>2
  <2>5. PICK y \in Nat : y = q * Page
    BY <2>2, <2>4
  <2>6. e = y + m
    BY <2>2, <2>3, <2>4, <2>5
  <2> QED BY <2>1, <2>4, <2>5, <2>6
<1>15. st <= q * Page /\ q * Page < en
  <2>1. PICK y \in Nat : y = q * Page
    BY <1>14
  <2>2. OnPage(y)
    BY <2>1 DEF OnPage
  <2>3. SUFFICES ASSUME y < st PROVE FALSE
    BY <2>1, <1>11, <1>14
  <2>4. y + Page <= st
    BY <2>2, <2>3, <1>8, PageApart
  <2>5. e < y + Page
    BY <2>1, <1>14
  <2>6. st <= e /\ Page \in Nat
    BY <1>11, PageSizes
  <2> QED BY <2>4, <2>5, <2>6
<1>16. q \in PageNo
  <2>1. Page \in Nat /\ Page > 0 /\ BoxMin \in Nat /\ BoxMax \in Nat
    BY PageSizes
  <2>2. BoxMin <= e /\ e <= BoxMax - 1
    BY <1>8, <1>11, <2>1
  <2>3. BoxMin \div Page <= q /\ q <= (BoxMax - 1) \div Page
    BY <1>14, <2>1, <2>2
  <2> QED BY <2>1, <2>3 DEF PageNo
<1>17. prot'[q] = s.flags
  BY <1>5, <1>7, <1>15, <1>16 DEF HoldsSegment
<1> QED BY <1>2, <1>10, <1>12, <1>13, <1>14, <1>17

\* lfi_proc_load returns: the entry point and the break.
LEMMA FinishStep ==
    ASSUME LoadInv, Finish
    PROVE  LoadInv'
<1>1. /\ LoadTypes /\ Front /\ info.lastva = last /\ AnImage(prog) /\ base \in Nat /\ OnPage(base)
      /\ last \in Nat
      /\ interp = NoImage =>
            base = BoxMin /\ info.elfentry = base + prog.entry /\ Whole(prog, BoxMin, last)
      /\ interp # NoImage =>
            /\ info.ldentry = base + interp.entry /\ Whole(prog, BoxMin, base) /\ Whole(interp, base, last)
            /\ AnImage(interp)
  BY DEF Finish, LoadInv, LoadTypes, AtSymbols, AnImage
<1>2. /\ UNCHANGED <<prog, mode, interp, seg, base, first, last, info>>
      /\ entry' = Entry(info) /\ brkbase' = last
  BY <1>1 DEF Finish, Places
<1>3. CASE stage' = "failed"
  BY <1>1, <1>2, <1>3, Fails DEF LoadTypes
<1>4. CASE /\ BrkMax > 0 => InBox(last, last + BrkMax)
           /\ mem' = Filled(mem, last, last + BrkMax, ZeroFill)
           /\ prot' = Granted(prot, last, last + BrkMax, {})
           /\ stage' = "done"
  <2>0. BrkMax \in Nat /\ BoxMin \in Nat /\ 0 < BoxMin /\ OnPage(BoxMin)
    BY PageSizes
  <2>1. PICK b \in Nat, l \in Nat : b = base /\ l = last /\ OnPage(b)
    BY <1>1
  <2>2. (b < l \/ l = 0) /\ (BrkMax > 0 => BoxMin <= l)
    BY <1>1, <1>4, <2>1 DEF Front, InBox
  <2>3. BrkMax = 0 \/ b <= l
    BY <2>0, <2>2
  \* What was loaded is still there.
  <2>4. ASSUME NEW image, AnImage(image), NEW at \in Nat, OnPage(at), NEW top \in Nat, top <= l \/ BrkMax = 0,
               Whole(image, at, top)
        PROVE  Whole(image, at, top)'
    <3>1. PICK m \in Nat : m = Len(image.segs) + 1
      BY <2>4, ImageIs
    <3>2. /\ \A x \in Addr : x < top => mem'[x] = mem[x]
          /\ \A x \in PageNo : x * Page < top => prot'[x] = prot[x]
      BY <2>1, <2>4, <1>4, Behind
    <3>3. Below(image, at, m, top) /\ Held(image, at, m)
      BY <2>4, <3>1 DEF Whole
    <3>4. Held(image, at, m)'
      BY <2>4, <3>2, <3>3, HeldOn
    <3> QED BY <3>1, <3>3, <3>4 DEF Whole, Below
  <2>5. PICK p : p = prog
    OBVIOUS
  <2>6. PICK q : q = interp
    OBVIOUS
  <2>7. /\ AnImage(p) /\ prog' = p /\ interp' = q
        /\ q = NoImage => b = BoxMin /\ entry' = b + p.entry /\ Whole(p, BoxMin, l)'
        /\ q # NoImage => AnImage(q) /\ entry' = b + q.entry /\ Whole(p, BoxMin, b)' /\ Whole(q, b, l)'
    <3>1. AnImage(p) /\ prog' = p /\ interp' = q
      BY <1>1, <1>2, <2>5, <2>6
    <3>2. CASE q = NoImage
      <4>1. b = BoxMin /\ entry' = b + p.entry /\ Whole(p, BoxMin, l)
        BY <1>1, <1>2, <2>1, <2>5, <2>6, <3>2 DEF Entry
      <4>2. Whole(p, BoxMin, l)'
        BY <4>1, <3>1, <2>0, <2>4
      <4> QED BY <4>1, <4>2, <3>1, <3>2
    <3>3. CASE q # NoImage
      <4>1. AnImage(q) /\ entry' = b + q.entry /\ Whole(p, BoxMin, b) /\ Whole(q, b, l)
        BY <1>1, <1>2, <2>1, <2>5, <2>6, <3>3 DEF Entry
      <4>2. Whole(p, BoxMin, b)'
        BY <4>1, <3>1, <2>0, <2>3, <2>4
      <4>3. Whole(q, b, l)'
        BY <4>1, <2>1, <2>4
      <4> QED BY <4>1, <4>2, <4>3, <3>1, <3>3
    <3> QED BY <3>2, <3>3
  <2>8. ASSUME NEW image, NEW at, NEW top, Whole(image, at, top)', WellFormed(image)
        PROVE  HoldsImage(image, at)'
    <3>1. SUFFICES ASSUME NEW i \in 1..Len(image.segs), image.segs[i].memsz # 0
                   PROVE  HoldsSegment(image, image.segs[i], at)'
      BY DEF HoldsImage
    <3>2. i < Len(image.segs) + 1
      OBVIOUS
    <3>3. Held(image, at, Len(image.segs) + 1)'
      BY <2>8 DEF Whole
    <3> QED BY <3>1, <3>2, <3>3, <2>8 DEF Held, WellFormed
  <2>9. ImagesHeld'
    <3>1. WellFormed(p) => HoldsImage(p, BoxMin)'
      BY <2>7, <2>8
    <3>2. q # NoImage /\ WellFormed(q) => HoldsImage(q, b)'
      BY <2>7, <2>8
    <3> QED BY <3>1, <3>2, <2>1, <2>7, <1>2 DEF ImagesHeld, WellFormed
  <2>10. PICK image : image = IF q = NoImage THEN p ELSE q
    OBVIOUS
  <2>11. AnImage(image) /\ Whole(image, b, l)' /\ entry' = b + image.entry
    BY <2>7, <2>10
  <2>12. ASSUME NEW j \in 1..Len(image.segs), "x" \in image.segs[j].flags, image.segs[j].vaddr <= image.entry,
                image.entry < image.segs[j].vaddr + image.segs[j].memsz, WellFormed(image)
         PROVE  entry' \in Addr /\ mem'[entry'][1] = image.name /\ "x" \in prot'[entry' \div Page]
    BY <2>1, <2>11, <2>12, RunsThere
  <2>13. ASSUME BrkMax > 0, NEW a \in Addr, mem'[a][1] \in {p.name, q.name}
         PROVE  a < l
    <3>1. SUFFICES ASSUME ~(a < l) PROVE FALSE
      OBVIOUS
    <3>2. b <= a /\ l <= a /\ a \in Int
      BY <3>1, <2>0, <2>2, <2>13 DEF Addr
    <3>3. mem[a] = Free
      BY <3>2, <1>1, <2>1 DEF Front
    <3>4. mem'[a] = Free \/ mem'[a] = Zero
      BY <3>3, <1>4, <2>1 DEF Filled, ZeroFill
    <3>5. mem'[a][1] \in {"free", "zero"}
      BY <3>4 DEF Free, Zero, Mark
    <3>6. p.name \notin {"none", "free", "zero", "trap", "bus"}
      BY <2>7, ImageIs
    <3>7. q.name \notin {"free", "zero"}
      BY <2>7, ImageIs DEF NoImage
    <3> QED BY <3>5, <3>6, <3>7, <2>13
  <2>14. StartsInside'
    BY <2>1, <2>7, <2>10, <2>12, <2>13, <1>2 DEF StartsInside, WellFormed
  <2>15. LoadTypes'
    BY <1>1, <1>2 DEF LoadTypes, OnPage
  <2> QED BY <2>9, <2>14, <2>15, <1>4 DEF LoadInv, AtStart, AtProg, AtInterp, AtSymbols, LoadedSound, NoBusError
<1> QED BY <1>1, <1>3, <1>4 DEF Finish

\* Nothing is loaded.
LEMMA LoadBegins == LoadInit => LoadInv
<1> SUFFICES ASSUME LoadInit PROVE LoadInv
  OBVIOUS
<1>1. LoadTypes
  BY PageSizes DEF LoadInit, LoadTypes
<1>2. Front
  BY DEF LoadInit, Front
<1> QED BY <1>1, <1>2 DEF LoadInit, LoadInv, AtStart, AtProg, AtInterp, AtSymbols, LoadedSound, ImagesHeld,
           StartsInside, NoBusError

\* The inductive invariant of loading: how much of which image is in memory,
\* that it lies below what follows, and that the rest of the box is untouched.
THEOREM LoadInvariance == LoadSpec => []LoadInv
<1>1. LoadInv /\ [LoadNext]_loadVars => LoadInv'
  <2> SUFFICES ASSUME LoadInv, [LoadNext]_loadVars PROVE LoadInv'
    OBVIOUS
  <2>1. CASE Begin
    BY <2>1, BeginStep
  <2>2. CASE BadHeader
    <3>1. LoadTypes
      BY DEF LoadInv
    <3> QED BY <2>2, <3>1, Fails DEF BadHeader, Fail, Places, Process, LoadTypes
  <2>3. CASE Segment
    BY <2>3, SegmentStep
  <2>4. CASE ProgramLoaded
    BY <2>4, ProgramStep
  <2>5. CASE InterpLoaded
    BY <2>5, InterpStep
  <2>6. CASE Finish
    BY <2>6, FinishStep
  <2>7. CASE UNCHANGED loadVars
    <3>1. LoadTypes' /\ Front' = Front
      BY <2>7 DEF loadVars, LoadInv, LoadTypes, OnPage, Front
    <3>2. AtStart' /\ NoBusError'
      BY <2>7, <3>1 DEF loadVars, LoadInv, AtStart, NoBusError, WellFormed
    <3>3. AtProg'
      BY <2>7, <3>1 DEF loadVars, LoadInv, AtProg, Below, Held, HoldsSegment, WellFormed
    <3>4. AtInterp'
      BY <2>7, <3>1 DEF loadVars, LoadInv, AtInterp, Whole, Below, Held, HoldsSegment, WellFormed
    <3>5. AtSymbols'
      BY <2>7, <3>1 DEF loadVars, LoadInv, AtSymbols, Whole, Below, Held, HoldsSegment, WellFormed
    <3>6. ImagesHeld'
      BY <2>7 DEF loadVars, LoadInv, LoadedSound, ImagesHeld, HoldsImage, HoldsSegment, WellFormed
    <3>7. StartsInside'
      BY <2>7 DEF loadVars, LoadInv, LoadedSound, StartsInside, WellFormed
    <3> QED BY <3>1, <3>2, <3>3, <3>4, <3>5, <3>6, <3>7 DEF LoadInv, LoadedSound
  <2> QED BY <2>1, <2>2, <2>3, <2>4, <2>5, <2>6, <2>7 DEF LoadNext
<1> QED BY <1>1, LoadBegins, PTL DEF LoadSpec

\* A process that lfi_proc_load returned holds its program and interpreter as
\* their files say, however they were brought in, and starts inside them
\* (elf_load_one, buf_read_elfseg, proc_load).
THEOREM ImagesLoaded == LoadSpec => []LoadedSound
<1>1. LoadInv => LoadedSound
  BY DEF LoadInv
<1> QED BY <1>1, LoadInvariance, PTL

\* Loading a well-formed file writes to no page that the file does not back:
\* what buf_read_elfseg clears by hand ends on the last page of the file's bytes.
THEOREM NoBusErrors == LoadSpec => []NoBusError
<1>1. LoadInv => NoBusError
  BY DEF LoadInv
<1> QED BY <1>1, LoadInvariance, PTL
=============================================================================
