------------------------------ MODULE BoxMemory ------------------------------
(***************************************************************************)
(* core/box.c and core/mmap: the memory of one sandbox.                    *)
(*                                                                         *)
(* A sandbox records its mappings in a range map (box->mm) and gives pages *)
(* to the host kernel with mmap and mprotect.  Every operation runs with   *)
(* box->lk held (BOX_LOCK), so the operations exclude each other; sandbox  *)
(* code on other threads runs on and may store into writable pages between *)
(* any two system calls of an operation.  The lock is split only where     *)
(* that matters: a request for an executable mapping marks the pages       *)
(* read-only, verifies them, then makes them executable, and the variable  *)
(* op is the request between those steps.                                  *)
(*                                                                         *)
(* A page stands for one page of the usable region [box->min, box->max).   *)
(* The engine verifies (opts.no_verify and allow_wx are off). Mappings are *)
(* private; the one shared mapping, the callback table, is _noverify.     *)
(* The verifier judges a page by its content. mprotect to READ and the      *)
(* PROT_NONE mapping that withdraws pages do not fail: box.c ignores the   *)
(* result of the first and only logs a failure of the second.              *)
(***************************************************************************)
EXTENDS RangeMap

CONSTANTS NumPages,   \* usable pages
          Prots,      \* protections requested by callers, sets of "r", "w", "x"
          Src,        \* what a mapping is backed by; also the content it starts with
          Text,       \* contents a page may have, Src included
          Zero,       \* the content of anonymous memory, in Src
          Passing,    \* the contents the verifier accepts
          Aslr,       \* opts.no_aslr is off
          Noverify    \* whether callers use the _noverify entry points

ASSUME PagesAssumption == NumPages \in Nat \ {0}
ASSUME TextAssumption  == Zero \in Src /\ Src \subseteq Text /\ Passing \subseteq Text
ASSUME ProtsAssumption == Prots \subseteq SUBSET {"r", "w", "x"}
ASSUME FlagsAssumption == Aslr \in BOOLEAN /\ Noverify \in BOOLEAN

VARIABLES entries,    \* box->mm: entries with val = [prot |-> _, src |-> _]
          host,       \* what the kernel lets the process do with each page
          text,       \* the content of each page
          unchecked,  \* pages made executable by a _noverify call
          op          \* the request that waits for the verifier, or Idle

vars == <<entries, host, text, unchecked, op>>

Page == 0 .. NumPages - 1
Info == [prot : Prots, src : Src]
Idle == [kind |-> "idle"]

\* The page ranges of valid requests: lfi_box_bufvalid and is_valid hold.
Ranges == {R \in Page \X (1 .. NumPages) : R[1] < R[2]}
Pages(R) == R[1] .. R[2] - 1

Init ==
    /\ entries = {}
    /\ host = [p \in Page |-> {}]
    /\ text = [p \in Page |-> Zero]
    /\ unchecked = {}
    /\ op = Idle

-----------------------------------------------------------------------------
(* System calls on the pages of a range.                                   *)

Give(R, rights) == host' = [p \in Page |-> IF p \in Pages(R) THEN rights ELSE host[p]]
Fill(R, t)      == text' = [p \in Page |-> IF p \in Pages(R) THEN t ELSE text[p]]

\* Mutant of MarkRead.
MarkNothing(R) == UNCHANGED host

\* Marked read-only while the verifier reads it.
MarkRead(R) == Give(R, {"r"})

\* cbunmap, and the mmap of box_munmap_locked: fresh pages without access.
Withdraw(R) == Give(R, {}) /\ Fill(R, Zero)

-----------------------------------------------------------------------------
(* The tracker, core/mmap/mmap.cpp.                                        *)

\* Starts of free runs of n pages; find_free takes the lowest or any.
Fits(n) == {s \in Page : s + n <= NumPages /\ Vacant(entries, s, s + n)}
FindFree(n) ==
    {s \in Fits(n) : Aslr \/ \A q \in Fits(n) : s <= q}

Track(R, i)  == Insert(entries, R[1], R[2], i)
Untrack(R)   == Remove(entries, R[1], R[2])

\* Mutant: the piece is not clipped to R.
ReprotectUnclipped(E, R, prot) ==
    FoldSet(LAMBDA x, F : Insert(F, x.start, x.end, [x.val EXCEPT !.prot = prot]),
            E, Overlapping(E, R[1], R[2]))

\* AddrSpace::protect: each piece under R is inserted again with the new
\* protection; holes stay holes.
Reprotect(E, R, prot) ==
    FoldSet(LAMBDA x, F : Insert(F, Max({x.start, R[1]}), Min({x.end, R[2]}),
                                 [x.val EXCEPT !.prot = prot]),
            E, Overlapping(E, R[1], R[2]))

-----------------------------------------------------------------------------
(* Requests.  Executable is the path through the verifier; a _noverify     *)
(* request (nv) skips it.  W^X is refused either way, and so may the       *)
(* kernel refuse an mmap or an mprotect.                                   *)

Writable(prot)   == "w" \in prot
Executable(prot) == "x" \in prot
WX(prot)         == Writable(prot) /\ Executable(prot)
Checked(prot, nv) == Executable(prot) /\ ~nv
NvChoices        == IF Noverify THEN BOOLEAN ELSE {FALSE}

\* Ghost: who vouches for the executable pages of R.
Vouch(R, prot, nv) ==
    unchecked' = IF Executable(prot) /\ nv THEN unchecked \cup Pages(R)
                                           ELSE unchecked \ Pages(R)

Wait(kind, R, prot) ==
    op' = [kind |-> kind, range |-> R, prot |-> prot, verified |-> FALSE]

\* A mapping that fails after it was tracked: mmap_unmap with cbunmap.
GiveUp(R) ==
    /\ entries' = Untrack(R)
    /\ Withdraw(R)
    /\ unchecked' = unchecked \ Pages(R)
    /\ op' = Idle

\* mapverify, after the tracker has the range: map at once, or map readable
\* and wait for the verifier.
MapVerify(R, i, nv) ==
    /\ ~WX(i.prot)
    /\ entries' = Track(R, i)
    /\ Fill(R, i.src)
    /\ IF Checked(i.prot, nv)
       THEN /\ MarkRead(R)
            /\ unchecked' = unchecked \ Pages(R)
            /\ Wait("map", R, i.prot)
       ELSE /\ Give(R, i.prot)
            /\ Vouch(R, i.prot, nv)
            /\ op' = Idle

\* lfi_box_mapany and lfi_box_mapany_noverify.  A refused mapping was vacant
\* and ends withdrawn.
MapAny(n, i, nv) ==
    /\ op = Idle
    /\ \E s \in FindFree(n) : LET R == <<s, s + n>> IN MapVerify(R, i, nv) \/ GiveUp(R)

\* lfi_box_mapat: map_at first unmaps what the range held, so a refused
\* mapping leaves nothing there.
MapAt(R, i) ==
    /\ op = Idle
    /\ MapVerify(R, i, FALSE) \/ GiveUp(R)

\* lfi_box_mapat_register, called by the ELF loader for pages it has mapped
\* itself with protection i.prot and content t (ELF_NO_MAP).  The case that
\* the verifier rejects t is left out: the range is untracked again, stays
\* mapped, and the load fails, after which the caller frees the sandbox.
Register(R, i, t) ==
    /\ op = Idle
    /\ Vacant(entries, R[1], R[2])
    /\ ~WX(i.prot)
    /\ Executable(i.prot) => t \in Passing
    /\ entries' = Track(R, i)
    /\ Give(R, i.prot)
    /\ Fill(R, t)
    /\ unchecked' = unchecked \ Pages(R)
    /\ UNCHANGED op

\* box_mprotect_locked.  The tracker follows when the kernel agreed.  A request
\* that the kernel refuses is taken to change nothing: mprotect may stop after
\* the first part of the range, of which box.c:512-515 then tells the tracker
\* nothing.
Protect(R, prot, nv) ==
    /\ op = Idle
    /\ ~WX(prot)
    /\ UNCHANGED text
    /\ IF Checked(prot, nv)
       THEN /\ MarkRead(R)
            /\ unchecked' = unchecked \ Pages(R)
            /\ Wait("protect", R, prot)
            /\ UNCHANGED entries
       ELSE /\ Give(R, prot)
            /\ Vouch(R, prot, nv)
            /\ entries' = Reprotect(entries, R, prot)
            /\ UNCHANGED op

\* box_munmap_locked.
Munmap(R) ==
    /\ op = Idle
    /\ Withdraw(R)
    /\ entries' = Untrack(R)
    /\ unchecked' = unchecked \ Pages(R)
    /\ UNCHANGED op

-----------------------------------------------------------------------------
(* The rest of a request that waits for the verifier.                      *)

\* lfiv_verify accepts the range.
Verified ==
    /\ op # Idle
    /\ ~op.verified
    /\ \A p \in Pages(op.range) : text[p] \in Passing
    /\ op' = [op EXCEPT !.verified = TRUE]
    /\ UNCHANGED <<entries, host, text, unchecked>>

\* The final mprotect.
Commit ==
    /\ op # Idle
    /\ op.verified
    /\ Give(op.range, op.prot)
    /\ entries' = IF op.kind = "protect" THEN Reprotect(entries, op.range, op.prot)
                                         ELSE entries
    /\ op' = Idle
    /\ UNCHANGED <<text, unchecked>>

\* The verifier rejects the range, or the final mprotect fails.  A mapping is
\* given up; an mprotect returns and leaves the pages read-only.
Reject ==
    /\ op # Idle
    /\ op.verified \/ \E p \in Pages(op.range) : text[p] \notin Passing
    /\ \/ /\ op.kind = "map"
          /\ GiveUp(op.range)
       \/ /\ op.kind = "protect"
          /\ op' = Idle
          /\ UNCHANGED <<entries, host, text, unchecked>>

\* Sandbox code, or the embedder, stores into a writable page.
Store(p, t) ==
    /\ Writable(host[p])
    /\ text' = [text EXCEPT ![p] = t]
    /\ UNCHANGED <<entries, host, unchecked, op>>

Next ==
    \/ \E i \in Info :
        \/ \E n \in 1 .. NumPages, nv \in NvChoices : MapAny(n, i, nv)
        \/ \E R \in Ranges : MapAt(R, i)
        \/ \E R \in Ranges, t \in Text : Register(R, i, t)
    \/ \E R \in Ranges, prot \in Prots, nv \in NvChoices : Protect(R, prot, nv)
    \/ \E R \in Ranges : Munmap(R)
    \/ Verified \/ Commit \/ Reject
    \/ \E p \in Page, t \in Text : Store(p, t)

Spec == Init /\ [][Next]_vars

-----------------------------------------------------------------------------

\* Types of the variables of core/box.c and core/mmap.
TypeOK ==
    /\ entries \subseteq [start : Page, end : 1 .. NumPages, val : Info]
    /\ host \in [Page -> SUBSET {"r", "w", "x"}]
    /\ text \in [Page -> Text]
    /\ unchecked \subseteq Page
    /\ op = Idle \/ op \in [kind : {"map", "protect"}, range : Ranges,
                           prot : Prots, verified : BOOLEAN]

\* The tracker's entries (range_map.h) are non-empty and disjoint, and
\* neighbours with equal values are one entry, after every split and merge.
RangesSound ==
    /\ \A x \in entries : x.start < x.end
    /\ \A x, y \in entries : x # y => x.end <= y.start \/ y.end <= x.start
    /\ \A x, y \in entries : x.end = y.start => x.val # y.val

\* W^X with verification (protectverify, mapverify): no page is writable and
\* executable, and what is executable has passed the verifier in its present
\* content, unless a _noverify caller vouched for it, whatever other threads
\* store while a request is being verified.
ExecVerified ==
    \A p \in Page : Executable(host[p]) =>
        ~Writable(host[p]) /\ (text[p] \in Passing \/ p \in unchecked)

\* Rights follow the tracker: between requests the kernel gives a tracked
\* page no right beyond the recorded protection, except the read right that
\* an mprotect refused by the verifier leaves behind (box.c, protectverify).
NoStrayRights ==
    op = Idle => \A x \in entries : \A p \in x.start .. x.end - 1 :
                     host[p] \subseteq x.val.prot \cup {"r"}

\* mquery (lfi_core.h: "Returns true if the page is mapped ... or false if
\* the page is not mapped"): a page the sandbox can access is tracked.
QuerySound ==
    op = Idle => \A p \in Page : host[p] # {} => Find(entries, p) # {}

-----------------------------------------------------------------------------
(* The tracker implements a page table.                                    *)

Free == [kind |-> "free"]
Lookup(p) == IF Find(entries, p) = {} THEN Free
                                      ELSE (CHOOSE x \in Find(entries, p) : TRUE).val

Table == INSTANCE PageMap WITH table <- [p \in Page |-> Lookup(p)]

\* Every request changes the page table on one range, the way its caller
\* asked, whatever entries it splits or merges (mmap.cpp, range_map.h).
TableSpec == Table!Spec
=============================================================================
