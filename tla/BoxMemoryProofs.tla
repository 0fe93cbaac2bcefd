--------------------------- MODULE BoxMemoryProofs ---------------------------
(***************************************************************************)
(* Proofs about the memory of a sandbox, for any number of pages, any      *)
(* protections, contents and verifier.                                     *)
(*                                                                         *)
(* The tracker (core/mmap).  What a set of entries says of a page is       *)
(* Maps(E, p, v).  Lemmas on Remove, Coalesce, Insert and Reprotect say    *)
(* how each changes it, and that entries stay disjoint and merged (Sound). *)
(* Reprotect is a fold; its value over the pieces already inserted again   *)
(* is found by counting them (Pieces), with a least number for which it    *)
(* would be wrong.  From that: the tracker's entries are sound, the        *)
(* kernel's rights follow them, and every request is a step of a page      *)
(* table.                                                                  *)
(*                                                                         *)
(* Execution.  ExecVerified is not inductive: Commit makes pages           *)
(* executable on the strength of a verification that happened earlier,     *)
(* while other threads kept storing.  What carries it is that the pages of *)
(* a waiting request can be neither written nor executed.                  *)
(***************************************************************************)
EXTENDS BoxMemory, NaturalsInduction, WellFoundedInduction, FiniteSetTheorems, TLAPS

(* Entries, and what they say of a page.                                   *)

Tracked == [start : Page, end : 1 .. NumPages, val : Info]

Apart(E) == /\ \A x \in E : x.start < x.end
            /\ \A x, y \in E : x # y => x.end <= y.start \/ y.end <= x.start
Merged(E) == \A x, y \in E : x.end = y.start => x.val # y.val
Sound(E) == E \subseteq Tracked /\ Apart(E) /\ Merged(E)

Maps(E, p, v) == \E x \in E : x.start <= p /\ p < x.end /\ x.val = v

\* The numbers of pages.
LEMMA Bounds ==
    /\ NumPages \in Nat
    /\ \A p \in Page : p \in Int /\ 0 <= p /\ p < NumPages
    /\ \A e \in 1 .. NumPages : e \in Int /\ 0 < e /\ e <= NumPages
    /\ \A p \in Int : 0 <= p /\ p < NumPages => p \in Page
BY PagesAssumption DEF Page

\* The fields of an entry.
LEMMA EntryFields ==
    ASSUME NEW s, NEW e, NEW v
    PROVE  /\ Entry(s, e, v).start = s /\ Entry(s, e, v).end = e /\ Entry(s, e, v).val = v
           /\ s \in Page /\ e \in 1 .. NumPages /\ v \in Info => Entry(s, e, v) \in Tracked
BY DEF Entry, Tracked

\* Entries are their fields.
LEMMA SameEntry ==
    ASSUME NEW x \in Tracked, NEW y \in Tracked, x.start = y.start, x.end = y.end, x.val = y.val
    PROVE  x = y
BY DEF Tracked

\* The fields of an entry of the tracker.
LEMMA TrackedFields ==
    ASSUME NEW x \in Tracked
    PROVE  /\ x.start \in Page /\ x.end \in 1 .. NumPages /\ x.val \in Info
           /\ x.start \in Int /\ x.end \in Int
BY PagesAssumption DEF Tracked, Page

\* What Remove leaves comes from an entry that was there, and lies outside.
LEMMA Remains ==
    ASSUME NEW E \in SUBSET Tracked, Apart(E), NEW s \in Page, NEW e \in 1 .. NumPages, s < e,
           NEW z \in Remove(E, s, e)
    PROVE  /\ z \in Tracked /\ z.start < z.end /\ (z.end <= s \/ e <= z.start)
           /\ \E x \in E : /\ z.val = x.val
                           /\ z.start = x.start \/ (z.start = e /\ x.start < e)
                           /\ z.end = x.end \/ (z.end = s /\ s < x.end)
<1> DEFINE O == Overlapping(E, s, e)
<1>1. CASE z \in E \ O
  BY <1>1, TrackedFields, Bounds DEF Overlapping, Apart
<1>2. CASE z \in LeftStubs(O, s)
  <2>1. PICK x \in E : x.start < s /\ s < x.end /\ z = Entry(x.start, s, x.val)
    BY <1>2 DEF LeftStubs, Overlapping
  <2>2. s \in 1 .. NumPages
    BY <2>1, TrackedFields, Bounds
  <2> QED BY <2>1, <2>2, TrackedFields, EntryFields
<1>3. CASE z \in RightStubs(O, e)
  <2>1. PICK x \in E : x.start < e /\ e < x.end /\ z = Entry(e, x.end, x.val)
    BY <1>3 DEF RightStubs, Overlapping
  <2>2. e \in Page
    BY <2>1, TrackedFields, Bounds
  <2> QED BY <2>1, <2>2, TrackedFields, EntryFields
<1> QED BY <1>1, <1>2, <1>3 DEF Remove

\* And nothing else is lost.
LEMMA Survives ==
    ASSUME NEW E \in SUBSET Tracked, NEW s \in Page, NEW e \in 1 .. NumPages, s < e,
           NEW x \in E, NEW p \in Int, x.start <= p, p < x.end, p < s \/ e <= p
    PROVE  \E z \in Remove(E, s, e) : z.start <= p /\ p < z.end /\ z.val = x.val
<1> DEFINE O == Overlapping(E, s, e)
<1>0. x.start \in Int /\ x.end \in Int /\ s \in Int /\ e \in Int
  BY TrackedFields, Bounds
<1>1. CASE x \notin O
  BY <1>1 DEF Remove
<1>2. CASE x \in O /\ p < s
  <2>1. x.start < s
    BY <1>0, <1>2
  <2>2. Entry(x.start, s, x.val) \in Remove(E, s, e)
    BY <1>2, <2>1 DEF Remove, LeftStubs
  <2> QED BY <1>2, <2>2, EntryFields
<1>3. CASE x \in O /\ e <= p
  <2>1. e < x.end
    BY <1>0, <1>3
  <2>2. Entry(e, x.end, x.val) \in Remove(E, s, e)
    BY <1>3, <2>1 DEF Remove, RightStubs
  <2> QED BY <1>3, <2>2, EntryFields
<1> QED BY <1>1, <1>2, <1>3

\* Remove (range_map.h) frees the pages of [s, e) and no other.
LEMMA Removed ==
    ASSUME NEW E, Sound(E), NEW s \in Page, NEW e \in 1 .. NumPages, s < e
    PROVE  /\ Sound(Remove(E, s, e))
           /\ Vacant(Remove(E, s, e), s, e)
           /\ \A p \in Int : \A v :
                  Maps(Remove(E, s, e), p, v) <=> Maps(E, p, v) /\ (p < s \/ e <= p)
<1> DEFINE F == Remove(E, s, e)
           From(z, x) == /\ z.val = x.val
                         /\ z.start = x.start \/ (z.start = e /\ x.start < e)
                         /\ z.end = x.end \/ (z.end = s /\ s < x.end)
<1>0. E \in SUBSET Tracked /\ Apart(E) /\ Merged(E) /\ s \in Int /\ e \in Int
  BY Bounds DEF Sound
<1>1. \A z \in F : /\ z \in Tracked /\ z.start < z.end /\ (z.end <= s \/ e <= z.start)
                   /\ z.start \in Int /\ z.end \in Int
                   /\ \E x \in E : From(z, x)
  BY <1>0, Remains, TrackedFields
<1>2. \A x \in E : x.start \in Int /\ x.end \in Int /\ x.start < x.end
  BY <1>0, TrackedFields DEF Apart
<1> HIDE DEF F
<1>3. Apart(F)
  <2>1. ASSUME NEW y \in F, NEW z \in F, y # z
        PROVE  y.end <= z.start \/ z.end <= y.start
    <3>1. PICK x \in E : From(y, x)
      BY <1>1
    <3>2. PICK w \in E : From(z, w)
      BY <1>1
    <3>3. CASE x # w
      <4>1. x.end <= w.start \/ w.end <= x.start
        BY <1>0, <3>3 DEF Apart
      <4> QED BY <1>0, <1>1, <1>2, <3>1, <3>2, <4>1
    <3>4. CASE x = w
      <4>1. y.start # z.start \/ y.end # z.end
        BY <1>1, <2>1, <3>1, <3>2, <3>4, SameEntry
      <4> QED BY <1>0, <1>1, <1>2, <3>1, <3>2, <3>4, <4>1
    <3> QED BY <3>3, <3>4
  <2> QED BY <1>1, <2>1 DEF Apart
<1>4. Merged(F)
  <2>1. ASSUME NEW y \in F, NEW z \in F, y.end = z.start
        PROVE  y.val # z.val
    <3>1. PICK x \in E : From(y, x)
      BY <1>1
    <3>2. PICK w \in E : From(z, w)
      BY <1>1
    <3>3. x.end = w.start
      BY <1>0, <1>1, <1>2, <2>1, <3>1, <3>2
    <3> QED BY <1>0, <3>1, <3>2, <3>3 DEF Merged
  <2> QED BY <2>1 DEF Merged
<1>5. Vacant(F, s, e)
  BY <1>0, <1>1 DEF Vacant, Overlapping
<1>6. ASSUME NEW p \in Int, NEW v
      PROVE  Maps(F, p, v) <=> Maps(E, p, v) /\ (p < s \/ e <= p)
  <2>1. ASSUME Maps(F, p, v)
        PROVE  Maps(E, p, v) /\ (p < s \/ e <= p)
    <3>1. PICK z \in F : z.start <= p /\ p < z.end /\ z.val = v
      BY <2>1 DEF Maps
    <3>2. PICK x \in E : From(z, x)
      BY <1>1
    <3>3. x.start <= p /\ p < x.end /\ x.val = v /\ (p < s \/ e <= p)
      BY <1>0, <1>1, <1>2, <3>1, <3>2
    <3> QED BY <3>3 DEF Maps
  <2>2. ASSUME Maps(E, p, v), p < s \/ e <= p
        PROVE  Maps(F, p, v)
    <3>1. PICK x \in E : x.start <= p /\ p < x.end /\ x.val = v
      BY <2>2 DEF Maps
    <3> QED BY <1>0, <2>2, <3>1, Survives DEF Maps, F
  <2> QED BY <2>1, <2>2
<1> QED BY <1>1, <1>3, <1>4, <1>5, <1>6 DEF Sound, F

-----------------------------------------------------------------------------
(* Coalesce and Insert.                                                    *)

\* The least of a set of numbers.
LEMMA MinIs ==
    ASSUME NEW S, S \subseteq Int, NEW m \in S, \A x \in S : m <= x
    PROVE  Min(S) = m
<1>1. \A y \in S : m <= y
  BY SMT
<1>2. \A x \in S : (\A y \in S : x <= y) => x = m
  BY <1>1, SMT
<1> QED BY <1>1, <1>2, Zenon DEF Min

\* The greatest of a set of numbers.
LEMMA MaxIs ==
    ASSUME NEW S, S \subseteq Int, NEW m \in S, \A x \in S : x <= m
    PROVE  Max(S) = m
<1>1. \A y \in S : m >= y
  BY SMT
<1>2. \A x \in S : (\A y \in S : x >= y) => x = m
  BY <1>1, SMT
<1> QED BY <1>1, <1>2, Zenon DEF Max

\* Where an entry of value v over [s, e) begins and ends once it is merged.
Begins(E, s, v, a) ==
    \/ a = s /\ \A y \in E : y.val = v => y.end # s
    \/ \E l \in E : l.val = v /\ l.end = s /\ l.start = a
Ends(E, e, v, b) ==
    \/ b = e /\ \A y \in E : y.val = v => y.start # e
    \/ \E r \in E : r.val = v /\ r.start = e /\ r.end = b

Near(E, s, e, v) == {y \in E : y.val = v /\ (y.end = s \/ y.start = e)}

\* What Coalesce takes for the bounds of a merged entry are those.
LEMMA Extent ==
    ASSUME NEW E, Sound(E), NEW s \in Page, NEW e \in 1 .. NumPages, s < e, NEW v
    PROVE  /\ Begins(E, s, v, Min({s} \cup {y.start : y \in Near(E, s, e, v)}))
           /\ Ends(E, e, v, Max({e} \cup {y.end : y \in Near(E, s, e, v)}))
<1> DEFINE near == Near(E, s, e, v)
           Lo == {s} \cup {y.start : y \in near}
           Hi == {e} \cup {y.end : y \in near}
<1>0. /\ s \in Int /\ e \in Int
      /\ \A y \in E : y.start \in Int /\ y.end \in Int /\ y.start < y.end
      /\ \A x, y \in E : x # y => x.end <= y.start \/ y.end <= x.start
  BY TrackedFields, Bounds DEF Sound, Apart
<1>a. near = {y \in E : y.val = v /\ (y.end = s \/ y.start = e)}
  BY DEF Near
<1> HIDE DEF near
<1>1. Lo \subseteq Int /\ Hi \subseteq Int /\ s \in Lo /\ e \in Hi
  BY <1>0, <1>a
<1>2. Begins(E, s, v, Min(Lo))
  <2>1. CASE \E l \in E : l.val = v /\ l.end = s
    <3>1. PICK l \in E : l.val = v /\ l.end = s
      BY <2>1
    <3>2. l.start \in Lo
      BY <1>a, <3>1
    <3>3. \A y \in near : l.start <= y.start
      BY <1>0, <1>a, <3>1
    <3>4. \A x \in Lo : l.start <= x
      BY <1>0, <3>1, <3>3
    <3>5. Min(Lo) = l.start
      BY <1>1, <3>2, <3>4, MinIs
    <3> QED BY <3>1, <3>5 DEF Begins
  <2>2. CASE \A l \in E : l.val = v => l.end # s
    <3>1. \A x \in Lo : s <= x
      BY <1>0, <1>a, <2>2
    <3>2. Min(Lo) = s
      BY <1>1, <3>1, MinIs
    <3> QED BY <2>2, <3>2 DEF Begins
  <2> QED BY <2>1, <2>2
<1>3. Ends(E, e, v, Max(Hi))
  <2>1. CASE \E r \in E : r.val = v /\ r.start = e
    <3>1. PICK r \in E : r.val = v /\ r.start = e
      BY <2>1
    <3>2. r.end \in Hi
      BY <1>a, <3>1
    <3>3. \A y \in near : y.end <= r.end
      BY <1>0, <1>a, <3>1
    <3>4. \A x \in Hi : x <= r.end
      BY <1>0, <3>1, <3>3
    <3>5. Max(Hi) = r.end
      BY <1>1, <3>2, <3>4, MaxIs
    <3> QED BY <3>1, <3>5 DEF Ends
  <2>2. CASE \A r \in E : r.val = v => r.start # e
    <3>1. \A x \in Hi : x <= e
      BY <1>0, <1>a, <2>2
    <3>2. Max(Hi) = e
      BY <1>1, <3>1, MaxIs
    <3> QED BY <2>2, <3>2 DEF Ends
  <2> QED BY <2>1, <2>2
<1> QED BY <1>2, <1>3 DEF near

\* Coalesce (range_map.h) adds [s, e) with its value, and leaves no two equal
\* neighbours.
LEMMA Merges ==
    ASSUME NEW E, Sound(E), NEW s \in Page, NEW e \in 1 .. NumPages, s < e, Vacant(E, s, e),
           NEW v \in Info
    PROVE  /\ Sound(Coalesce(E, Entry(s, e, v)))
           /\ \A p \in Int : \A w : Maps(Coalesce(E, Entry(s, e, v)), p, w)
                                   <=> Maps(E, p, w) \/ (s <= p /\ p < e /\ w = v)
<1> DEFINE near == {y \in E : y.val = v /\ (y.end = s \/ y.start = e)}
           N == Coalesce(E, Entry(s, e, v))
<1>0. /\ s \in Int /\ e \in Int
      /\ \A y \in E : /\ y \in Tracked /\ y.start \in Int /\ y.end \in Int /\ y.start < y.end
                      /\ y.start \in Page /\ y.end \in 1 .. NumPages
      /\ \A x, y \in E : x # y => x.end <= y.start \/ y.end <= x.start
      /\ \A x, y \in E : x.end = y.start => x.val # y.val
      /\ \A y \in E : y.end <= s \/ e <= y.start
  BY TrackedFields, Bounds DEF Sound, Apart, Merged, Vacant, Overlapping
<1>1. PICK a, b : /\ N = (E \ near) \cup {Entry(a, b, v)}
                  /\ Begins(E, s, v, a) /\ Ends(E, e, v, b)
  <2> DEFINE x == Entry(s, e, v)
             close == {y \in E : y.val = x.val /\ (y.end = x.start \/ y.start = x.end)}
  <2>1. x.start = s /\ x.end = e /\ x.val = v
    BY EntryFields
  <2> HIDE DEF x
  <2>2. close = near
    BY <2>1
  <2>3. N = (E \ close) \cup {Entry(Min({x.start} \cup {y.start : y \in close}),
                                   Max({x.end} \cup {y.end : y \in close}), x.val)}
    BY DEF Coalesce, x
  <2> HIDE DEF close, near, N
  <2>4. N = (E \ near) \cup {Entry(Min({s} \cup {y.start : y \in near}),
                                  Max({e} \cup {y.end : y \in near}), v)}
    BY <2>1, <2>2, <2>3
  <2>6. near = Near(E, s, e, v)
    BY DEF near, Near
  <2>5. /\ Begins(E, s, v, Min({s} \cup {y.start : y \in near}))
        /\ Ends(E, e, v, Max({e} \cup {y.end : y \in near}))
    BY Extent, <2>6
  <2> QED BY <2>4, <2>5
<1> DEFINE n == Entry(a, b, v)
<1>2. a \in Page /\ b \in 1 .. NumPages /\ a \in Int /\ b \in Int /\ a <= s /\ e <= b /\ a < b
  BY <1>0, <1>1 DEF Begins, Ends
<1>3. n \in Tracked /\ n.start = a /\ n.end = b /\ n.val = v
  BY <1>2, EntryFields
<1> HIDE DEF n
<1>4. \A y \in E \ near : y.end <= a \/ b <= y.start
  <2> SUFFICES ASSUME NEW y \in E, y \notin near PROVE y.end <= a \/ b <= y.start
    OBVIOUS
  <2>1. CASE y.end <= s
    BY <1>0, <1>1, <1>2, <2>1 DEF Begins
  <2>2. CASE e <= y.start
    BY <1>0, <1>1, <1>2, <2>2 DEF Ends
  <2> QED BY <1>0, <2>1, <2>2
<1>5. \A y \in E : (y.end = a => y.val # v) /\ (y.start = b => y.val # v)
  BY <1>0, <1>1, <1>2 DEF Begins, Ends
<1>6. Apart(N)
  BY <1>0, <1>1, <1>2, <1>3, <1>4 DEF Apart, n
<1>7. Merged(N)
  BY <1>0, <1>1, <1>2, <1>3, <1>5 DEF Merged, n
<1>8. ASSUME NEW p \in Int, NEW w
      PROVE  Maps(N, p, w) <=> Maps(E, p, w) \/ (s <= p /\ p < e /\ w = v)
  <2>1. ASSUME Maps(N, p, w)
        PROVE  Maps(E, p, w) \/ (s <= p /\ p < e /\ w = v)
    <3>1. PICK x \in N : x.start <= p /\ p < x.end /\ x.val = w
      BY <2>1 DEF Maps
    <3>2. CASE x \in E
      BY <3>1, <3>2 DEF Maps
    <3>3. CASE x = n
      <4>1. a <= p /\ p < b /\ w = v
        BY <1>3, <3>1, <3>3
      <4>2. CASE p < s
        <5>1. PICK l \in E : l.val = v /\ l.end = s /\ l.start = a
          BY <1>0, <1>1, <1>2, <4>1, <4>2 DEF Begins
        <5> QED BY <4>1, <4>2, <5>1 DEF Maps
      <4>3. CASE e <= p
        <5>1. PICK r \in E : r.val = v /\ r.start = e /\ r.end = b
          BY <1>0, <1>1, <1>2, <4>1, <4>3 DEF Ends
        <5> QED BY <4>1, <4>3, <5>1 DEF Maps
      <4> QED BY <1>0, <4>1, <4>2, <4>3
    <3> QED BY <1>1, <3>2, <3>3 DEF n
  <2>2. ASSUME Maps(E, p, w) PROVE Maps(N, p, w)
    <3>1. PICK x \in E : x.start <= p /\ p < x.end /\ x.val = w
      BY <2>2 DEF Maps
    <3>2. CASE x \in near
      <4>1. a <= x.start /\ x.end <= b
        BY <1>0, <1>1, <1>2, <3>2 DEF Begins, Ends
      <4>2. n.start <= p /\ p < n.end /\ n.val = w
        BY <1>0, <1>2, <1>3, <3>1, <3>2, <4>1
      <4> QED BY <1>1, <4>2 DEF Maps, n
    <3>3. CASE x \notin near
      <4>1. x \in N
        BY <1>1, <3>3
      <4> QED BY <3>1, <4>1 DEF Maps
    <3> QED BY <3>2, <3>3
  <2>3. ASSUME s <= p, p < e, w = v PROVE Maps(N, p, w)
    <3>1. n.start <= p /\ p < n.end /\ n.val = w
      BY <1>0, <1>2, <1>3, <2>3
    <3> QED BY <1>1, <3>1 DEF Maps, n
  <2> QED BY <2>1, <2>2, <2>3
<1>9. N \subseteq Tracked
  BY <1>0, <1>1, <1>3 DEF n
<1> QED BY <1>6, <1>7, <1>8, <1>9 DEF Sound

\* Insert (range_map.h): [s, e) has the new value, every other page its old one.
LEMMA Inserted ==
    ASSUME NEW E, Sound(E), NEW s \in Page, NEW e \in 1 .. NumPages, s < e, NEW v \in Info
    PROVE  /\ Sound(Insert(E, s, e, v))
           /\ \A p \in Int : \A w : Maps(Insert(E, s, e, v), p, w)
                 <=> \/ s <= p /\ p < e /\ w = v
                     \/ Maps(E, p, w) /\ (p < s \/ e <= p)
<1>1. Sound(Remove(E, s, e)) /\ Vacant(Remove(E, s, e), s, e)
  BY Removed
<1>2. \A p \in Int : \A w : Maps(Remove(E, s, e), p, w) <=> Maps(E, p, w) /\ (p < s \/ e <= p)
  BY Removed
<1>3. /\ Sound(Coalesce(Remove(E, s, e), Entry(s, e, v)))
      /\ \A p \in Int : \A w : Maps(Coalesce(Remove(E, s, e), Entry(s, e, v)), p, w)
                                <=> Maps(Remove(E, s, e), p, w) \/ (s <= p /\ p < e /\ w = v)
  BY <1>1, Merges
<1> QED BY <1>2, <1>3 DEF Insert

-----------------------------------------------------------------------------
(* Reprotect.                                                              *)

\* Reprotect as the recursion it is.
Piece(x, F, R, prot) ==
    Insert(F, Max({x.start, R[1]}), Min({x.end, R[2]}), [x.val EXCEPT !.prot = prot])
Chosen(s) == CHOOSE x \in s : TRUE
Follows(f, D, E, R, prot) ==
    f = [s \in D |-> IF s = {} THEN E ELSE Piece(Chosen(s), f[s \ {Chosen(s)}], R, prot)]

\* Reprotect is the value of that recursion on all the entries it visits.
LEMMA Unfold ==
    ASSUME NEW E, NEW R, NEW prot
    PROVE  LET O == Overlapping(E, R[1], R[2]) IN
           Reprotect(E, R, prot) = (CHOOSE f : Follows(f, SUBSET O, E, R, prot))[O]
BY DEF Reprotect, FoldSet, MapThenFoldSet, Follows, Chosen, Piece

\* A set of numbers has a least one.
LEMMA LeastIn ==
    ASSUME NEW S \in SUBSET Nat, S # {}
    PROVE  \E n \in S : \A m \in Nat : m < n => m \notin S
<1> DEFINE R == OpToRel(<, Nat)
<1>1. IsWellFoundedOn(R, Nat)
  BY NatLessThanWellFounded
<1>2. \A u, s \in Nat : u < s => <<u, s>> \in R
  BY DEF OpToRel
<1> HIDE DEF R
<1>3. PICK s \in S : \A u \in S : ~ (<<u, s>> \in R)
  BY <1>1, WFMin
<1> QED BY <1>2, <1>3

\* Taking one element away leaves a smaller set.
LEMMA OneLess ==
    ASSUME NEW s, IsFiniteSet(s), s # {}
    PROVE  /\ Chosen(s) \in s
           /\ IsFiniteSet(s \ {Chosen(s)})
           /\ Cardinality(s) \in Nat /\ Cardinality(s \ {Chosen(s)}) = Cardinality(s) - 1
           /\ Cardinality(s) # 0
<1>1. Chosen(s) \in s
  BY DEF Chosen
<1> HIDE DEF Chosen
<1> QED BY <1>1, FS_RemoveElement, FS_CardinalityType, FS_EmptySet

\* The recursion over the subsets of a finite set has a solution.
LEMMA Solvable ==
    ASSUME NEW O, IsFiniteSet(O), NEW E, NEW R, NEW prot
    PROVE  \E f : Follows(f, SUBSET O, E, R, prot)
<1> DEFINE D(n) == {s \in SUBSET O : Cardinality(s) <= n}
           Bad == {n \in Nat : ~ \E f : Follows(f, D(n), E, R, prot)}
<1>1. \A s \in SUBSET O :
         IsFiniteSet(s) /\ Cardinality(s) \in Nat /\ Cardinality(s) <= Cardinality(O)
  BY FS_Subset, FS_CardinalityType
<1>2. ASSUME Bad # {}
      PROVE  FALSE
  <2>1. PICK n \in Bad : \A m \in Nat : m < n => m \notin Bad
    <3>1. Bad \in SUBSET Nat
      OBVIOUS
    <3> HIDE DEF Bad
    <3> QED BY <1>2, <3>1, LeastIn
  <2>2. n \in Nat /\ ~ \E f : Follows(f, D(n), E, R, prot)
    OBVIOUS
  <2>3. CASE n = 0
    <3>1. \A s \in D(n) : s = {}
      BY <1>1, <2>3, FS_EmptySet
    <3> DEFINE f == [s \in D(n) |-> E]
    <3>2. Follows(f, D(n), E, R, prot)
      BY <3>1 DEF Follows
    <3> QED BY <2>2, <3>2
  <2>4. CASE n # 0
    <3>1. n - 1 \in Nat /\ n - 1 < n
      BY <2>2, <2>4
    <3>2. n - 1 \notin Bad
      BY <2>1, <3>1
    <3>3. PICK f : Follows(f, D(n - 1), E, R, prot)
      BY <3>1, <3>2
    <3> DEFINE g == [s \in D(n) |-> IF s = {} THEN E
                                    ELSE Piece(Chosen(s), f[s \ {Chosen(s)}], R, prot)]
    <3>4. \A s \in D(n) : s # {} => s \ {Chosen(s)} \in D(n - 1) /\ s \ {Chosen(s)} \in D(n)
      <4> SUFFICES ASSUME NEW s \in D(n), s # {}
                   PROVE  s \ {Chosen(s)} \in D(n - 1) /\ s \ {Chosen(s)} \in D(n)
        OBVIOUS
      <4>1. Cardinality(s \ {Chosen(s)}) = Cardinality(s) - 1 /\ Cardinality(s) \in Nat
        BY <1>1, OneLess
      <4>2. s \ {Chosen(s)} \in SUBSET O
        OBVIOUS
      <4>3. Cardinality(s) - 1 <= n - 1 /\ Cardinality(s) - 1 <= n
        BY <2>2, <4>1
      <4> QED BY <4>1, <4>2, <4>3
    <3>5. \A s \in D(n - 1) : s \in D(n)
      BY <1>1, <2>2
    <3>6. \A s \in D(n - 1) : f[s] = g[s]
      BY <3>3, <3>5 DEF Follows
    <3>7. \A s \in D(n) : s # {} => f[s \ {Chosen(s)}] = g[s \ {Chosen(s)}]
      BY <3>4, <3>6
    <3>8. \A s \in D(n) : g[s] = IF s = {} THEN E
                                 ELSE Piece(Chosen(s), g[s \ {Chosen(s)}], R, prot)
      BY <3>7
    <3>9. g = [s \in D(n) |-> IF s = {} THEN E
                              ELSE Piece(Chosen(s), g[s \ {Chosen(s)}], R, prot)]
      <4> DEFINE h == [s \in D(n) |-> IF s = {} THEN E
                                      ELSE Piece(Chosen(s), g[s \ {Chosen(s)}], R, prot)]
      <4>1. DOMAIN g = D(n) /\ DOMAIN h = D(n) /\ \A s \in D(n) : g[s] = h[s]
        BY <3>8
      <4> QED BY <3>7
    <3> QED BY <2>2, <3>9 DEF Follows
  <2> QED BY <2>3, <2>4
<1>3. Cardinality(O) \in Nat /\ Cardinality(O) \notin Bad
  BY <1>2, FS_CardinalityType
<1>4. D(Cardinality(O)) = SUBSET O
  BY <1>1
<1> QED BY <1>3, <1>4

\* An entry has a place of its own to begin at, so there are finitely many.
LEMMA FinitelyMany ==
    ASSUME NEW E, Sound(E)
    PROVE  IsFiniteSet(E)
<1> DEFINE f == [x \in E |-> x.start]
<1>1. \A x \in E : x.start \in Page /\ x.start \in Int /\ x.end \in Int /\ x.start < x.end
  BY TrackedFields DEF Sound, Apart
<1>2. \A x, y \in E : x.start = y.start => x = y
  BY <1>1 DEF Sound, Apart
<1>3. f \in Injection(E, Page)
  <2>1. f \in [E -> Page] /\ \A x, y \in E : f[x] = f[y] => x = y
    BY <1>1, <1>2
  <2> QED BY <2>1 DEF Injection, IsInjective
<1>4. IsFiniteSet(Page)
  BY PagesAssumption, FS_Interval DEF Page
<1> HIDE DEF f
<1> QED BY <1>3, <1>4, FS_Injection

\* The part of an entry within R, and the value it gets.
From(x, R) == Max({x.start, R[1]})
To(x, R)   == Min({x.end, R[2]})
Covers(x, R, p) == From(x, R) <= p /\ p < To(x, R)
With(v, prot) == [v EXCEPT !.prot = prot]

\* A visited entry meets R in a range that is not empty.
LEMMA Clipped ==
    ASSUME NEW R \in Ranges, NEW x \in Tracked, x.start < R[2], R[1] < x.end, x.start < x.end
    PROVE  /\ From(x, R) \in Page /\ To(x, R) \in 1 .. NumPages /\ From(x, R) < To(x, R)
           /\ \A p \in Int : Covers(x, R, p) <=> /\ x.start <= p /\ p < x.end
                                                 /\ R[1] <= p /\ p < R[2]
<1>0. /\ x.start \in Page /\ x.end \in 1 .. NumPages /\ x.start \in Int /\ x.end \in Int
      /\ R[1] \in Page /\ R[2] \in 1 .. NumPages /\ R[1] < R[2] /\ R[1] \in Int /\ R[2] \in Int
  BY TrackedFields, Bounds DEF Ranges
<1>1. From(x, R) = IF x.start <= R[1] THEN R[1] ELSE x.start
  <2> DEFINE S == {x.start, R[1]}
  <2>0. S \subseteq Int
    BY <1>0
  <2>1. CASE x.start <= R[1]
    <3>1. R[1] \in S /\ \A y \in S : y <= R[1]
      BY <1>0, <2>1
    <3>2. Max(S) = R[1]
      BY <2>0, <3>1, MaxIs
    <3> QED BY <2>1, <3>2 DEF From
  <2>2. CASE ~(x.start <= R[1])
    <3>1. x.start \in S /\ \A y \in S : y <= x.start
      BY <1>0, <2>2
    <3>2. Max(S) = x.start
      BY <2>0, <3>1, MaxIs
    <3> QED BY <2>2, <3>2 DEF From
  <2> QED BY <2>1, <2>2
<1>2. To(x, R) = IF x.end <= R[2] THEN x.end ELSE R[2]
  <2> DEFINE S == {x.end, R[2]}
  <2>0. S \subseteq Int
    BY <1>0
  <2>1. CASE x.end <= R[2]
    <3>1. x.end \in S /\ \A y \in S : x.end <= y
      BY <1>0, <2>1
    <3>2. Min(S) = x.end
      BY <2>0, <3>1, MinIs
    <3> QED BY <2>1, <3>2 DEF To
  <2>2. CASE ~(x.end <= R[2])
    <3>1. R[2] \in S /\ \A y \in S : R[2] <= y
      BY <1>0, <2>2
    <3>2. Min(S) = R[2]
      BY <2>0, <3>1, MinIs
    <3> QED BY <2>2, <3>2 DEF To
  <2> QED BY <2>1, <2>2
<1> QED BY <1>0, <1>1, <1>2 DEF Covers

\* What the entries are once those in s have been inserted again.
Pieces(F, E, s, R, prot) ==
    /\ Sound(F)
    /\ \A p \in Int : \A w :
           Maps(F, p, w) <=> \/ \E x \in s : Covers(x, R, p) /\ w = With(x.val, prot)
                             \/ (\A x \in s : ~Covers(x, R, p)) /\ Maps(E, p, w)

\* One more piece inserted again, AddrSpace::protect.
LEMMA OnePiece ==
    ASSUME NEW E, Sound(E), NEW R \in Ranges, NEW prot \in Prots,
           NEW s \in SUBSET Overlapping(E, R[1], R[2]), NEW x \in s,
           NEW F, Pieces(F, E, s \ {x}, R, prot)
    PROVE  Pieces(Piece(x, F, R, prot), E, s, R, prot)
<1> DEFINE N == Piece(x, F, R, prot)
           t == s \ {x}
<1>1. /\ x \in E /\ x \in Tracked /\ x.start < R[2] /\ R[1] < x.end /\ x.start < x.end
      /\ \A y \in s : y \in E /\ y \in Tracked /\ y.start < R[2] /\ R[1] < y.end /\ y.start < y.end
  BY DEF Overlapping, Sound, Apart
<1>2. /\ From(x, R) \in Page /\ To(x, R) \in 1 .. NumPages /\ From(x, R) < To(x, R)
      /\ From(x, R) \in Int /\ To(x, R) \in Int
  BY <1>1, Clipped, Bounds
<1>3. With(x.val, prot) \in Info
  BY <1>1, TrackedFields DEF With, Info
<1>4. N = Insert(F, From(x, R), To(x, R), With(x.val, prot))
  BY DEF Piece, From, To, With
<1>5. /\ Sound(N)
      /\ \A p \in Int : \A w : Maps(N, p, w)
            <=> \/ Covers(x, R, p) /\ w = With(x.val, prot)
                \/ Maps(F, p, w) /\ ~Covers(x, R, p)
  <2>1. Sound(F)
    BY DEF Pieces
  <2>2. /\ Sound(N)
        /\ \A p \in Int : \A w : Maps(N, p, w)
             <=> \/ From(x, R) <= p /\ p < To(x, R) /\ w = With(x.val, prot)
                 \/ Maps(F, p, w) /\ (p < From(x, R) \/ To(x, R) <= p)
    BY <1>2, <1>3, <1>4, <2>1, Inserted
  <2> QED BY <1>2, <2>2 DEF Covers
<1>6. \A y \in t, p \in Int : Covers(y, R, p) => ~Covers(x, R, p)
  <2> SUFFICES ASSUME NEW y \in t, NEW p \in Int, Covers(y, R, p), Covers(x, R, p) PROVE FALSE
    OBVIOUS
  <2>1. x.start <= p /\ p < x.end /\ y.start <= p /\ p < y.end
    BY <1>1, Clipped
  <2>2. x.end <= y.start \/ y.end <= x.start
    BY <1>1 DEF Sound, Apart
  <2> QED BY <1>1, <2>1, <2>2, TrackedFields
<1> HIDE DEF N
<1>7. \A p \in Int : \A w :
         Maps(F, p, w) <=> \/ \E y \in t : Covers(y, R, p) /\ w = With(y.val, prot)
                           \/ (\A y \in t : ~Covers(y, R, p)) /\ Maps(E, p, w)
  BY DEF Pieces
<1>8. ASSUME NEW p \in Int, NEW w
      PROVE  Maps(N, p, w) <=> \/ \E y \in s : Covers(y, R, p) /\ w = With(y.val, prot)
                               \/ (\A y \in s : ~Covers(y, R, p)) /\ Maps(E, p, w)
  <2>1. CASE Covers(x, R, p)
    <3>1. \A y \in s : Covers(y, R, p) => y = x
      BY <1>6, <2>1
    <3> QED BY <1>5, <2>1, <3>1
  <2>2. CASE ~Covers(x, R, p)
    <3>1. Maps(N, p, w) <=> Maps(F, p, w)
      BY <1>5, <2>2
    <3>2. (\E y \in s : Covers(y, R, p) /\ w = With(y.val, prot))
            <=> (\E y \in t : Covers(y, R, p) /\ w = With(y.val, prot))
      BY <2>2
    <3>3. (\A y \in s : ~Covers(y, R, p)) <=> (\A y \in t : ~Covers(y, R, p))
      BY <2>2
    <3> QED BY <1>7, <3>1, <3>2, <3>3
  <2> QED BY <2>1, <2>2
<1> QED BY <1>5, <1>8 DEF Pieces, N

\* AddrSpace::protect gives the tracked pages of R the new protection, and
\* changes nothing else.
LEMMA Reprotected ==
    ASSUME NEW E, Sound(E), NEW R \in Ranges, NEW prot \in Prots
    PROVE  /\ Sound(Reprotect(E, R, prot))
           /\ \A p \in Int : \A w : Maps(Reprotect(E, R, prot), p, w)
                 <=> \/ R[1] <= p /\ p < R[2] /\ \E v \in Info : Maps(E, p, v) /\ w = With(v, prot)
                     \/ ~(R[1] <= p /\ p < R[2]) /\ Maps(E, p, w)
<1> DEFINE O == Overlapping(E, R[1], R[2])
<1>1. IsFiniteSet(O)
  BY FinitelyMany, FS_Subset DEF Overlapping
<1>2. PICK f : Follows(f, SUBSET O, E, R, prot) /\ Reprotect(E, R, prot) = f[O]
  <2>1. \E f : Follows(f, SUBSET O, E, R, prot)
    BY <1>1, Solvable
  <2>2. Reprotect(E, R, prot) = (CHOOSE f : Follows(f, SUBSET O, E, R, prot))[O]
    BY Unfold
  <2> QED BY <2>1, <2>2
<1>3. /\ f[{}] = E
      /\ \A s \in SUBSET O : s # {} => f[s] = Piece(Chosen(s), f[s \ {Chosen(s)}], R, prot)
  BY <1>2 DEF Follows
<1>4. \A s \in SUBSET O : IsFiniteSet(s) /\ Cardinality(s) \in Nat
  BY <1>1, FS_Subset, FS_CardinalityType
<1> DEFINE Bad == {n \in Nat : \E s \in SUBSET O :
                             Cardinality(s) = n /\ ~Pieces(f[s], E, s, R, prot)}
<1>5. ASSUME Bad # {}
      PROVE  FALSE
  <2>1. PICK n \in Bad : \A m \in Nat : m < n => m \notin Bad
    <3>1. Bad \in SUBSET Nat
      OBVIOUS
    <3> HIDE DEF Bad
    <3> QED BY <1>5, <3>1, LeastIn
  <2>2. PICK s \in SUBSET O : Cardinality(s) = n /\ ~Pieces(f[s], E, s, R, prot)
    BY <2>1
  <2>3. CASE s = {}
    BY <1>3, <2>2, <2>3 DEF Pieces
  <2>4. CASE s # {}
    <3> DEFINE x == Chosen(s)
               t == s \ {x}
    <3>1. x \in s /\ t \in SUBSET O /\ Cardinality(t) \in Nat /\ Cardinality(t) < n
      BY <1>4, <2>2, <2>4, OneLess
    <3>2. Pieces(f[t], E, t, R, prot)
      BY <2>1, <3>1
    <3>3. f[s] = Piece(x, f[t], R, prot)
      BY <1>3, <2>4
    <3> HIDE DEF x
    <3>4. Pieces(Piece(x, f[t], R, prot), E, s, R, prot)
      BY <3>1, <3>2, OnePiece
    <3> QED BY <2>2, <3>3, <3>4
  <2> QED BY <2>3, <2>4
<1>6. Pieces(f[O], E, O, R, prot)
  BY <1>4, <1>5
<1>7. ASSUME NEW p \in Int
      PROVE  /\ ~(R[1] <= p /\ p < R[2]) => \A x \in O : ~Covers(x, R, p)
             /\ R[1] <= p /\ p < R[2] =>
                    \A x \in E : x \in O /\ Covers(x, R, p) <=> x.start <= p /\ p < x.end
  <2>1. /\ R[1] \in Int /\ R[2] \in Int
        /\ \A x \in E : x \in Tracked /\ x.start < x.end /\ x.start \in Int /\ x.end \in Int
    BY Bounds, TrackedFields DEF Ranges, Sound, Apart
  <2>2. \A x \in O : Covers(x, R, p) <=> x.start <= p /\ p < x.end /\ R[1] <= p /\ p < R[2]
    BY <2>1, Clipped DEF Overlapping
  <2>3. \A x \in E : x.start <= p /\ p < x.end /\ R[1] <= p /\ p < R[2] => x \in O
    BY <2>1 DEF Overlapping
  <2> QED BY <2>2, <2>3
<1>8. ASSUME NEW p \in Int, NEW w, R[1] <= p, p < R[2]
      PROVE  Maps(f[O], p, w) <=> \E v \in Info : Maps(E, p, v) /\ w = With(v, prot)
  <2>1. (\E x \in O : Covers(x, R, p) /\ w = With(x.val, prot))
          <=> \E v \in Info : Maps(E, p, v) /\ w = With(v, prot)
    <3>1. \A x \in E : x.val \in Info
      BY TrackedFields DEF Sound
    <3> QED BY <1>7, <1>8, <3>1 DEF Maps, Overlapping
  <2>2. ~ ((\A x \in O : ~Covers(x, R, p)) /\ Maps(E, p, w))
    BY <1>7, <1>8 DEF Maps
  <2> QED BY <1>6, <2>1, <2>2 DEF Pieces
<1>9. ASSUME NEW p \in Int, NEW w, ~(R[1] <= p /\ p < R[2])
      PROVE  Maps(f[O], p, w) <=> Maps(E, p, w)
  BY <1>6, <1>7, <1>9 DEF Pieces
<1> QED BY <1>2, <1>6, <1>8, <1>9 DEF Pieces

-----------------------------------------------------------------------------
(* What is executable has been verified.                                   *)

Request == [kind : {"map", "protect"}, range : Ranges, prot : Prots, verified : BOOLEAN]

KernelOK ==
    /\ host \in [Page -> SUBSET {"r", "w", "x"}]
    /\ text \in [Page -> Text]
    /\ op = Idle \/ op \in Request

\* The pages of a waiting request keep the content the verifier reads.
Frozen ==
    op # Idle =>
        /\ ~WX(op.prot)
        /\ \A p \in Page : p \in Pages(op.range) =>
               /\ ~Writable(host[p]) /\ ~Executable(host[p])
               /\ op.verified => text[p] \in Passing

VInv == KernelOK /\ Frozen /\ ExecVerified

-----------------------------------------------------------------------------

\* What mprotect and mmap (core/box.c) leave each page to be allowed.
LEMMA GiveValue ==
    ASSUME NEW R, NEW rights \in SUBSET {"r", "w", "x"}, KernelOK, Give(R, rights)
    PROVE  /\ host' \in [Page -> SUBSET {"r", "w", "x"}]
           /\ \A p \in Page : host'[p] = IF p \in Pages(R) THEN rights ELSE host[p]
BY DEF Give, KernelOK

\* What mmap leaves on each page.
LEMMA FillValue ==
    ASSUME NEW R, NEW t \in Text, KernelOK, Fill(R, t)
    PROVE  /\ text' \in [Page -> Text]
           /\ \A p \in Page : text'[p] = IF p \in Pages(R) THEN t ELSE text[p]
BY DEF Fill, KernelOK

\* A mapping given up (cbunmap) leaves pages that cannot be executed.
LEMMA GiveUpStep ==
    ASSUME VInv, NEW R \in Ranges, GiveUp(R)
    PROVE  VInv'
<1>0. Zero \in Text
  BY TextAssumption
<1>1. /\ host' \in [Page -> SUBSET {"r", "w", "x"}]
      /\ \A p \in Page : host'[p] = IF p \in Pages(R) THEN {} ELSE host[p]
  BY GiveValue DEF GiveUp, Withdraw, VInv
<1>2. /\ text' \in [Page -> Text]
      /\ \A p \in Page : text'[p] = IF p \in Pages(R) THEN Zero ELSE text[p]
  BY <1>0, FillValue DEF GiveUp, Withdraw, VInv
<1>3. op' = Idle /\ unchecked' = unchecked \ Pages(R)
  BY DEF GiveUp
<1>4. KernelOK' /\ Frozen'
  BY <1>1, <1>2, <1>3 DEF KernelOK, Frozen, Idle
<1>5. ExecVerified'
  BY <1>1, <1>2, <1>3 DEF VInv, ExecVerified, Executable, Writable
<1> QED
  BY <1>4, <1>5 DEF VInv

\* A new mapping (mapverify) is readable only while it waits, and executable
\* at once only when a _noverify caller vouches for it.
LEMMA MapVerifyStep ==
    ASSUME VInv, NEW R \in Ranges, NEW i \in Info, NEW nv \in BOOLEAN, MapVerify(R, i, nv)
    PROVE  VInv'
<1>0. i.prot \in Prots /\ i.prot \in SUBSET {"r", "w", "x"} /\ i.src \in Text /\ ~WX(i.prot)
  BY TextAssumption, ProtsAssumption DEF Info, MapVerify
<1>2. /\ text' \in [Page -> Text]
      /\ \A p \in Page : text'[p] = IF p \in Pages(R) THEN i.src ELSE text[p]
  BY <1>0, FillValue DEF MapVerify, VInv
<1>3. CASE Checked(i.prot, nv)
  <2>1. /\ host' \in [Page -> SUBSET {"r", "w", "x"}]
        /\ \A p \in Page : host'[p] = IF p \in Pages(R) THEN {"r"} ELSE host[p]
    BY <1>3, GiveValue DEF MapVerify, MarkRead, VInv
  <2>2. /\ op' = [kind |-> "map", range |-> R, prot |-> i.prot, verified |-> FALSE]
        /\ unchecked' = unchecked \ Pages(R)
    BY <1>3 DEF MapVerify, Wait
  <2>3. op' \in Request
    BY <1>0, <2>2 DEF Request
  <2>4. Frozen'
    BY <1>0, <2>1, <2>2 DEF Frozen, Writable, Executable
  <2>5. ExecVerified'
    BY <1>2, <2>1, <2>2 DEF VInv, ExecVerified, Executable, Writable
  <2> QED
    BY <1>2, <2>1, <2>3, <2>4, <2>5 DEF VInv, KernelOK
<1>4. CASE ~Checked(i.prot, nv)
  <2>1. /\ host' \in [Page -> SUBSET {"r", "w", "x"}]
        /\ \A p \in Page : host'[p] = IF p \in Pages(R) THEN i.prot ELSE host[p]
    BY <1>0, <1>4, GiveValue DEF MapVerify, VInv
  <2>2. op' = Idle /\ Vouch(R, i.prot, nv)
    BY <1>4 DEF MapVerify
  <2>3. KernelOK' /\ Frozen'
    BY <1>2, <2>1, <2>2 DEF KernelOK, Frozen, Idle
  <2>4. ExecVerified'
    BY <1>0, <1>2, <1>4, <2>1, <2>2
       DEF VInv, ExecVerified, Executable, Writable, WX, Checked, Vouch
  <2> QED
    BY <2>3, <2>4 DEF VInv
<1> QED
  BY <1>3, <1>4

\* A mapping the ELF loader made itself is registered only once the verifier
\* accepted it, lfi_box_mapat_register.
LEMMA RegisterStep ==
    ASSUME VInv, NEW R \in Ranges, NEW i \in Info, NEW t \in Text, Register(R, i, t)
    PROVE  VInv'
<1>0. i.prot \in SUBSET {"r", "w", "x"} /\ ~WX(i.prot)
  BY ProtsAssumption DEF Info, Register
<1>1. /\ host' \in [Page -> SUBSET {"r", "w", "x"}]
      /\ \A p \in Page : host'[p] = IF p \in Pages(R) THEN i.prot ELSE host[p]
  BY <1>0, GiveValue DEF Register, VInv
<1>2. /\ text' \in [Page -> Text]
      /\ \A p \in Page : text'[p] = IF p \in Pages(R) THEN t ELSE text[p]
  BY FillValue DEF Register, VInv
<1>3. /\ op = Idle /\ op' = Idle
      /\ unchecked' = unchecked \ Pages(R)
      /\ Executable(i.prot) => t \in Passing
  BY DEF Register
<1>4. KernelOK' /\ Frozen'
  BY <1>1, <1>2, <1>3 DEF KernelOK, Frozen, Idle
<1>5. ExecVerified'
  BY <1>0, <1>1, <1>2, <1>3 DEF VInv, ExecVerified, Executable, Writable, WX
<1> QED
  BY <1>4, <1>5 DEF VInv

\* protectverify marks the pages read-only before it verifies them.
LEMMA ProtectStep ==
    ASSUME VInv, NEW R \in Ranges, NEW prot \in Prots, NEW nv \in BOOLEAN, Protect(R, prot, nv)
    PROVE  VInv'
<1>0. prot \in SUBSET {"r", "w", "x"} /\ ~WX(prot) /\ text' = text
  BY ProtsAssumption DEF Protect
<1>3. CASE Checked(prot, nv)
  <2>1. /\ host' \in [Page -> SUBSET {"r", "w", "x"}]
        /\ \A p \in Page : host'[p] = IF p \in Pages(R) THEN {"r"} ELSE host[p]
    BY <1>3, GiveValue DEF Protect, MarkRead, VInv
  <2>2. /\ op' = [kind |-> "protect", range |-> R, prot |-> prot, verified |-> FALSE]
        /\ unchecked' = unchecked \ Pages(R)
    BY <1>3 DEF Protect, Wait
  <2>3. op' \in Request
    BY <2>2 DEF Request
  <2>4. Frozen'
    BY <1>0, <2>1, <2>2 DEF Frozen, Writable, Executable
  <2>5. ExecVerified'
    BY <1>0, <2>1, <2>2 DEF VInv, ExecVerified, Executable, Writable
  <2> QED
    BY <1>0, <2>1, <2>3, <2>4, <2>5 DEF VInv, KernelOK
<1>4. CASE ~Checked(prot, nv)
  <2>1. /\ host' \in [Page -> SUBSET {"r", "w", "x"}]
        /\ \A p \in Page : host'[p] = IF p \in Pages(R) THEN prot ELSE host[p]
    BY <1>0, <1>4, GiveValue DEF Protect, VInv
  <2>2. op = Idle /\ op' = Idle /\ Vouch(R, prot, nv)
    BY <1>4 DEF Protect
  <2>3. KernelOK' /\ Frozen'
    BY <1>0, <2>1, <2>2 DEF VInv, KernelOK, Frozen, Idle
  <2>4. ExecVerified'
    BY <1>0, <1>4, <2>1, <2>2
       DEF VInv, ExecVerified, Executable, Writable, WX, Checked, Vouch
  <2> QED
    BY <2>3, <2>4 DEF VInv
<1> QED
  BY <1>3, <1>4

\* munmap leaves pages without access, box_munmap_locked.
LEMMA MunmapStep ==
    ASSUME VInv, NEW R \in Ranges, Munmap(R)
    PROVE  VInv'
<1>1. op' = Idle
  BY DEF Munmap
<1> QED
  BY <1>1, GiveUpStep DEF Munmap, GiveUp

\* The content the verifier accepted is still there when the pages become
\* executable, mapverify and protectverify.
LEMMA CommitStep ==
    ASSUME VInv, Commit
    PROVE  VInv'
<1>0. op \in Request /\ op.verified /\ op' = Idle /\ text' = text /\ unchecked' = unchecked
  BY DEF Commit, VInv, KernelOK
<1>1. op.prot \in SUBSET {"r", "w", "x"}
  BY <1>0, ProtsAssumption DEF Request
<1>2. /\ host' \in [Page -> SUBSET {"r", "w", "x"}]
      /\ \A p \in Page : host'[p] = IF p \in Pages(op.range) THEN op.prot ELSE host[p]
  BY <1>1, GiveValue DEF Commit, VInv
<1>3. /\ ~WX(op.prot)
      /\ \A p \in Page : p \in Pages(op.range) => text[p] \in Passing
  BY <1>0 DEF Commit, VInv, Frozen
<1>4. KernelOK' /\ Frozen'
  BY <1>0, <1>2 DEF VInv, KernelOK, Frozen, Idle
<1>5. ExecVerified'
  BY <1>0, <1>2, <1>3 DEF VInv, ExecVerified, Executable, Writable, WX
<1> QED
  BY <1>4, <1>5 DEF VInv

\* A store changes no executable page and no page of a waiting request.
LEMMA StoreStep ==
    ASSUME VInv, NEW p \in Page, NEW t \in Text, Store(p, t)
    PROVE  VInv'
<1>1. /\ text' \in [Page -> Text]
      /\ \A q \in Page : q # p => text'[q] = text[q]
  BY DEF Store, VInv, KernelOK
<1>2. UNCHANGED <<host, unchecked, op>> /\ Writable(host[p])
  BY DEF Store
<1>3. KernelOK'
  BY <1>1, <1>2 DEF VInv, KernelOK
<1>4. Frozen'
  BY <1>1, <1>2 DEF VInv, Frozen
<1>5. ExecVerified'
  BY <1>1, <1>2 DEF VInv, ExecVerified
<1> QED
  BY <1>3, <1>4, <1>5 DEF VInv

\* The verifier reads the pages; a refused request ends.
LEMMA VerifierStep ==
    ASSUME VInv, Verified \/ Reject
    PROVE  VInv'
<1>0. op \in Request
  BY DEF Verified, Reject, VInv, KernelOK
<1>1. CASE Verified
  <2>1. /\ \A p \in Pages(op.range) : text[p] \in Passing
        /\ op' = [op EXCEPT !.verified = TRUE]
        /\ UNCHANGED <<host, text, unchecked>>
    BY <1>1 DEF Verified
  <2>2. op' \in Request /\ op'.prot = op.prot /\ op'.range = op.range
    BY <1>0, <2>1 DEF Request
  <2>3. KernelOK' /\ ExecVerified'
    BY <2>1, <2>2 DEF VInv, KernelOK, ExecVerified
  <2>4. Frozen'
    BY <1>1, <2>1, <2>2 DEF VInv, Frozen, Verified
  <2> QED
    BY <2>3, <2>4 DEF VInv
<1>2. CASE Reject /\ GiveUp(op.range)
  BY <1>0, <1>2, GiveUpStep DEF Request
<1>3. CASE op' = Idle /\ UNCHANGED <<host, text, unchecked>>
  BY <1>3 DEF VInv, KernelOK, Frozen, ExecVerified, Idle
<1> QED
  BY <1>1, <1>2, <1>3 DEF Reject

-----------------------------------------------------------------------------

\* No page is writable and executable, and what is executable has passed the
\* verifier in its present content or has a caller of a _noverify entry point
\* to answer for it (mapverify, protectverify, lfi_box_mapat_register).
THEOREM VerifiedExecution == Spec => []ExecVerified
<1>1. Init => VInv
  <2> SUFFICES ASSUME Init PROVE VInv
    OBVIOUS
  <2>1. Zero \in Text
    BY TextAssumption
  <2>2. KernelOK /\ Frozen
    BY <2>1 DEF Init, KernelOK, Frozen
  <2>3. ExecVerified
    BY DEF Init, ExecVerified, Executable
  <2> QED
    BY <2>2, <2>3 DEF VInv
<1>2. VInv /\ [Next]_vars => VInv'
  <2> SUFFICES ASSUME VInv, [Next]_vars PROVE VInv'
    OBVIOUS
  <2>1. ASSUME NEW i \in Info, NEW n \in 1 .. NumPages, NEW nv \in NvChoices,
               MapAny(n, i, nv)
        PROVE  VInv'
    <3>1. PICK s \in FindFree(n) : MapVerify(<<s, s + n>>, i, nv) \/ GiveUp(<<s, s + n>>)
      BY <2>1 DEF MapAny
    <3>2. s \in Page /\ s + n <= NumPages
      BY DEF FindFree, Fits
    <3>3. <<s, s + n>> \in Ranges
      BY <3>2, PagesAssumption DEF Ranges, Page
    <3>4. nv \in BOOLEAN
      BY DEF NvChoices
    <3> QED
      BY <3>1, <3>3, <3>4, MapVerifyStep, GiveUpStep
  <2>2. ASSUME NEW i \in Info, NEW R \in Ranges, MapAt(R, i)
        PROVE  VInv'
    BY <2>2, MapVerifyStep, GiveUpStep DEF MapAt
  <2>3. ASSUME NEW i \in Info, NEW R \in Ranges, NEW t \in Text, Register(R, i, t)
        PROVE  VInv'
    BY <2>3, RegisterStep
  <2>4. ASSUME NEW R \in Ranges, NEW prot \in Prots, NEW nv \in NvChoices,
               Protect(R, prot, nv)
        PROVE  VInv'
    <3>1. nv \in BOOLEAN
      BY DEF NvChoices
    <3> QED
      BY <2>4, <3>1, ProtectStep
  <2>5. ASSUME NEW R \in Ranges, Munmap(R)
        PROVE  VInv'
    BY <2>5, MunmapStep
  <2>6. ASSUME NEW p \in Page, NEW t \in Text, Store(p, t)
        PROVE  VInv'
    BY <2>6, StoreStep
  <2>7. CASE UNCHANGED vars
    BY <2>7 DEF vars, VInv, KernelOK, Frozen, ExecVerified
  <2> QED
    BY <2>1, <2>2, <2>3, <2>4, <2>5, <2>6, <2>7, VerifierStep, CommitStep DEF Next
<1> QED
  BY <1>1, <1>2, PTL DEF Spec, VInv

-----------------------------------------------------------------------------
(* The tracker stays sound and the rights of the kernel follow it.         *)

\* Rights follow the tracker, also while a request waits.
RightsFollow ==
    \A p \in Page, v \in Info : Maps(entries, p, v) => host[p] \subseteq v.prot \cup {"r"}

\* A mapping that waits has been tracked with the protection it will get.
MapWaits ==
    op # Idle /\ op.kind = "map" =>
        \A p \in Page, v \in Info :
            p \in Pages(op.range) /\ Maps(entries, p, v) => v.prot = op.prot

MInv == TypeOK /\ Sound(entries) /\ RightsFollow /\ MapWaits

-----------------------------------------------------------------------------

\* The bounds and the pages of a request.
LEMMA RangeFields ==
    ASSUME NEW R \in Ranges
    PROVE  /\ R[1] \in Page /\ R[2] \in 1 .. NumPages /\ R[1] < R[2]
           /\ R[1] \in Int /\ R[2] \in Int
           /\ \A p \in Page : p \in Int /\ (p \in Pages(R) <=> R[1] <= p /\ p < R[2])
BY Bounds DEF Ranges, Pages

\* Insert, in terms of the pages of a request.
LEMMA TrackMaps ==
    ASSUME NEW E, Sound(E), NEW R \in Ranges, NEW i \in Info
    PROVE  /\ Sound(Insert(E, R[1], R[2], i))
           /\ \A p \in Page : \A w : Maps(Insert(E, R[1], R[2], i), p, w)
                 <=> \/ p \in Pages(R) /\ w = i
                     \/ p \notin Pages(R) /\ Maps(E, p, w)
<1>1. Sound(Insert(E, R[1], R[2], i))
  BY RangeFields, Inserted
<1>2. \A p \in Int : \A w : Maps(Insert(E, R[1], R[2], i), p, w)
         <=> \/ R[1] <= p /\ p < R[2] /\ w = i
             \/ Maps(E, p, w) /\ (p < R[1] \/ R[2] <= p)
  BY RangeFields, Inserted
<1> QED BY <1>1, <1>2, RangeFields

\* Remove, in terms of the pages of a request.
LEMMA UntrackMaps ==
    ASSUME NEW E, Sound(E), NEW R \in Ranges
    PROVE  /\ Sound(Remove(E, R[1], R[2]))
           /\ \A p \in Page : \A w : Maps(Remove(E, R[1], R[2]), p, w)
                 <=> p \notin Pages(R) /\ Maps(E, p, w)
<1>1. Sound(Remove(E, R[1], R[2]))
  BY RangeFields, Removed
<1>2. \A p \in Int : \A w : Maps(Remove(E, R[1], R[2]), p, w)
         <=> Maps(E, p, w) /\ (p < R[1] \/ R[2] <= p)
  BY RangeFields, Removed
<1> QED BY <1>1, <1>2, RangeFields

\* Reprotect, in terms of the pages of a request.
LEMMA ReprotectMaps ==
    ASSUME NEW E, Sound(E), NEW R \in Ranges, NEW prot \in Prots
    PROVE  /\ Sound(Reprotect(E, R, prot))
           /\ \A p \in Page : \A w : Maps(Reprotect(E, R, prot), p, w)
                 <=> \/ p \in Pages(R) /\ \E v \in Info : Maps(E, p, v) /\ w = With(v, prot)
                     \/ p \notin Pages(R) /\ Maps(E, p, w)
<1>1. Sound(Reprotect(E, R, prot))
  BY Reprotected
<1>2. \A p \in Int : \A w : Maps(Reprotect(E, R, prot), p, w)
         <=> \/ R[1] <= p /\ p < R[2] /\ \E v \in Info : Maps(E, p, v) /\ w = With(v, prot)
             \/ ~(R[1] <= p /\ p < R[2]) /\ Maps(E, p, w)
  BY Reprotected
<1> QED BY <1>1, <1>2, RangeFields

\* A mapping with another protection.
LEMMA WithProt ==
    ASSUME NEW v \in Info, NEW prot \in Prots
    PROVE  With(v, prot) \in Info /\ With(v, prot).prot = prot
BY DEF With, Info

-----------------------------------------------------------------------------

\* The types of what the kernel keeps.
LEMMA KernelTyped == MInv => KernelOK
BY DEF MInv, TypeOK, KernelOK, Request

\* The pages of a request are pages of the sandbox.
LEMMA PagesOf ==
    ASSUME NEW R \in Ranges
    PROVE  Pages(R) \subseteq Page
BY Bounds DEF Pages, Ranges, Page

\* A request that waits for the verifier.
LEMMA Requested ==
    ASSUME NEW R \in Ranges, NEW prot \in Prots, NEW kind \in {"map", "protect"},
           Wait(kind, R, prot)
    PROVE  /\ op' \in [kind : {"map", "protect"}, range : Ranges, prot : Prots, verified : BOOLEAN]
           /\ op'.range = R /\ op'.prot = prot /\ op'.kind = kind
BY DEF Wait

\* A mapping given up, and munmap: untracked and withdrawn.
LEMMA GivenUp ==
    ASSUME MInv, NEW R \in Ranges, entries' = Untrack(R), Withdraw(R),
           unchecked' = unchecked \ Pages(R), op' = Idle
    PROVE  MInv'
<1>1. Sound(entries) /\ unchecked \subseteq Page
  BY DEF MInv, TypeOK
<1>2. /\ Sound(entries')
      /\ \A p \in Page : \A w : Maps(entries', p, w) <=> p \notin Pages(R) /\ Maps(entries, p, w)
  BY <1>1, UntrackMaps DEF Untrack
<1>3. /\ host' \in [Page -> SUBSET {"r", "w", "x"}]
      /\ \A p \in Page : host'[p] = IF p \in Pages(R) THEN {} ELSE host[p]
  BY KernelTyped, GiveValue DEF Withdraw
<1>4. text' \in [Page -> Text]
  BY KernelTyped, FillValue, TextAssumption DEF Withdraw
<1>5. TypeOK'
  BY <1>1, <1>2, <1>3, <1>4 DEF TypeOK, Sound, Tracked
<1>6. RightsFollow'
  BY <1>2, <1>3 DEF MInv, RightsFollow
<1> QED BY <1>2, <1>5, <1>6 DEF MInv, MapWaits

\* A range tracked with i, and given no more than i allows.
LEMMA Mapped ==
    ASSUME MInv, NEW R \in Ranges, NEW i \in Info, entries' = Track(R, i),
           NEW rights \in SUBSET {"r", "w", "x"}, Give(R, rights),
           rights \subseteq i.prot \cup {"r"}
    PROVE  /\ Sound(entries')
           /\ \A p \in Page : \A w : Maps(entries', p, w)
                 <=> (p \in Pages(R) /\ w = i) \/ (p \notin Pages(R) /\ Maps(entries, p, w))
           /\ host' \in [Page -> SUBSET {"r", "w", "x"}]
           /\ RightsFollow'
<1>1. Sound(entries)
  BY DEF MInv
<1>2. /\ Sound(entries')
      /\ \A p \in Page : \A w : Maps(entries', p, w)
            <=> (p \in Pages(R) /\ w = i) \/ (p \notin Pages(R) /\ Maps(entries, p, w))
  <2>1. entries' = Insert(entries, R[1], R[2], i)
    BY DEF Track
  <2>2. Sound(Insert(entries, R[1], R[2], i))
    BY <1>1, TrackMaps
  <2>3. \A p \in Page : \A w : Maps(Insert(entries, R[1], R[2], i), p, w)
           <=> (p \in Pages(R) /\ w = i) \/ (p \notin Pages(R) /\ Maps(entries, p, w))
    BY <1>1, TrackMaps
  <2> QED BY <2>1, <2>2, <2>3
<1>3. /\ host' \in [Page -> SUBSET {"r", "w", "x"}]
      /\ \A p \in Page : host'[p] = IF p \in Pages(R) THEN rights ELSE host[p]
  BY KernelTyped, GiveValue
<1>4. RightsFollow'
  BY <1>2, <1>3 DEF MInv, RightsFollow
<1> QED BY <1>2, <1>3, <1>4

\* mapverify tracks a range before the kernel gives it its rights.
LEMMA MapVerifyKeeps ==
    ASSUME MInv, NEW R \in Ranges, NEW i \in Info, NEW nv \in BOOLEAN, MapVerify(R, i, nv)
    PROVE  MInv'
<1>0. /\ i.prot \in Prots /\ i.prot \in SUBSET {"r", "w", "x"} /\ i.src \in Text
      /\ entries' = Track(R, i) /\ Fill(R, i.src) /\ unchecked \subseteq Page
  BY TextAssumption, ProtsAssumption DEF Info, MapVerify, MInv, TypeOK
<1>1. text' \in [Page -> Text]
  BY <1>0, KernelTyped, FillValue
<1>2. CASE Checked(i.prot, nv)
  <2>1. Give(R, {"r"}) /\ unchecked' = unchecked \ Pages(R) /\ Wait("map", R, i.prot)
    BY <1>2 DEF MapVerify, MarkRead
  <2>2. /\ op' \in [kind : {"map", "protect"}, range : Ranges, prot : Prots, verified : BOOLEAN]
        /\ op'.range = R /\ op'.prot = i.prot
    BY <1>0, <2>1, Requested
  <2>3. /\ Sound(entries')
        /\ \A p \in Page : \A w : Maps(entries', p, w)
              <=> (p \in Pages(R) /\ w = i) \/ (p \notin Pages(R) /\ Maps(entries, p, w))
        /\ host' \in [Page -> SUBSET {"r", "w", "x"}]
        /\ RightsFollow'
    BY <1>0, <2>1, Mapped
  <2>4. TypeOK'
    BY <1>0, <1>1, <2>1, <2>2, <2>3 DEF TypeOK, Sound, Tracked
  <2>5. MapWaits'
    BY <2>2, <2>3 DEF MapWaits
  <2> QED BY <2>3, <2>4, <2>5 DEF MInv
<1>3. CASE ~Checked(i.prot, nv)
  <2>1. Give(R, i.prot) /\ Vouch(R, i.prot, nv) /\ op' = Idle
    BY <1>3 DEF MapVerify
  <2>2. unchecked' \subseteq Page
    BY <1>0, <2>1, PagesOf DEF Vouch
  <2>3. Sound(entries') /\ host' \in [Page -> SUBSET {"r", "w", "x"}] /\ RightsFollow'
    BY <1>0, <2>1, Mapped
  <2>4. TypeOK' /\ MapWaits'
    BY <1>1, <2>1, <2>2, <2>3 DEF TypeOK, Sound, Tracked, MapWaits
  <2> QED BY <2>3, <2>4 DEF MInv
<1> QED BY <1>2, <1>3

\* lfi_box_mapat_register tracks what the loader mapped.
LEMMA RegisterKeeps ==
    ASSUME MInv, NEW R \in Ranges, NEW i \in Info, NEW t \in Text, Register(R, i, t)
    PROVE  MInv'
<1>0. /\ i.prot \in SUBSET {"r", "w", "x"} /\ unchecked' \subseteq Page
      /\ entries' = Track(R, i) /\ Fill(R, t) /\ Give(R, i.prot) /\ op' = Idle
  BY ProtsAssumption DEF Info, Register, MInv, TypeOK
<1>1. text' \in [Page -> Text]
  BY <1>0, KernelTyped, FillValue
<1>2. Sound(entries') /\ host' \in [Page -> SUBSET {"r", "w", "x"}] /\ RightsFollow'
  BY <1>0, Mapped
<1>3. TypeOK' /\ MapWaits'
  BY <1>0, <1>1, <1>2 DEF TypeOK, Sound, Tracked, MapWaits
<1> QED BY <1>2, <1>3 DEF MInv

\* Tracked pages of R have a new protection and the right that goes with it.
LEMMA Changed ==
    ASSUME MInv, NEW R \in Ranges, NEW prot \in Prots, Give(R, prot),
           entries' = Reprotect(entries, R, prot)
    PROVE  Sound(entries') /\ host' \in [Page -> SUBSET {"r", "w", "x"}] /\ RightsFollow'
<1>1. Sound(entries)
  BY DEF MInv
<1>2. /\ Sound(entries')
      /\ \A p \in Page : \A w : Maps(entries', p, w)
            <=> \/ p \in Pages(R) /\ \E v \in Info : Maps(entries, p, v) /\ w = With(v, prot)
                \/ p \notin Pages(R) /\ Maps(entries, p, w)
  BY <1>1, ReprotectMaps
<1>3. /\ host' \in [Page -> SUBSET {"r", "w", "x"}]
      /\ \A p \in Page : host'[p] = IF p \in Pages(R) THEN prot ELSE host[p]
  BY KernelTyped, GiveValue, ProtsAssumption
<1>4. RightsFollow'
  <2> SUFFICES ASSUME NEW p \in Page, NEW w \in Info, Maps(entries', p, w)
               PROVE  host'[p] \subseteq w.prot \cup {"r"}
    BY DEF RightsFollow
  <2>1. CASE p \in Pages(R)
    BY <1>2, <1>3, <2>1, WithProt
  <2>2. CASE p \notin Pages(R)
    BY <1>2, <1>3, <2>2 DEF MInv, RightsFollow
  <2> QED BY <2>1, <2>2
<1> QED BY <1>2, <1>3, <1>4

\* box_mprotect_locked: the kernel first, the tracker after it agreed.
LEMMA ProtectKeeps ==
    ASSUME MInv, NEW R \in Ranges, NEW prot \in Prots, NEW nv \in BOOLEAN, Protect(R, prot, nv)
    PROVE  MInv'
<1>0. /\ text' = text /\ text \in [Page -> Text] /\ unchecked \subseteq Page /\ Sound(entries)
      /\ op = Idle
  BY DEF Protect, MInv, TypeOK
<1>2. CASE Checked(prot, nv)
  <2>1. /\ Give(R, {"r"}) /\ unchecked' = unchecked \ Pages(R) /\ Wait("protect", R, prot)
        /\ entries' = entries
    BY <1>2 DEF Protect, MarkRead
  <2>2. /\ op' \in [kind : {"map", "protect"}, range : Ranges, prot : Prots, verified : BOOLEAN]
        /\ op'.kind = "protect"
    BY <2>1, Requested
  <2>3. /\ host' \in [Page -> SUBSET {"r", "w", "x"}]
        /\ \A p \in Page : host'[p] = IF p \in Pages(R) THEN {"r"} ELSE host[p]
    BY <2>1, KernelTyped, GiveValue
  <2>4. TypeOK'
    BY <1>0, <2>1, <2>2, <2>3 DEF TypeOK, Sound, Tracked
  <2>5. RightsFollow' /\ MapWaits'
    BY <2>1, <2>2, <2>3 DEF MInv, RightsFollow, MapWaits
  <2> QED BY <1>0, <2>1, <2>4, <2>5 DEF MInv
<1>3. CASE ~Checked(prot, nv)
  <2>1. /\ Give(R, prot) /\ Vouch(R, prot, nv) /\ entries' = Reprotect(entries, R, prot)
        /\ op' = Idle
    BY <1>0, <1>3 DEF Protect
  <2>2. unchecked' \subseteq Page
    BY <1>0, <2>1, PagesOf DEF Vouch
  <2>3. Sound(entries') /\ host' \in [Page -> SUBSET {"r", "w", "x"}] /\ RightsFollow'
    BY <2>1, Changed
  <2>4. TypeOK' /\ MapWaits'
    BY <1>0, <2>1, <2>2, <2>3 DEF TypeOK, Sound, Tracked, MapWaits
  <2> QED BY <2>3, <2>4 DEF MInv
<1> QED BY <1>2, <1>3

\* The final mprotect of a verified request.
LEMMA CommitKeeps ==
    ASSUME MInv, Commit
    PROVE  MInv'
<1> DEFINE R == op.range
           prot == op.prot
<1>0. /\ op \in [kind : {"map", "protect"}, range : Ranges, prot : Prots, verified : BOOLEAN]
      /\ op' = Idle /\ text' = text /\ unchecked' = unchecked /\ Give(R, prot)
      /\ text \in [Page -> Text] /\ unchecked \subseteq Page /\ Sound(entries) /\ op # Idle
  BY DEF Commit, MInv, TypeOK
<1>1. /\ R \in Ranges /\ prot \in Prots /\ prot \in SUBSET {"r", "w", "x"}
      /\ op.kind \in {"map", "protect"}
  BY <1>0, ProtsAssumption
<1>2. Sound(entries') /\ host' \in [Page -> SUBSET {"r", "w", "x"}] /\ RightsFollow'
  <2>1. CASE op.kind = "protect"
    <3>1. entries' = Reprotect(entries, R, prot)
      BY <2>1 DEF Commit
    <3> HIDE DEF R, prot
    <3> QED BY <1>0, <1>1, <3>1, Changed
  <2>2. CASE op.kind = "map"
    <3>1. entries' = entries
      BY <2>2 DEF Commit
    <3>2. /\ host' \in [Page -> SUBSET {"r", "w", "x"}]
          /\ \A p \in Page : host'[p] = IF p \in Pages(R) THEN prot ELSE host[p]
      BY <1>0, <1>1, KernelTyped, GiveValue
    <3>3. \A p \in Page, v \in Info : p \in Pages(R) /\ Maps(entries, p, v) => v.prot = prot
      BY <1>0, <2>2 DEF MInv, MapWaits
    <3>4. RightsFollow'
      BY <3>1, <3>2, <3>3 DEF MInv, RightsFollow
    <3> QED BY <1>0, <3>1, <3>2, <3>4
  <2> QED BY <1>1, <2>1, <2>2
<1>3. TypeOK' /\ MapWaits'
  BY <1>0, <1>2 DEF TypeOK, Sound, Tracked, MapWaits
<1> QED BY <1>2, <1>3 DEF MInv

\* The verifier accepts or rejects; a mapping is then given up.
LEMMA VerifierKeeps ==
    ASSUME MInv, Verified \/ Reject
    PROVE  MInv'
<1>0. /\ op \in [kind : {"map", "protect"}, range : Ranges, prot : Prots, verified : BOOLEAN]
      /\ op # Idle
  BY DEF Verified, Reject, MInv, TypeOK
<1>1. CASE Verified
  <2>1. op' = [op EXCEPT !.verified = TRUE] /\ UNCHANGED <<entries, host, text, unchecked>>
    BY <1>1 DEF Verified
  <2>2. /\ op' \in [kind : {"map", "protect"}, range : Ranges, prot : Prots, verified : BOOLEAN]
        /\ op'.kind = op.kind /\ op'.range = op.range /\ op'.prot = op.prot
    BY <1>0, <2>1
  <2>3. TypeOK'
    BY <2>1, <2>2 DEF MInv, TypeOK
  <2>4. Sound(entries)' /\ RightsFollow'
    BY <2>1 DEF MInv, RightsFollow
  <2>5. MapWaits'
    BY <1>0, <2>1, <2>2 DEF MInv, MapWaits
  <2> QED BY <2>3, <2>4, <2>5 DEF MInv
<1>2. CASE Reject /\ op.kind = "map" /\ GiveUp(op.range)
  BY <1>0, <1>2, GivenUp DEF GiveUp
<1>3. CASE op' = Idle /\ UNCHANGED <<entries, host, text, unchecked>>
  BY <1>3 DEF MInv, TypeOK, RightsFollow, MapWaits
<1> QED BY <1>1, <1>2, <1>3 DEF Reject

\* A store changes no right.
LEMMA StoreKeeps ==
    ASSUME MInv, NEW p \in Page, NEW t \in Text, Store(p, t)
    PROVE  MInv'
<1>1. text' \in [Page -> Text] /\ UNCHANGED <<entries, host, unchecked, op>>
  BY DEF Store, MInv, TypeOK
<1> QED BY <1>1 DEF MInv, TypeOK, RightsFollow, MapWaits

\* The invariant behind the next theorems: types, sound entries, and rights
\* that follow the tracker, also while a request waits (core/box.c).
THEOREM TrackerInvariance == Spec => []MInv
<1>1. Init => MInv
  <2> SUFFICES ASSUME Init PROVE MInv
    OBVIOUS
  <2>1. Zero \in Text
    BY TextAssumption
  <2>2. TypeOK
    BY <2>1 DEF Init, TypeOK
  <2>3. Sound(entries) /\ RightsFollow /\ MapWaits
    BY DEF Init, Sound, Apart, Merged, RightsFollow, MapWaits, Maps
  <2> QED BY <2>2, <2>3 DEF MInv
<1>2. MInv /\ [Next]_vars => MInv'
  <2> SUFFICES ASSUME MInv, [Next]_vars PROVE MInv'
    OBVIOUS
  <2>1. ASSUME NEW i \in Info, NEW n \in 1 .. NumPages, NEW nv \in NvChoices,
               MapAny(n, i, nv)
        PROVE  MInv'
    <3>1. PICK s \in FindFree(n) : MapVerify(<<s, s + n>>, i, nv) \/ GiveUp(<<s, s + n>>)
      BY <2>1 DEF MapAny
    <3>2. s \in Page /\ s + n <= NumPages
      BY DEF FindFree, Fits
    <3>3. <<s, s + n>> \in Ranges
      BY <3>2, PagesAssumption DEF Ranges, Page
    <3>4. nv \in BOOLEAN
      BY DEF NvChoices
    <3>5. GiveUp(<<s, s + n>>) => MInv'
      BY <3>3, GivenUp DEF GiveUp
    <3> QED
      BY <3>1, <3>3, <3>4, <3>5, MapVerifyKeeps
  <2>2. ASSUME NEW i \in Info, NEW R \in Ranges, MapAt(R, i)
        PROVE  MInv'
    BY <2>2, MapVerifyKeeps, GivenUp DEF MapAt, GiveUp
  <2>3. ASSUME NEW i \in Info, NEW R \in Ranges, NEW t \in Text, Register(R, i, t)
        PROVE  MInv'
    BY <2>3, RegisterKeeps
  <2>4. ASSUME NEW R \in Ranges, NEW prot \in Prots, NEW nv \in NvChoices,
               Protect(R, prot, nv)
        PROVE  MInv'
    <3>1. nv \in BOOLEAN
      BY DEF NvChoices
    <3> QED
      BY <2>4, <3>1, ProtectKeeps
  <2>5. ASSUME NEW R \in Ranges, Munmap(R)
        PROVE  MInv'
    BY <2>5, GivenUp DEF Munmap
  <2>6. ASSUME NEW p \in Page, NEW t \in Text, Store(p, t)
        PROVE  MInv'
    BY <2>6, StoreKeeps
  <2>7. CASE UNCHANGED vars
    BY <2>7 DEF vars, MInv, TypeOK, RightsFollow, MapWaits
  <2> QED
    BY <2>1, <2>2, <2>3, <2>4, <2>5, <2>6, <2>7, VerifierKeeps, CommitKeeps DEF Next
<1> QED
  BY <1>1, <1>2, PTL DEF Spec

-----------------------------------------------------------------------------
(* The tracker is a page table.                                            *)

\* The entries of the tracker are non-empty, disjoint and merged after every
\* request that splits, merges or protects them (range_map.h, mmap.cpp).
THEOREM RangesKept == Spec => []RangesSound
<1>1. MInv => RangesSound
  BY DEF MInv, Sound, Apart, Merged, RangesSound
<1> QED BY <1>1, TrackerInvariance, PTL

\* Between requests the kernel gives a tracked page no right that its entry
\* does not record, but for read (box_mprotect_locked, mapverify).
THEOREM RightsFollowTracker == Spec => []NoStrayRights
<1>1. MInv => NoStrayRights
  <2> SUFFICES ASSUME MInv, NEW x \in entries, NEW p \in x.start .. x.end - 1
               PROVE  host[p] \subseteq x.val.prot \cup {"r"}
    BY DEF NoStrayRights
  <2>1. x \in Tracked /\ x.start \in Page /\ x.end \in 1 .. NumPages /\ x.val \in Info
    BY TrackedFields DEF MInv, Sound
  <2>2. p \in Page /\ p \in Int /\ x.start <= p /\ p < x.end
    BY <2>1, Bounds
  <2>3. Maps(entries, p, x.val)
    BY <2>2 DEF Maps
  <2> QED BY <2>1, <2>2, <2>3 DEF MInv, RightsFollow
<1> QED BY <1>1, TrackerInvariance, PTL

-----------------------------------------------------------------------------

\* The page table of a set of entries.
LookupIn(E, p) == IF Find(E, p) = {} THEN Free ELSE (CHOOSE x \in Find(E, p) : TRUE).val
TableOf(E) == [p \in Page |-> LookupIn(E, p)]

\* No mapping looks like a free page.
LEMMA NotFree == Free \notin Info
BY DEF Free, Info

\* Sound entries map a page to one value, the one the table has.
LEMMA LookupIs ==
    ASSUME NEW E, Sound(E), NEW p \in Page
    PROVE  /\ \A v \in Info : Maps(E, p, v) <=> TableOf(E)[p] = v
           /\ TableOf(E)[p] \in Info \cup {Free}
           /\ \A v : Maps(E, p, v) => v \in Info
<1>0. /\ \A x \in E : x.start \in Int /\ x.end \in Int /\ x.val \in Info
      /\ \A x, y \in E : x # y => x.end <= y.start \/ y.end <= x.start
      /\ p \in Int
  BY TrackedFields, Bounds DEF Sound, Apart
<1>1. \A x \in E : x \in Find(E, p) <=> x.start <= p /\ p < x.end
  BY DEF Find
<1>2. Find(E, p) \subseteq E /\ \A x, y \in Find(E, p) : x = y
  BY <1>0, <1>1 DEF Find
<1>3. TableOf(E)[p] = LookupIn(E, p)
  BY DEF TableOf
<1>4. CASE Find(E, p) = {}
  <2>1. \A v : ~Maps(E, p, v)
    BY <1>1, <1>4 DEF Maps
  <2>2. LookupIn(E, p) = Free
    BY <1>4 DEF LookupIn
  <2> QED BY <1>3, <2>1, <2>2, NotFree
<1>5. CASE Find(E, p) # {}
  <2>1. PICK x \in Find(E, p) : TRUE
    BY <1>5
  <2>2. LookupIn(E, p) = x.val
    BY <1>2, <1>5, <2>1 DEF LookupIn
  <2>3. \A v : Maps(E, p, v) <=> v = x.val
    BY <1>1, <1>2, <2>1 DEF Maps
  <2> QED BY <1>0, <1>2, <1>3, <2>1, <2>2, <2>3
<1> QED BY <1>4, <1>5

\* Two sets of entries that map a page alike have the same page table there.
LEMMA SameLookup ==
    ASSUME NEW E, Sound(E), NEW F, Sound(F), NEW p \in Page,
           \A v : Maps(F, p, v) <=> Maps(E, p, v)
    PROVE  TableOf(F)[p] = TableOf(E)[p]
<1>1. \A v \in Info : TableOf(F)[p] = v <=> TableOf(E)[p] = v
  BY LookupIs
<1>2. TableOf(E)[p] \in Info \cup {Free} /\ TableOf(F)[p] \in Info \cup {Free}
  BY LookupIs
<1> QED BY <1>1, <1>2

\* The pages of a request are a range of the page table.
LEMMA OneRange ==
    ASSUME NEW R \in Ranges
    PROVE  Pages(R) \in Table!Ranges
<1>1. Pages(R) \in SUBSET Page
  BY PagesOf
<1>2. R[1] \in Pages(R)
  BY RangeFields, Bounds
<1>3. \A a, b \in Pages(R) : \A p \in Page : a <= p /\ p <= b => p \in Pages(R)
  BY RangeFields, Bounds DEF Pages
<1> QED BY <1>1, <1>2, <1>3 DEF Table!Ranges

\* Track puts one value on the range.
LEMMA TrackReplaces ==
    ASSUME NEW E, Sound(E), NEW R \in Ranges, NEW i \in Info
    PROVE  TableOf(Insert(E, R[1], R[2], i))
             = [p \in Page |-> IF p \in Pages(R) THEN i ELSE TableOf(E)[p]]
<1> DEFINE F == Insert(E, R[1], R[2], i)
<1>1. Sound(F)
  BY TrackMaps
<1>2. \A p \in Page : \A w : Maps(F, p, w) <=> \/ p \in Pages(R) /\ w = i
                                               \/ p \notin Pages(R) /\ Maps(E, p, w)
  BY TrackMaps
<1> HIDE DEF F
<1>3. \A p \in Page : p \in Pages(R) => TableOf(F)[p] = i
  BY <1>1, <1>2, LookupIs
<1>4. \A p \in Page : p \notin Pages(R) => TableOf(F)[p] = TableOf(E)[p]
  BY <1>1, <1>2, SameLookup
<1>5. TableOf(F) = [p \in Page |-> TableOf(F)[p]]
  BY DEF TableOf
<1> QED BY <1>3, <1>4, <1>5 DEF F

\* Untrack clears the range.
LEMMA UntrackClears ==
    ASSUME NEW E, Sound(E), NEW R \in Ranges
    PROVE  TableOf(Remove(E, R[1], R[2]))
             = [p \in Page |-> IF p \in Pages(R) THEN Free ELSE TableOf(E)[p]]
<1> DEFINE F == Remove(E, R[1], R[2])
<1>1. Sound(F)
  BY UntrackMaps
<1>2. \A p \in Page : \A w : Maps(F, p, w) <=> p \notin Pages(R) /\ Maps(E, p, w)
  BY UntrackMaps
<1> HIDE DEF F
<1>3. \A p \in Page : p \in Pages(R) => TableOf(F)[p] = Free
  BY <1>1, <1>2, LookupIs
<1>4. \A p \in Page : p \notin Pages(R) => TableOf(F)[p] = TableOf(E)[p]
  BY <1>1, <1>2, SameLookup
<1>5. TableOf(F) = [p \in Page |-> TableOf(F)[p]]
  BY DEF TableOf
<1> QED BY <1>3, <1>4, <1>5 DEF F

\* Reprotect changes the protection of what is mapped.
LEMMA ReprotectProtects ==
    ASSUME NEW E, Sound(E), NEW R \in Ranges, NEW prot \in Prots
    PROVE  TableOf(Reprotect(E, R, prot))
             = [p \in Page |-> IF p \in Pages(R) /\ TableOf(E)[p] # Free
                               THEN With(TableOf(E)[p], prot) ELSE TableOf(E)[p]]
<1> DEFINE F == Reprotect(E, R, prot)
<1>1. Sound(F)
  BY ReprotectMaps
<1>2. \A p \in Page : \A w :
         Maps(F, p, w) <=> \/ p \in Pages(R) /\ \E v \in Info : Maps(E, p, v) /\ w = With(v, prot)
                           \/ p \notin Pages(R) /\ Maps(E, p, w)
  BY ReprotectMaps
<1> HIDE DEF F
<1>3. ASSUME NEW p \in Page, p \in Pages(R), TableOf(E)[p] # Free
      PROVE  TableOf(F)[p] = With(TableOf(E)[p], prot)
  <2>1. PICK v \in Info : v = TableOf(E)[p] /\ Maps(E, p, v)
    BY <1>3, LookupIs
  <2>2. Maps(F, p, With(v, prot)) /\ With(v, prot) \in Info
    BY <1>2, <1>3, <2>1, WithProt
  <2>3. TableOf(F)[p] = With(v, prot)
    BY <1>1, <2>2, LookupIs
  <2> QED BY <2>1, <2>3
<1>4. ASSUME NEW p \in Page, p \in Pages(R), TableOf(E)[p] = Free
      PROVE  TableOf(F)[p] = Free
  <2>1. \A v \in Info : ~Maps(E, p, v)
    BY <1>4, LookupIs, NotFree
  <2>2. \A w \in Info : ~Maps(F, p, w)
    BY <1>2, <1>4, <2>1
  <2> QED BY <1>1, <2>2, LookupIs
<1>5. \A p \in Page : p \notin Pages(R) => TableOf(F)[p] = TableOf(E)[p]
  BY <1>1, <1>2, SameLookup
<1>6. TableOf(F) = [p \in Page |-> TableOf(F)[p]]
  BY DEF TableOf
<1> QED BY <1>3, <1>4, <1>5, <1>6 DEF F

\* Steps of the tracker.
PutStep == \E R \in Ranges, i \in Info : entries' = Track(R, i)
TakeStep == \E R \in Ranges : entries' = Untrack(R)
ProtStep == \E R \in Ranges, prot \in Prots : entries' = Reprotect(entries, R, prot)

\* Every step of a request tracks, untracks or reprotects one range, or leaves
\* the tracker alone.
LEMMA EntriesStep ==
    ASSUME MInv, Next
    PROVE  PutStep \/ TakeStep \/ ProtStep \/ entries' = entries
<1>0. op = Idle \/ (op.range \in Ranges /\ op.prot \in Prots)
  BY DEF MInv, TypeOK
<1>1. ASSUME NEW R \in Ranges, NEW i \in Info, NEW nv, MapVerify(R, i, nv) \/ GiveUp(R)
      PROVE  PutStep \/ TakeStep
  BY <1>1 DEF MapVerify, GiveUp, PutStep, TakeStep
<1>2. ASSUME NEW i \in Info, NEW n \in 1 .. NumPages, NEW nv \in NvChoices, MapAny(n, i, nv)
      PROVE  PutStep \/ TakeStep
  <2>1. PICK s \in FindFree(n) : MapVerify(<<s, s + n>>, i, nv) \/ GiveUp(<<s, s + n>>)
    BY <1>2 DEF MapAny
  <2>2. s \in Page /\ s + n <= NumPages
    BY DEF FindFree, Fits
  <2>3. <<s, s + n>> \in Ranges
    BY <2>2, PagesAssumption DEF Ranges, Page
  <2> QED BY <1>1, <2>1, <2>3
<1>3. ASSUME NEW i \in Info, NEW R \in Ranges, MapAt(R, i)
      PROVE  PutStep \/ TakeStep
  BY <1>1, <1>3 DEF MapAt
<1>4. ASSUME NEW i \in Info, NEW R \in Ranges, NEW t \in Text, Register(R, i, t)
      PROVE  PutStep
  BY <1>4 DEF Register, PutStep
<1>5. ASSUME NEW R \in Ranges, NEW prot \in Prots, NEW nv \in NvChoices, Protect(R, prot, nv)
      PROVE  ProtStep \/ entries' = entries
  BY <1>5 DEF Protect, ProtStep
<1>6. ASSUME NEW R \in Ranges, Munmap(R)
      PROVE  TakeStep
  BY <1>6 DEF Munmap, TakeStep
<1>7. ASSUME Verified \/ Commit \/ Reject
      PROVE  TakeStep \/ ProtStep \/ entries' = entries
  <2>1. op # Idle
    BY <1>7 DEF Verified, Commit, Reject
  <2>2. op.range \in Ranges /\ op.prot \in Prots
    BY <1>0, <2>1
  <2> QED BY <1>7, <2>2 DEF Verified, Commit, Reject, GiveUp, TakeStep, ProtStep
<1>8. ASSUME NEW p \in Page, NEW t \in Text, Store(p, t)
      PROVE  entries' = entries
  BY <1>8 DEF Store
<1> QED BY <1>2, <1>3, <1>4, <1>5, <1>6, <1>7, <1>8 DEF Next

\* Every request is one step of the page table, or none.
THEOREM PageTableImplemented == Spec => TableSpec
<1> DEFINE table == [p \in Page |-> Lookup(p)]
<1>1. Init => Table!Init
  BY DEF Init, Table!Init, Lookup, Find
<1>2. MInv /\ [Next]_vars => [Table!Next]_table
  <2> SUFFICES ASSUME MInv, [Next]_vars PROVE [Table!Next]_table
    OBVIOUS
  <2>0. Sound(entries)
    BY DEF MInv
  <2>1. table = TableOf(entries) /\ table' = TableOf(entries')
    BY DEF TableOf, Lookup, LookupIn
  <2> HIDE DEF table
  <2>2. CASE PutStep
    <3>1. PICK R \in Ranges, i \in Info : entries' = Insert(entries, R[1], R[2], i)
      BY <2>2 DEF PutStep, Track
    <3>2. table' = [p \in Page |-> IF p \in Pages(R) THEN i ELSE table[p]]
      BY <2>0, <2>1, <3>1, TrackReplaces
    <3>3. Table!Replace(Pages(R), i)
      BY <3>2 DEF Table!Replace, table
    <3> QED BY <3>3, OneRange DEF Table!Next
  <2>3. CASE TakeStep
    <3>1. PICK R \in Ranges : entries' = Remove(entries, R[1], R[2])
      BY <2>3 DEF TakeStep, Untrack
    <3>2. table' = [p \in Page |-> IF p \in Pages(R) THEN Free ELSE table[p]]
      BY <2>0, <2>1, <3>1, UntrackClears
    <3>3. Table!Clear(Pages(R))
      BY <3>2 DEF Table!Clear, table
    <3> QED BY <3>3, OneRange DEF Table!Next
  <2>4. CASE ProtStep
    <3>1. PICK R \in Ranges, prot \in Prots : entries' = Reprotect(entries, R, prot)
      BY <2>4 DEF ProtStep
    <3>2. table' = [p \in Page |-> IF p \in Pages(R) /\ table[p] # Free
                                   THEN With(table[p], prot) ELSE table[p]]
      BY <2>0, <2>1, <3>1, ReprotectProtects
    <3>3. PICK i \in Info : i.prot = prot
      <4>1. [prot |-> prot, src |-> Zero] \in Info
        BY TextAssumption DEF Info
      <4> QED BY <4>1
    <3>4. Table!Protect(Pages(R), i.prot)
      BY <3>2, <3>3 DEF Table!Protect, With, table
    <3> QED BY <3>3, <3>4, OneRange DEF Table!Next
  <2>5. CASE entries' = entries
    BY <2>1, <2>5
  <2>6. CASE UNCHANGED vars
    BY <2>1, <2>6 DEF vars
  <2> QED BY <2>2, <2>3, <2>4, <2>5, <2>6, EntriesStep
<1> QED BY <1>1, <1>2, TrackerInvariance, PTL DEF Spec, TableSpec, Table!Spec, table
=============================================================================
