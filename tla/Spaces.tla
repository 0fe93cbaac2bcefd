------------------------------- MODULE Spaces -------------------------------
(***************************************************************************)
(* The address space of an engine and the boxes it is cut into: lfi_new,   *)
(* lfi_free, lfi_box_new and lfi_box_free of core/core.c and core/box.c    *)
(* over core/boxmap.c and core/extalloc.c.                                 *)
(*                                                                         *)
(* The host's address space is an array of pages.  An engine and its boxes *)
(* are created and freed by one thread at a time: lfi_core.h promises      *)
(* safety to concurrent calls on one box, not on one engine.               *)
(***************************************************************************)
EXTENDS Integers, Sequences, FiniteSets

CONSTANTS
    Configs,   \* records [internal, external, region, n]: the guard sizes of an
               \* architecture and nsandboxes of lfi_new
    NUnits,    \* pages of host address space
    Chunk,     \* chunksize
    BoxSize,   \* opts.boxsize
    Most, Want, Least,  \* what boxmap_reserve(bm, 0) aims at and settles for
    MaxRegions,         \* ADDR_REGION_MAX
    MaxOthers, \* bound on the pages of the rest of the program
    Box        \* boxes

ASSUME SpacesAssumption ==
    /\ {NUnits, Chunk, BoxSize, Most, Want, Least, MaxRegions} \subseteq Nat \ {0}
    /\ BoxSize % Chunk = 0
    /\ \A c \in Configs : {c.internal, c.external, c.region, c.n} \subseteq Nat
    /\ IsFiniteSet(Box)

VARIABLES
    guards,   \* the configuration
    va,       \* what each page of the host belongs to
    phase,    \* "new", "reserving", "up", "failed" or "freed"
    left,     \* total and totalgot of boxmap_reserve
    regions,  \* map->regions
    boxes,    \* base of each box, or 0
    holes     \* ghost: pages of the reservation that the library itself unmapped

spaceVars == <<guards, va, phase, left, regions, boxes, holes>>

Unit == 1..NUnits
From(a, n) == a..(a + n - 1)         \* n pages, or chunks, from a
Floor(x) == x - (x % Chunk)          \* truncp
RoundUp(x) == Floor(x + Chunk - 1)   \* ceilp
Put(S, what) == [u \in Unit |-> IF u \in S THEN what ELSE va[u]]

SpaceInit ==
    /\ guards \in Configs
    /\ va \in {[u \in Unit |-> IF u <= n THEN <<"other">> ELSE <<"free">>] : n \in 1..Chunk}
    /\ phase = "new" /\ left = [total |-> 0, got |-> 0]
    /\ regions = <<>>
    /\ boxes = [b \in Box |-> 0]
    /\ holes = {}

-----------------------------------------------------------------------------
(* The bit vector of a region, as the set of its chunks that are taken. *)

Chunks(n) == (n + Chunk - 1) \div Chunk  \* chunks_ceil

FreeEnds(r, n) == {i \in 0..(r.size \div Chunk - 1) : i - n + 1 >= 0 /\ (i - n + 1)..i \cap r.bits = {}}

\* bitvec_find_zeroes: the first chunk of the first run of n, or -1.
FindZeroes(r, n) ==
    IF FreeEnds(r, n) = {} THEN -1
    ELSE (CHOOSE i \in FreeEnds(r, n) : \A j \in FreeEnds(r, n) : i <= j) - n + 1

\* The chunks of a space of n pages at a, in the bit vector of region r.
Bits(r, a, n) == From((a - r.base) \div Chunk, Chunks(n))

-----------------------------------------------------------------------------
(* boxmap_reserve. *)

Footprint == BoxSize + guards.external
NBoxes == guards.n
SizeNoSlack ==  \* Mutation
    IF NBoxes > 0 THEN NBoxes * Footprint + 2 * guards.region ELSE Want
Size == IF NBoxes > 0 THEN NBoxes * Footprint + Chunk + 2 * guards.region ELSE Want
MinSize == IF NBoxes > 0 THEN Size ELSE Least

\* Without nsandboxes lfi_new reserves nothing, and lfi_box_new finds no room.
LfiNew ==
    /\ phase = "new"
    /\ IF NBoxes > 0 THEN phase' = "reserving" /\ left' = [total |-> Size, got |-> 0]
                     ELSE phase' = "up" /\ UNCHANGED left
    /\ UNCHANGED <<guards, va, regions, boxes, holes>>

\* boxmap_reserve(bm, 0), which boxmap.h:33 offers and lfi_new does not use.
ReserveMost ==
    /\ phase = "new" /\ NBoxes = 0
    /\ phase' = "reserving" /\ left' = [total |-> Most, got |-> 0]
    /\ UNCHANGED <<guards, va, regions, boxes, holes>>

\* reserve: the size asked for, or what remains after some halvings.
Asks(size) == {size \div h : h \in {1, 2, 4, 8, 16}}
Sizes == Asks(IF left.got = 0 THEN Size ELSE left.total)

\* The host maps n free pages anywhere; addregion aligns and guards them.
Lands(a, n) == From(a, n) \subseteq {u \in Unit : va[u] = <<"free">>}
AlignedBaseOnly(a) == RoundUp(a)  \* Mutation: no guard in front
AlignedBase(a) == RoundUp(a + guards.region)
AlignedSize(a, n) == Floor(a + n - guards.region) - AlignedBase(a)

Reserve ==
    /\ phase = "reserving" /\ Len(regions) < MaxRegions
    /\ \E n \in Sizes, a \in Unit :
          /\ n >= MinSize /\ Lands(a, n)
          /\ va' = Put(From(a, n), <<"reserved">>)
          /\ regions' = Append(regions, [base |-> AlignedBase(a), size |-> AlignedSize(a, n),
                                         bits |-> {}, active |-> 0, mapbase |-> a, mapsize |-> n])
          /\ left' = [total |-> left.total - n, got |-> left.got + n]
          /\ phase' = IF left.got + n >= Size THEN "up" ELSE "reserving"
    /\ UNCHANGED <<guards, boxes, holes>>

\* addregion is refused its allocator or its mapping: the region goes, the
\* ones before it go with the engine.
Unreserved(rs) == [u \in Unit |-> IF \E i \in DOMAIN rs : u \in From(rs[i].mapbase, rs[i].mapsize)
                                  THEN <<"free">> ELSE va[u]]

\* When what is left to ask for is less than the minimum, the host may still
\* grant it; reserve reports a failure and forgets the mapping.
GiveUpReserve ==
    /\ phase = "reserving"
    /\ IF left.got >= MinSize /\ left.got > 0
       THEN phase' \in {"up", "failed"} ELSE phase' = "failed"
    /\ IF phase' = "failed" THEN va' = Unreserved(regions) /\ regions' = <<>>
       ELSE /\ \/ UNCHANGED va
               \/ /\ left.total \in 1..(MinSize - 1)
                  /\ \E a \in Unit : Lands(a, left.total) /\ va' = Put(From(a, left.total), <<"forgotten">>)
            /\ UNCHANGED regions
    /\ UNCHANGED <<guards, left, boxes, holes>>

-----------------------------------------------------------------------------
(* lfi_box_new and lfi_box_free. *)

Fitting == {i \in DOMAIN regions : FindZeroes(regions[i], Chunks(Footprint)) # -1}

\* boxmap_addspace and boxmap_rmspace: all regions are asked in turn.
Take(i, idx) == [regions EXCEPT ![i].bits = @ \cup From(idx, Chunks(Footprint)), ![i].active = @ + 1]
ReturnBox(a) ==  \* Mutation: the size of the box without its guard
    [i \in DOMAIN regions |->
        IF a \in From(regions[i].base, regions[i].size)
        THEN [regions[i] EXCEPT !.bits = @ \ Bits(regions[i], a, BoxSize), !.active = @ - 1]
        ELSE regions[i]]
Return(a) ==
    [i \in DOMAIN regions |->
        IF a \in From(regions[i].base, regions[i].size)
        THEN [regions[i] EXCEPT !.bits = @ \ Bits(regions[i], a, Footprint), !.active = @ - 1]
        ELSE regions[i]]

SysPage(a) == a - 1

\* box->min to box->max: the first page is kept free, or the internal guard.
Usable(a) == LET low == IF guards.internal > 1 THEN guards.internal ELSE 1
             IN  (a + low)..(a + BoxSize - guards.internal - 1)

\* The sandbox maps what it likes of its usable pages; here all of them.
BoxNew(b) ==
    /\ phase = "up" /\ boxes[b] = 0 /\ Fitting # {}
    /\ LET i == CHOOSE i \in Fitting : \A j \in Fitting : i <= j
           idx == FindZeroes(regions[i], Chunks(Footprint))
           a == regions[i].base + idx * Chunk IN
       /\ boxes' = [boxes EXCEPT ![b] = a]
       /\ va' = [u \in Unit |-> IF u = SysPage(a) THEN <<"sys", b>>
                                ELSE IF u \in Usable(a) THEN <<"box", b>> ELSE va[u]]
       /\ regions' = Take(i, idx)
    /\ UNCHANGED <<guards, phase, left, holes>>

\* A step after boxmap_addspace fails and the space goes back.  The page of
\* runtime calls is there already and stays mapped, read-only, though it is the
\* reservation's again (va says whose a page is); or it was unmapped when it
\* could not be protected, which leaves a hole in the reservation.
BoxNewFails(b) ==
    /\ phase = "up" /\ boxes[b] = 0 /\ Fitting # {}
    /\ LET i == CHOOSE i \in Fitting : \A j \in Fitting : i <= j
           a == regions[i].base + FindZeroes(regions[i], Chunks(Footprint)) * Chunk IN
       \/ va' = Put({SysPage(a)}, <<"reserved">>) /\ UNCHANGED holes
       \/ va' = Put({SysPage(a)}, <<"free">>) /\ holes' = holes \cup {SysPage(a)}
    /\ UNCHANGED <<guards, phase, left, regions, boxes>>

BoxFree(b) ==
    /\ phase = "up" /\ boxes[b] # 0
    /\ va' = Put(From(SysPage(boxes[b]), BoxSize + 1), <<"reserved">>)
    /\ regions' = Return(boxes[b])
    /\ boxes' = [boxes EXCEPT ![b] = 0]
    /\ UNCHANGED <<guards, phase, left, holes>>

\* lfi_free, after its boxes: boxmap_delete.
LfiFree ==
    /\ phase = "up" /\ \A b \in Box : boxes[b] = 0
    /\ phase' = "freed"
    /\ va' = Unreserved(regions)
    /\ regions' = <<>>
    /\ UNCHANGED <<guards, left, boxes, holes>>

\* The rest of the program maps a page that is free.
OtherMaps ==
    /\ Cardinality({u \in Unit : va[u] = <<"other">>}) < MaxOthers
    /\ \E u \in Unit : va[u] = <<"free">> /\ va' = Put({u}, <<"other">>)
    /\ UNCHANGED <<guards, phase, left, regions, boxes, holes>>

SpaceNext ==
    \/ LfiNew \/ ReserveMost \/ Reserve \/ GiveUpReserve \/ LfiFree \/ OtherMaps
    \/ \E b \in Box : BoxNew(b) \/ BoxNewFails(b) \/ BoxFree(b)

SpaceSpec == SpaceInit /\ [][SpaceNext]_spaceVars

\* What an engine without guards outside its boxes needs of the embedder: no box
\* is freed while another begins where its range ends.
FreeOrder == \A b, c \in Box : BoxFree(b) /\ boxes[c] # 0 => boxes[c] # boxes[b] + BoxSize

-----------------------------------------------------------------------------
Live == {b \in Box : boxes[b] # 0}

\* Every box has its usable pages, its page of runtime calls and the guard
\* behind it to itself, inside the pages the engine reserved: neighbours share
\* at most the page of runtime calls that lies in the guard between them
\* (box.c: "this page also exists inside the guard region of the adjacent
\* sandbox"), whatever was created, refused and freed before.
BoxesApart ==
    \A b \in Live : LET a == boxes[b] IN
        /\ va[SysPage(a)] = <<"sys", b>>
        /\ \A u \in Usable(a) : va[u] = <<"box", b>>
        /\ \A u \in From(a + BoxSize, guards.external) :
              va[u] \in {<<"reserved">>} \cup {<<"sys", c>> : c \in Live} \/ u \in holes
        /\ \E i \in DOMAIN regions :
              From(a - 1, Footprint + 1) \subseteq From(regions[i].mapbase, regions[i].mapsize)

\* The bit vectors and counts of the regions say which boxes are live, and an
\* engine that is gone holds no page but one it lost track of.
SpacesAccounted ==
    /\ \A i \in DOMAIN regions :
          LET mine == {b \in Live : boxes[b] \in From(regions[i].base, regions[i].size)} IN
          /\ regions[i].active = Cardinality(mine)
          /\ regions[i].bits = UNION {Bits(regions[i], boxes[b], Footprint) : b \in mine}
    /\ phase \in {"failed", "freed"} =>
          \A u \in Unit : va[u] \in {<<"free">>, <<"other">>, <<"forgotten">>}

SpacesSound == BoxesApart /\ SpacesAccounted

\* lfi_core.h: lfi_new reserves "enough virtual address space for 'n'
\* sandboxes", wherever the host puts the reservation, and creating, failing
\* and freeing boxes does not fragment it.
EnoughSpace == phase = "up" /\ NBoxes > 0 /\ Cardinality(Live) < NBoxes => Fitting # {}

\* The library maps nothing over pages of the rest of the program, unless it
\* unmapped them itself inside its reservation.
OthersKept == [][\A u \in Unit \ holes : va[u] = <<"other">> => va'[u] = <<"other">>]_spaceVars
=============================================================================
