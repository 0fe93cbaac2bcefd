-------------------------------- MODULE Paths --------------------------------
(***************************************************************************)
(* Sandbox paths and where they lead: the part of linux/cwalk.c that the   *)
(* engine uses, and path_resolve of linux/path.c.                          *)
(*                                                                         *)
(* A path is a sequence of tokens: separators, which may be repeated, and  *)
(* between them segments.  What is inside a segment is abstracted, apart   *)
(* from "." and "..".  Lengths count tokens, so a path that is too long    *)
(* for its buffer loses whole tokens.                                      *)
(***************************************************************************)
EXTENDS Integers, Sequences, FiniteSets, SequencesExt

CONSTANTS
    Names,    \* ordinary segments
    Maps,     \* dir_maps in order: records [box, host] of paths
    MaxPath   \* what a buffer of FILENAME_MAX holds

Token == Names \cup {"/", ".", ".."}
Path == Seq(Token)

ASSUME PathAssumption == MaxPath \in Nat \ {0} /\ Names \cap {"/", ".", ".."} = {}
ASSUME MapAssumption == Maps \in Seq([box : Path, host : Path])

NoPath == <<"none">>

InOrder(S) == [n \in 1..Cardinality(S) |-> CHOOSE i \in S : Cardinality({j \in S : j < i}) = n - 1]

IsSeparator(x) == x = "/"

\* The length of the root; only the first separator belongs to it.
Root(p) == IF p # <<>> /\ IsSeparator(p[1]) THEN 1 ELSE 0
IsAbsolute(p) == Root(p) > 0

\* Where the segments of p are, in order: what a walk from the first segment
\* through the next ones visits, and one from the last through the previous ones.
Positions(p) == InOrder({i \in DOMAIN p : ~IsSeparator(p[i])})
Segments(p) == [i \in DOMAIN Positions(p) |-> p[Positions(p)[i]]]

\* The walk over several paths at once; a root inside the list only separates.
Joined(ps) == FlattenSeq([i \in DOMAIN ps |-> Segments(ps[i])])

Kind(s) == IF s = "." THEN "current" ELSE IF s = ".." THEN "back" ELSE "normal"
Count(segs, k, from, to) == Cardinality({i \in from..to : Kind(segs[i]) = k})

\* A back segment goes if some stretch before it ends with more normal than
\* back segments; a normal one if some stretch after it starts with more back
\* than normal segments.
BackRemoved(segs, i) ==
    \E j \in 1..(i - 1) : Count(segs, "normal", j, i - 1) > Count(segs, "back", j, i - 1)
NormalBeforeBack(segs, i) ==  \* Mutation: looks at the next segment only
    i < Len(segs) /\ Kind(segs[i + 1]) = "back"
NormalRemoved(segs, i) ==
    \E j \in (i + 1)..Len(segs) : Count(segs, "back", i + 1, j) > Count(segs, "normal", i + 1, j)

Removed(segs, i, absolute) ==
    \/ Kind(segs[i]) = "current"
    \/ Kind(segs[i]) = "back" /\ (absolute \/ BackRemoved(segs, i))
    \/ Kind(segs[i]) = "normal" /\ NormalRemoved(segs, i)

Visible(segs, absolute) ==
    InOrder({i \in DOMAIN segs : ~Removed(segs, i, absolute)})

\* Truncated to the buffer, silently.
Output(p) == SubSeq(p, 1, IF Len(p) < MaxPath THEN Len(p) ELSE MaxPath)

Spell(absolute, segs) ==
    (IF absolute THEN <<"/">> ELSE <<>>)
      \o [i \in 1..(2 * Len(segs) - 1) |-> IF i % 2 = 1 THEN segs[(i + 1) \div 2] ELSE "/"]

\* cwk_path_join_and_normalize_multiple
JoinAndNormalize(ps) ==
    LET absolute == IsAbsolute(ps[1])
        segs == Joined(ps)
        kept == Visible(segs, absolute)
        out == Spell(absolute, [i \in DOMAIN kept |-> segs[kept[i]]])
    IN  IF segs # <<>> /\ out = <<>> THEN <<".">> ELSE Output(out)

Join(a, b) == JoinAndNormalize(<<a, b>>)
Normalize(p) == JoinAndNormalize(<<p>>)

\* How far base and other lead to the same place, as a length of base.
Intersection(base, other) ==
    LET a == IsAbsolute(base)
        bs == Segments(base)  bv == Visible(bs, a)
        os == Segments(other) ov == Visible(os, a)
        same == {n \in 1..Len(bv) : n <= Len(ov) /\ \A i \in 1..n : bs[bv[i]] = os[ov[i]]}
    IN  IF a # IsAbsolute(other) THEN 0
        ELSE IF same = {} THEN Root(base)
        ELSE Positions(base)[bv[Cardinality(same)]]

-----------------------------------------------------------------------------
(* path_resolve. *)

\* The mapping with the longest match, the first of them if there are several.
BestMap(path) ==
    LET common(i) == Intersection(path, Maps[i].box)
        best == {i \in DOMAIN Maps : common(i) > 0 /\ \A j \in DOMAIN Maps :
                    common(j) < common(i) \/ (common(j) = common(i) /\ j >= i)}
    IN  IF best = {} THEN 0 ELSE CHOOSE i \in best : TRUE

Resolve(cwd, p) ==
    LET path == Normalize(IF IsAbsolute(p) THEN p ELSE Join(cwd, p))
        m == BestMap(path)
    IN  IF m = 0 THEN NoPath
        ELSE Join(Maps[m].host, SubSeq(path, Intersection(path, Maps[m].box) + 1, Len(path)))

-----------------------------------------------------------------------------
(* What a path means: names are pushed, ".." pops, and the root has no     *)
(* parent.  A mapping holds what is below its sandbox directory.           *)

Walk(from, segs) ==
    FoldLeft(LAMBDA at, s : IF s = "." THEN at
                            ELSE IF s # ".." THEN Append(at, s)
                            ELSE IF at = <<>> THEN at ELSE Front(at), from, segs)

Place(cwd, p) == IF IsAbsolute(p) THEN Walk(<<>>, Segments(p))
                                  ELSE Walk(Walk(<<>>, Segments(cwd)), Segments(p))

Dir(m) == Walk(<<>>, Segments(m.box))
Holds(m, place) == IsPrefix(Dir(m), place)

Located(cwd, p) ==
    LET place == Place(cwd, p)
        fit == {m \in {Maps[i] : i \in DOMAIN Maps} : Holds(m, place)}
        best == CHOOSE m \in fit : \A n \in fit : Len(Dir(n)) <= Len(Dir(m))
    IN  IF fit = {} THEN NoPath
        ELSE Spell(TRUE, Walk(<<>>, Segments(best.host)) \o SubSeq(place, Len(Dir(best)) + 1, Len(place)))

\* path_resolve takes a mapping for what its directory has in common with the
\* path, be the path inside or not, and the first of equals.  That is the
\* enclosing one if every directory on the way to a mapped one has a mapping
\* of its own, earlier in the list.
MapsNested ==
    /\ \A i \in DOMAIN Maps :
          /\ IsAbsolute(Maps[i].box) /\ IsAbsolute(Maps[i].host)
          /\ \A n \in 0..(Len(Dir(Maps[i])) - 1) :
                \E j \in 1..(i - 1) : Dir(Maps[j]) = SubSeq(Dir(Maps[i]), 1, n)
    /\ \A i, j \in DOMAIN Maps : Dir(Maps[i]) = Dir(Maps[j]) => i = j
=============================================================================
