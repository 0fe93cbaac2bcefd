------------------------------- MODULE MCSpace -------------------------------
(***************************************************************************)
(* What happens to memory until a program runs and while it runs: an       *)
(* engine deals it out to its boxes (Spaces), a box to the images loaded   *)
(* into it (ElfLoad), whose symbols are looked up (ElfSymbols), a running  *)
(* process to its heap, mappings and stacks (ProcMemory), and a stack to   *)
(* its arguments (MainStack).  They share no variable, so each behaviour   *)
(* follows one of them and leaves the others in an initial state.          *)
(*                                                                         *)
(* Images have one or two segments and two bytes to a page.  The first     *)
(* segment ranges over sizes, offsets, alignments and rights, with all     *)
(* that can be wrong with them; the second is one of a few that may follow *)
(* it.                                                                     *)
(***************************************************************************)
EXTENDS ElfLoad, ElfSymbols, MainStack, ProcMemory, Spaces

CONSTANTS
    Parts,   \* the parts to follow
    InOrder  \* the embedder keeps to FreeOrder
VARIABLE part   \* the one this behaviour follows

\* no_aslr, where mappings and the stack have fixed places.
NoRandom == INSTANCE ProcMemory WITH NoAslr <- TRUE

Seg(v, m, f, o, a, r) ==
    [vaddr |-> v, memsz |-> m, filesz |-> f, off |-> o, align |-> a, flags |-> r]

RX == {"r", "x"}
RW == {"r", "w"}

FirstSegs == {Seg(v, m, f, o, a, r) :
    v \in 0..3, m \in 0..3, f \in 0..3, o \in 0..4, a \in {1, 2, 4}, r \in {RX, RW}}
NextSegs == {Seg(6, 3, 1, 4, 2, RW), Seg(4, 2, 2, 0, 4, RX), Seg(5, 1, 0, 5, 2, RW)}

\* Only what differs later: in range, or refused for one reason.
Plausible(s) == s.filesz <= s.memsz + 1

File(n, ss, i) ==
    [name |-> n, segs |-> ss, interp |-> i, size |-> 5, entry |-> 1, elf |-> TRUE, pie |-> TRUE,
     sections |-> TRUE, symbols |-> {1}]

Plain == File("prog", <<>>, "none")
MCPrograms ==
    {File("prog", <<s>>, "none") : s \in {t \in FirstSegs : Plausible(t)}}
      \cup {File("prog", <<s, t>>, i) : s \in {x \in FirstSegs : Plausible(x) /\ x.align = 2},
                                      t \in NextSegs, i \in {"lfi", "absolute"}}
      \cup {[Plain EXCEPT !.elf = FALSE], [Plain EXCEPT !.pie = FALSE],
            [File("prog", <<>>, "absolute") EXCEPT !.entry = 12]}

MCInterpreters == {File("ld", <<Seg(0, 2, 2, 0, 2, RX), Seg(3, 2, 1, 3, 2, RW)>>, "none")}

\* x86-64, for two boxes and for as many as fit; arm64, whose boxes have no
\* external guard and whose region guard is no multiple of a chunk.
X64 == [internal |-> 0, external |-> 2, region |-> 2, n |-> 2]
X64Configs == {X64, [X64 EXCEPT !.n = 0]}
Arm64Configs == {[internal |-> 1, external |-> 0, region |-> 1, n |-> 2]}
BothConfigs == X64Configs \cup Arm64Configs

\* Libraries: a good one, ones with other symbols and strings, and ones with
\* headers that lead outside the file, wrap around or name the wrong section.
Shdr(n, o, s, l) == [name |-> n, off |-> o, size |-> s, link |-> l]
Sy(n, v) == [name |-> n, value |-> v]
NoSym == Sy(0, 0)
Offs == 0..40
AFile(names, symbols, strings, s1, s2, zero) ==
    [size |-> 12, magic |-> TRUE, shoff |-> 1, shnum |-> 3, strndx |-> 0,
     shdr |-> [i \in 0..2 |-> IF i = 0 THEN names ELSE IF i = 1 THEN symbols ELSE strings],
     nul |-> zero, sym |-> [x \in Offs |-> IF x = 6 THEN s1 ELSE IF x = 7 THEN s2 ELSE NoSym],
     str |-> [x \in Offs |-> IF x = 4 THEN ".dynsym" ELSE IF x = 8 THEN "malloc"
                             ELSE IF x = 10 THEN "free" ELSE "none"]]
Zeros == {{5, 9, 11}, {5, 9}}
Usual(s1, s2, zero) == AFile(Shdr(1, 4, 2, 0), Shdr(0, 6, 2, 2), Shdr(1, 8, 4, 0), s1, s2, zero)
GoodLibrary == Usual(Sy(0, 4), Sy(2, 8), {5, 9, 11})
Odd(n, off, size, l) == {Shdr(n, off, size, l), Shdr(n, off, 15, l), Shdr(n, 14, size, l), Shdr(n, 12, 0, l)}
MCLibraries ==
    {Usual(Sy(n, v), Sy(m, u), z) : n, m \in {0, 2, 5}, v, u \in {4, 6, 20}, z \in Zeros}
      \cup {AFile(a, b, c, Sy(0, 4), Sy(2, 8), z) :
              a \in Odd(1, 4, 2, 0), b \in Odd(0, 6, 2, 2) \cup {Shdr(0, 6, 2, 3), Shdr(2, 6, 2, 2)},
              c \in Odd(1, 8, 4, 0), z \in Zeros \cup {{9, 11}}}
      \cup {[GoodLibrary EXCEPT !.magic = FALSE], [GoodLibrary EXCEPT !.shoff = 0], [GoodLibrary EXCEPT !.shoff = 14],
            [GoodLibrary EXCEPT !.shnum = 15], [GoodLibrary EXCEPT !.shnum = 0], [GoodLibrary EXCEPT !.strndx = 3]}

MCInit ==
    /\ part \in Parts
    /\ IF part = "load" THEN SymInit /\ lib = GoodLibrary /\ LoadInit
       ELSE /\ LoadInit /\ prog = [Plain EXCEPT !.elf = FALSE] /\ mode = "copy"
            /\ SymInit /\ (part # "symbols" => lib = GoodLibrary)
    /\ StackInit /\ MemInit /\ SpaceInit
    /\ part # "spaces" => guards.n # 0 /\ va[2] = <<"free">>

MCNext ==
    /\ UNCHANGED part
    /\ \/ part = "load" /\ LoadNext /\ UNCHANGED <<symVars, stackVars, memVars, spaceVars>>
       \/ part = "symbols" /\ SymNext /\ UNCHANGED <<loadVars, stackVars, memVars, spaceVars>>
       \/ part = "stack" /\ StackNext /\ UNCHANGED <<loadVars, symVars, memVars, spaceVars>>
       \/ part = "memory" /\ MemNext /\ UNCHANGED <<loadVars, symVars, stackVars, spaceVars>>
       \/ part = "no_aslr" /\ NoRandom!MemNext /\ NoRandom!StackFirst
             /\ UNCHANGED <<loadVars, symVars, stackVars, spaceVars>>
       \/ part = "spaces" /\ SpaceNext /\ (InOrder => FreeOrder) /\ UNCHANGED <<loadVars, symVars, stackVars, memVars>>

MCSpec == MCInit /\ [][MCNext]_<<part, loadVars, symVars, stackVars, memVars, spaceVars>>
=============================================================================
