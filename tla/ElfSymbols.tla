----------------------------- MODULE ElfSymbols -----------------------------
(***************************************************************************)
(* The dynamic symbols of a library (linux/elfsym.c): finding .dynsym and  *)
(* its strings in the file, copying them, looking names up, and the entry  *)
(* points that the engine calls.  Sizes and offsets are words, as in an    *)
(* ELF file, and need not make sense; a section header and a symbol take   *)
(* one byte, and a string is named by the bytes it starts with.            *)
(***************************************************************************)
EXTENDS Integers, FiniteSets

CONSTANTS
    OffBits,      \* width of a file offset
    Libraries,    \* the files
    LibMin, LibMax, \* proc->box_info
    LoadBase,     \* proc->elfinfo.elfbase
    LibSyms       \* names of the entry points

\* Header and sections hold words, and every byte of the file is there to read.
ASSUME SymbolsAssumption ==
    /\ {LibMin, LibMax, LoadBase} \subseteq Nat
    /\ \A l \in Libraries :
          /\ {l.size, l.shoff, l.shnum, l.strndx} \subseteq Nat
          /\ l.shoff + l.shnum <= l.size => \A i \in 0..(l.shnum - 1) :
                {l.shdr[i].off, l.shdr[i].size, l.shdr[i].link} \subseteq Nat
          /\ \A x \in 0..(l.size - 1) : l.sym[x].value \in Nat

VARIABLES
    lib,       \* the file: records [size, magic, shoff, shnum, strndx, shdr, nul, str, sym]
    at,        \* "start", "found", "loaded", "failed"
    touched,   \* bytes of the file that have been read
    symtab,    \* the sections found, then proc->dynsym and proc->dynstr:
               \* records [off, size]
    strtab,
    libsyms    \* proc->libsyms; 0 is none

symVars == <<lib, at, touched, symtab, strtab, libsyms>>

NoSection == [off |-> 0, size |-> 0]
OffWord == 2 ^ OffBits
FirstOf(S) == CHOOSE i \in S : \A j \in S : i <= j

SymInit ==
    /\ lib \in Libraries
    /\ at = "start" /\ touched = {}
    /\ symtab = NoSection /\ strtab = NoSection
    /\ libsyms = [s \in LibSyms |-> 0]

-----------------------------------------------------------------------------
RegionOKSum(off, len, size) == (off + len) % OffWord <= size  \* Mutation: the sum may wrap
RegionOK(off, len, size) == off <= size /\ len <= size - off

\* The string at offset x of the section t ends before the section does.
StrInBounds(t, x) == x < t.size /\ \E z \in lib.nul : z \in (t.off + x)..(t.off + t.size - 1)

Section(i) == lib.shdr[i]
InFile(t) == RegionOK(t.off, t.size, lib.size)
Span(t) == t.off..(t.off + t.size - 1)

HeadersOK ==
    /\ lib.magic
    /\ lib.shoff # 0 /\ lib.shnum # 0
    /\ RegionOK(lib.shoff, lib.shnum, lib.size)
    /\ lib.strndx < lib.shnum

\* The header of .dynsym, the first section of that name.
DynSyms ==
    LET names == Section(lib.strndx) IN
    {i \in 0..(lib.shnum - 1) :
        /\ StrInBounds(names, Section(i).name)
        /\ lib.str[names.off + Section(i).name] = ".dynsym"}

\* load_dynshs and the checks of elf_loadsyms.
FindSections ==
    /\ at = "start"
    /\ LET names == Section(lib.strndx)
           s == Section(FirstOf(DynSyms))
           t == Section(s.link)
           found == /\ HeadersOK /\ InFile(names) /\ DynSyms # {}
                    /\ s.link < lib.shnum /\ InFile(s) /\ InFile(t)
       IN  /\ touched' = (IF HeadersOK THEN lib.shoff..(lib.shoff + lib.shnum - 1) ELSE {})
                           \cup (IF HeadersOK /\ InFile(names) THEN Span(names) ELSE {})
           /\ at' = IF found THEN "found" ELSE "failed"
           /\ symtab' = IF found THEN [off |-> s.off, size |-> s.size] ELSE NoSection
           /\ strtab' = IF found THEN [off |-> t.off, size |-> t.size] ELSE NoSection
    /\ UNCHANGED <<lib, libsyms>>

\* Either copy may find no memory.  After the second the first is dropped too;
\* after the first the size of the symbols stays, without their data.
CopySections ==
    /\ at = "found"
    /\ \/ /\ at' = "loaded" /\ touched' = touched \cup Span(symtab) \cup Span(strtab)
          /\ UNCHANGED <<symtab, strtab>>
       \/ /\ at' = "failed" /\ touched' = touched \cup Span(symtab)
          /\ symtab' = NoSection /\ strtab' = NoSection
       \/ /\ at' = "failed" /\ strtab' = NoSection
          /\ UNCHANGED <<symtab, touched>>
    /\ UNCHANGED <<lib, libsyms>>

-----------------------------------------------------------------------------
Symbol(i) == lib.sym[symtab.off + i]
NameOf(i) == lib.str[strtab.off + Symbol(i).name]
Matches(name) ==
    {i \in 0..(symtab.size - 1) : StrInBounds(strtab, Symbol(i).name) /\ NameOf(i) = name}

\* lfi_proc_sym
ProcSym(name) ==
    IF Matches(name) = {} THEN 0 ELSE LoadBase + Symbol(FirstOf(Matches(name))).value

\* loadsym: not of an address outside the box, nor of a misaligned one.
LoadSym(s) ==
    /\ at = "loaded" /\ libsyms[s] = 0
    /\ LET p == ProcSym(s) IN
       libsyms' = [libsyms EXCEPT ![s] = IF LibMin <= p /\ p < LibMax /\ p % 4 = 0 THEN p ELSE 0]
    /\ UNCHANGED <<lib, at, touched, symtab, strtab>>

SymNext ==
    \/ FindSections \/ CopySections
    \/ \E s \in LibSyms : LoadSym(s)

SymSpec == SymInit /\ [][SymNext]_symVars

-----------------------------------------------------------------------------
\* Whatever the header, the sections and the symbols say, only bytes of the
\* file are read; a name is compared only with strings that end inside the
\* string section; and an entry point that the engine will call is the address
\* of a symbol of its name, aligned and inside the box.
SymbolsSound ==
    /\ touched \subseteq 0..(lib.size - 1)
    /\ at = "loaded" => Span(symtab) \cup Span(strtab) \subseteq touched
    /\ at = "loaded" => \A s \in LibSyms : \A i \in Matches(s) :
           \E z \in lib.nul : z \in (strtab.off + Symbol(i).name)..(strtab.off + strtab.size - 1)
    /\ \A s \in LibSyms : libsyms[s] # 0 =>
           /\ libsyms[s] \in LibMin..(LibMax - 1) /\ libsyms[s] % 4 = 0
           /\ \E i \in Matches(s) : libsyms[s] = LoadBase + Symbol(i).value
=============================================================================
