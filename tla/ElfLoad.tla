------------------------------ MODULE ElfLoad ------------------------------
(***************************************************************************)
(* Loading a program and its interpreter into a new sandbox: proc_load of  *)
(* linux/proc.c and its callers, linux/elfload.c, linux/elfsym.c and       *)
(* linux/buf.c.                                                            *)
(*                                                                         *)
(* An image is what its headers say: segments, entry, symbols, size.  A    *)
(* cell of memory holds a byte of a file, named by file and offset, or one *)
(* of the marks below.  The process has no thread yet, so the steps of one *)
(* segment are one action; every request on the sandbox may be refused,    *)
(* which is how verification and exhaustion appear here.                   *)
(***************************************************************************)
EXTENDS Integers, Sequences, FiniteSets

CONSTANTS
    Page,            \* bytes of a page
    BoxMin, BoxMax,  \* proc->box_info
    CodeMax,         \* CODE_MAX
    PhnumMax,        \* PHNUM_MAX
    BrkMax,          \* size of the region kept for brk
    Programs,        \* images to load
    Interpreters     \* images their absolute interpreter paths may name

SegRecord == [vaddr : Nat, memsz : Nat, filesz : Nat, off : Nat, align : Nat,
              flags : SUBSET {"r", "w", "x"}]

\* A box does not begin at address 0; headers hold words; no image has the
\* name of a mark below.
ASSUME LoadAssumption ==
    /\ {Page, CodeMax, PhnumMax} \subseteq Nat \ {0} /\ BrkMax \in Nat
    /\ {BoxMin, BoxMax} \subseteq Nat /\ BoxMin % Page = 0 /\ 0 < BoxMin /\ BoxMin < BoxMax
    /\ \A i \in Programs \cup Interpreters :
          /\ i.segs \in Seq(SegRecord) /\ {i.size, i.entry} \subseteq Nat
          /\ i.name \notin {"none", "free", "zero", "trap", "bus"}

VARIABLES
    prog, mode,    \* what is loaded and how: "copy", "file", "remap"
    interp,        \* the interpreter's image, or NoImage
    fd, buffer,    \* its file and its mapping are open
    stage,         \* "start", "prog", "interp", "symbols", "done", "failed", "crash"
    seg,           \* the next segment of the image being loaded
    base, first, last,  \* of elf_load_one
    info,          \* ELFLoadInfo: what is known of the two images
    entry, brkbase,     \* of the process
    dynsym,        \* symbols were found
    mem, prot      \* bytes of the box and the rights of its pages

loadVars == <<prog, mode, interp, fd, buffer, stage, seg, base, first, last, info,
              entry, brkbase, dynsym, mem, prot>>

NoImage == [name |-> "none"]
Addr == BoxMin..(BoxMax - 1)
PageNo == (BoxMin \div Page)..((BoxMax - 1) \div Page)
Rights == SUBSET {"r", "w", "x"}

\* What a byte of memory holds when it is not a byte of a file.
Mark(m) == <<m, 0>>
Free == Mark("free")
Zero == Mark("zero")
Trap == Mark("trap")  \* int3
Beyond == Mark("bus")  \* a page mapped past the end of its file

Trunc(x, a) == x - (x % a)
Ceil(x, a) == Trunc(x + a - 1, a)

LoadInit ==
    /\ prog \in Programs /\ mode \in {"copy", "file", "remap"}
    /\ interp = NoImage /\ fd = FALSE /\ buffer = FALSE
    /\ stage = "start" /\ seg = 1
    /\ base = BoxMin /\ first = 0 /\ last = 0
    /\ info = [elfbase |-> 0, elfentry |-> 0, ldentry |-> 0, lastva |-> 0]
    /\ entry = 0 /\ brkbase = 0 /\ dynsym = FALSE
    /\ mem = [a \in Addr |-> Free]
    /\ prot = [p \in PageNo |-> {}]

-----------------------------------------------------------------------------
(* The file, and the box under it. *)

\* mmap of a file: its bytes, zeroes up to the end of the last page, no more.
FileByte(image, o) == IF o < image.size THEN <<image.name, o>>
                      ELSE IF o < Ceil(image.size, Page) THEN Zero ELSE Beyond

InBox(a, b) == BoxMin <= a /\ a <= b /\ b <= BoxMax

\* Pages a..b-1 of memory m filled by f, with rights r.
Filled(m, a, b, f(_)) == [x \in Addr |-> IF a <= x /\ x < b THEN f(x) ELSE m[x]]
Granted(p, a, b, r) == [x \in PageNo |-> IF a <= x * Page /\ x * Page < b THEN r ELSE p[x]]

ZeroFill(x) == Zero

\* sanitize of one page of a segment that will be executable, on x86-64.
Sanitized(m, a, r) == IF "x" \in r THEN Filled(m, a, a + Page, LAMBDA x : Trap) ELSE m

-----------------------------------------------------------------------------
(* elf_load_one. *)

\* elf_check and the other conditions on the ELF header.
HeaderOK(image) ==
    /\ image.elf /\ image.pie
    /\ Len(image.segs) <= PhnumMax
    /\ image.entry < CodeMax

PowerOfTwo(a) == \E i \in 0..a : a = 2^i

SegOK(s) ==
    /\ s.align # 0 /\ PowerOfTwo(s.align) /\ s.align % Page = 0
    /\ s.filesz <= s.memsz
    /\ Ceil(s.vaddr + s.memsz, s.align) < CodeMax

\* Program headers without memory are passed over.
SkipsFrom(image, i) == {j \in i..Len(image.segs) : image.segs[j].memsz # 0}
NextSeg(image, i) == IF SkipsFrom(image, i) = {} THEN Len(image.segs) + 1
                     ELSE CHOOSE j \in SkipsFrom(image, i) : \A k \in SkipsFrom(image, i) : j <= k

\* The segment in memory, for an image at b.
Start(s, b) == b + Trunc(s.vaddr, s.align)
End(s, b) == b + Ceil(s.vaddr + s.memsz, s.align)

FileStart(s) == Trunc(s.off, s.align)

\* buf_read: as much of the segment as the file has, if that is all of it.
ReadsWhole(image, s) ==
    s.filesz = 0 \/ (s.off < image.size /\ s.filesz <= image.size - s.off)

Copied(m, image, s, b) ==
    Filled(m, b + s.vaddr, b + s.vaddr + s.filesz,
           LAMBDA x : <<image.name, s.off + (x - (b + s.vaddr))>>)

\* ELF_MAP from memory: a zeroed mapping, the file's bytes, then the rights.
CopyIn(image, s, b) ==
    LET z == Filled(mem, Start(s, b), End(s, b), ZeroFill)
        t == Sanitized(Sanitized(z, Start(s, b), s.flags), End(s, b) - Page, s.flags)
    IN /\ InBox(Start(s, b), End(s, b)) /\ ReadsWhole(image, s)
       /\ mem' = Copied(t, image, s, b)

\* ELF_MAP from a file: its pages, and beyond filesz zeroes: up to the end of
\* that page by hand, from there on by another mapping.
BssStart(s, b) == b + s.vaddr + s.filesz
BssRestAtEnd(s, b) == End(s, b)  \* Mutation: cleared by hand to the end
BssRest(s, b) == Ceil(BssStart(s, b), Page)

Mapped(image, s, b) ==
    Filled(mem, Start(s, b), End(s, b),
           LAMBDA x : FileByte(image, FileStart(s) + (x - Start(s, b))))

BssPagesOnly(m, s, b) ==  \* Mutation: the tail of the last file page is kept
    IF s.memsz = s.filesz THEN m ELSE Filled(m, BssRest(s, b), End(s, b), ZeroFill)

BssCleared(m, s, b) ==
    IF s.memsz = s.filesz THEN m
    ELSE Filled(Filled(m, BssStart(s, b), BssRest(s, b), ZeroFill),
                BssRest(s, b), End(s, b), ZeroFill)

MapIn(image, s, b) ==
    /\ InBox(Start(s, b), End(s, b))
    /\ s.memsz > s.filesz => "w" \in s.flags
    /\ mem' = BssCleared(Mapped(image, s, b), s, b)

\* memset on a page that no byte of the file backs.
ClearsBeyond(image, s, b) ==
    /\ InBox(Start(s, b), End(s, b))
    /\ s.memsz > s.filesz /\ "w" \in s.flags
    /\ \E x \in BssStart(s, b)..(BssRest(s, b) - 1) :
          x < End(s, b) /\ Mapped(image, s, b)[x] = Beyond

\* ELF_REMAP of an executable segment: the pages of the buffer themselves.
RemapIn(image, s, b) ==
    /\ InBox(Start(s, b), End(s, b))
    /\ FileStart(s) <= Ceil(image.size, Page)
    /\ End(s, b) - Start(s, b) <= Ceil(image.size, Page) - FileStart(s)
    /\ mem' = Mapped(image, s, b)

Way(s) == IF mode = "remap" /\ "x" \notin s.flags THEN "copy" ELSE mode

-----------------------------------------------------------------------------
Image == IF stage = "interp" THEN interp ELSE prog
Places == <<base, first, last>>
Process == <<info, entry, brkbase, dynsym>>
Fail == stage' = "failed" /\ UNCHANGED <<seg, Places, Process, mem, prot>>

\* proc_load: the interpreter the program names.  One that is not absolute is
\* ignored, "lfi" means none.  Loading from memory, its file is closed again.
Begin ==
    /\ stage = "start"
    /\ \/ /\ prog.interp # "absolute"
          /\ stage' = "prog" /\ UNCHANGED <<interp, fd, buffer>>
       \/ /\ prog.interp = "absolute"
          /\ \/ \E i \in Interpreters :
                  interp' = i /\ stage' = "prog" /\ buffer' = TRUE /\ fd' = (mode = "file")
             \/ stage' = "failed" /\ UNCHANGED <<interp, fd, buffer>>
    /\ seg' = 1
    /\ UNCHANGED <<prog, mode, Places, Process, mem, prot>>

BadHeader ==
    /\ stage \in {"prog", "interp"} /\ seg = 1 /\ ~HeaderOK(Image)
    /\ Fail
    /\ UNCHANGED <<prog, mode, interp, fd, buffer>>

\* The lowest address so far, and the end of the highest segment.
Lowest(a) == IF first = 0 \/ a < first THEN a ELSE first
Highest(a) == IF a > last THEN a ELSE last

PutSegment(s) ==
    CASE Way(s) = "copy" -> CopyIn(Image, s, base)
      [] Way(s) = "file" -> MapIn(Image, s, base)
      [] Way(s) = "remap" -> RemapIn(Image, s, base)

Segment ==
    LET i == NextSeg(Image, seg)
        s == Image.segs[i] IN
    /\ stage \in {"prog", "interp"} /\ HeaderOK(Image) /\ i <= Len(Image.segs)
    /\ \/ /\ SegOK(s) /\ PutSegment(s)
          /\ prot' = Granted(prot, Start(s, base), End(s, base), s.flags)
          /\ seg' = i + 1
          /\ first' = Lowest(Start(s, base)) /\ last' = Highest(End(s, base))
          /\ UNCHANGED <<stage, base, Process>>
       \/ /\ SegOK(s) /\ Way(s) = "file" /\ ClearsBeyond(Image, s, base)
          /\ stage' = "crash"
          /\ UNCHANGED <<seg, Places, Process, mem, prot>>
       \/ Fail  \* a check on the segment, or the sandbox refuses a mapping
    /\ UNCHANGED <<prog, mode, interp, fd, buffer>>

\* elf_load: the program at the bottom of the box, the interpreter after it.
ProgramLoaded ==
    /\ stage = "prog" /\ HeaderOK(prog) /\ NextSeg(prog, seg) > Len(prog.segs)
    /\ info' = [info EXCEPT !.elfbase = first, !.elfentry = base + prog.entry, !.lastva = last]
    /\ IF interp = NoImage
          THEN stage' = "symbols" /\ UNCHANGED <<seg, Places>>
          ELSE stage' = "interp" /\ seg' = 1 /\ base' = last /\ first' = 0 /\ last' = 0
    /\ UNCHANGED <<prog, mode, interp, fd, buffer, entry, brkbase, dynsym, mem, prot>>

InterpLoaded ==
    /\ stage = "interp" /\ HeaderOK(interp) /\ NextSeg(interp, seg) > Len(interp.segs)
    /\ info' = [info EXCEPT !.ldentry = base + interp.entry, !.lastva = last]
    /\ stage' = "symbols"
    /\ UNCHANGED <<prog, mode, interp, fd, buffer, seg, Places, entry, brkbase, dynsym, mem, prot>>

\* The rest of proc_load: entry point, symbols, the region of the break, and
\* buf_close, which does nothing for a buffer without a file.
Entry(i) == IF interp = NoImage THEN i.elfentry ELSE i.ldentry

Finish ==
    /\ stage = "symbols"
    /\ entry' = Entry(info)
    /\ dynsym' \in {FALSE, prog.sections}
    /\ brkbase' = info.lastva
    /\ \/ /\ BrkMax > 0 => InBox(info.lastva, info.lastva + BrkMax)
          /\ mem' = Filled(mem, info.lastva, info.lastva + BrkMax, ZeroFill)
          /\ prot' = Granted(prot, info.lastva, info.lastva + BrkMax, {})
          /\ stage' = "done"
          /\ fd' = FALSE /\ buffer' = (buffer /\ ~fd)
       \/ /\ BrkMax > 0 /\ stage' = "failed"
          /\ UNCHANGED <<mem, prot, fd, buffer>>
    /\ UNCHANGED <<prog, mode, interp, seg, Places, info>>

LoadNext == Begin \/ BadHeader \/ Segment \/ ProgramLoaded \/ InterpLoaded \/ Finish
LoadSpec == LoadInit /\ [][LoadNext]_loadVars

-----------------------------------------------------------------------------
\* What a linker promises: offsets and addresses agree modulo the alignment,
\* segments share no page, the file has their bytes, code has no tail of zeroes.
WellFormed(image) ==
    LET n == Len(image.segs) IN
    /\ \A i \in 1..n : LET s == image.segs[i] IN
          /\ SegOK(s) /\ s.off % s.align = s.vaddr % s.align
          /\ s.off + s.filesz <= image.size
          /\ s.memsz > s.filesz => "w" \in s.flags /\ "x" \notin s.flags
    /\ \A i, j \in 1..n : i < j => End(image.segs[i], 0) <= Start(image.segs[j], 0)

\* The image as the ELF specification describes it, at load address b.
HoldsSegment(image, s, b) ==
    /\ \A k \in 0..(s.filesz - 1) : mem[b + s.vaddr + k] = <<image.name, s.off + k>>
    /\ \A k \in s.filesz..(s.memsz - 1) : mem[b + s.vaddr + k] = Zero
    /\ \A x \in PageNo : Start(s, b) <= x * Page /\ x * Page < End(s, b) => prot[x] = s.flags

HoldsImage(image, b) ==
    \A i \in 1..Len(image.segs) :
        image.segs[i].memsz # 0 => HoldsSegment(image, image.segs[i], b)

\* A process that was loaded holds its program and its interpreter in full,
\* however they were brought in, whatever was mapped after them.
ImagesHeld ==
    stage = "done" =>
        /\ WellFormed(prog) => HoldsImage(prog, BoxMin)
        /\ interp # NoImage /\ WellFormed(interp) => HoldsImage(interp, base)

\* It starts in the interpreter if there is one, at a byte of the image that
\* is executable, and the break region, if one is kept, begins behind
\* everything.
StartsInside ==
    stage = "done" =>
        LET image == IF interp = NoImage THEN prog ELSE interp IN
        /\ (\E i \in 1..Len(image.segs) : LET s == image.segs[i] IN
                 "x" \in s.flags /\ s.vaddr <= image.entry /\ image.entry < s.vaddr + s.memsz)
             /\ WellFormed(image)
             => entry \in Addr /\ mem[entry][1] = image.name /\ "x" \in prot[entry \div Page]
        /\ BrkMax > 0 => \A a \in Addr : mem[a][1] \in {prog.name, interp.name} => a < brkbase

\* A process that lfi_proc_load returned is what its files say: both of the above.
LoadedSound == ImagesHeld /\ StartsInside

\* Loading a well-formed file writes to no page the file does not back.
NoBusError == stage = "crash" => ~WellFormed(IF base = BoxMin THEN prog ELSE interp)

=============================================================================
