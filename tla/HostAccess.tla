----------------------------- MODULE HostAccess -----------------------------
(***************************************************************************)
(* What host code does with the addresses and sizes it gets from a         *)
(* sandbox: the checks of core/box.c and linux/sys/sys.h, the system calls *)
(* that read or write a buffer, the allocation calls of                    *)
(* linux/trampoline.c and the transfers of the C++ binding (sbox/lfi.h).   *)
(* Addresses and sizes are words of Bits bits; a copy that went past the   *)
(* last of them is visible, because the bytes it touches are integers.     *)
(***************************************************************************)
EXTENDS Integers, FiniteSets, Sequences

CONSTANTS
    Bits,             \* width of an address and of size_t
    BoxLow, BoxHigh,  \* box->min, box->max
    NameMax,          \* FILENAME_MAX
    IovMax, IovSize,  \* IOV_MAX_LFI and the size of an entry
    AllocAlign,       \* what a sandbox allocator aligns to
    CpuMask,          \* bytes of the host's CPU mask
    Layout,           \* size and alignment of the structures of the system calls
    Dirents,          \* where the entries of a directory end in a buffer, in its order
    ElemSizes,        \* sizes of the C++ types the embedder uses
    Strings           \* sets of addresses whose bytes are zero

Word == 2 ^ Bits
Addr == 0..(Word - 1)
ASSUME AccessAssumption ==
    /\ Bits \in Nat /\ Word \in Nat /\ BoxHigh \in Nat /\ BoxLow \in 1..BoxHigh /\ BoxHigh < Word
    /\ NameMax \in Nat \ {0} /\ IovMax \in Nat \ {0} /\ IovSize \in Nat
    /\ \A n \in 0..IovMax : n * IovSize < Word
    /\ CpuMask \in Nat /\ ElemSizes \subseteq Nat /\ Dirents \in Seq(Nat)
    /\ {"timespec", "rlimit", "utsname", "sysinfo", "name", "winsize", "stat"} \subseteq DOMAIN Layout
    /\ \A s \in DOMAIN Layout : Layout[s].size \in Nat
    /\ Strings \subseteq SUBSET Addr

VARIABLES
    nul,   \* the zero bytes of memory
    last   \* the last call: its answer, the bytes host code has touched, and
           \* the buffers it has handed out as inside the sandbox

accessVars == <<nul, last>>

Bytes(p, n) == p..(p + n - 1)
Smaller(a, b) == IF a < b THEN a ELSE b

NoCall == [answer |-> "none", touched |-> {}, granted |-> {}, text |-> {}]
Ends(a, bytes) == last' = [NoCall EXCEPT !.answer = a, !.touched = bytes] /\ UNCHANGED nul
Grants(p, n) == last' = [NoCall EXCEPT !.answer = "ok", !.granted = {<<p, n>>}] /\ UNCHANGED nul
EndsText(texts, bytes) ==
    last' = [NoCall EXCEPT !.answer = "ok", !.touched = bytes, !.text = texts] /\ UNCHANGED nul

AccessInit == nul \in Strings /\ last = NoCall

-----------------------------------------------------------------------------
(* The checks. *)

PtrValid(p) == p >= BoxLow /\ p < BoxHigh

BufValidSum(p, n) == p >= BoxLow /\ (p + n) % Word <= BoxHigh  \* Mutation: the sum may wrap
BufValid(p, n) == p >= BoxLow /\ p <= BoxHigh /\ n <= BoxHigh - p

BufCheck(p, n, align) == BufValid(p, n) /\ p % align = 0

CheckedMul(count, size) == count * size < Word

\* strnlen looks at the bytes up to the first zero, at most limit of them.
Scan(p, limit) == {b \in Bytes(p, limit) : \A z \in nul : z >= p => b <= z}
Length(p, limit) == Cardinality(Scan(p, limit) \ nul)

Limit(p, max) == Smaller(max, BoxHigh - p)
Unterminated(p, max) == ~PtrValid(p) \/ Length(p, Limit(p, max)) = Limit(p, max)

-----------------------------------------------------------------------------
(* System calls.  Where there is a descriptor it may be bad. *)

Refuse == Ends("refused", {})

Buffer(p, n, align) == IF BufCheck(p, n, align) THEN Ends("ok", Bytes(p, n)) ELSE Refuse
Struct(p, s) == Buffer(p, Layout[s].size, Layout[s].align)

SysWrite(p, n) == IF n = 0 THEN Ends("ok", {}) ELSE Refuse \/ Buffer(p, n, 1)
SysPread(p, n) == IF n = 0 THEN Ends("ok", {}) ELSE Refuse \/ Buffer(p, n, 1)
SysPwrite(p, n) == IF n = 0 THEN Ends("ok", {}) ELSE Refuse \/ Buffer(p, n, 1)

\* host_getdents64: the Linux call may fill the buffer; where the host has no
\* such call, whole entries are copied as long as they fit and readdir finds
\* one, and it is an error that the first does not fit or cannot be read.
DirentBytes(k) == IF k = 0 THEN 0 ELSE Dirents[k]
Copied(n) == {k \in 0..Len(Dirents) : \A i \in 1..k : DirentBytes(i) <= n}
HostGetdents(p, n) ==
    \E k \in Copied(n) :
        IF k = 0 /\ Dirents # <<>> THEN Refuse ELSE Ends("ok", Bytes(p, DirentBytes(k)))

SysGetdents(p, n) ==
    \/ Refuse
    \/ Buffer(p, n, Layout["dirent"].align)
    \/ BufCheck(p, n, Layout["dirent"].align) /\ HostGetdents(p, n)
SysGetrandom(p, n) == Refuse \/ Buffer(p, n, 1)

SysClockGettime(p) == Refuse \/ Struct(p, "timespec")
SysGetrlimit(p) == Refuse \/ Struct(p, "rlimit")
SysUname(p) == Struct(p, "utsname")
SysSysinfo(p) == Struct(p, "sysinfo")
SysPrctl(p) == Refuse \/ Struct(p, "name")
SysIoctl(p) == Refuse \/ Struct(p, "winsize")

\* rem is written after a sleep that was not interrupted, with what the host did
\* not set; an interrupted sleep returns before.
SysNanosleep(req, rem) ==
    LET s == Layout["timespec"]
        slept == Bytes(req, s.size)
    IN  IF ~BufCheck(req, s.size, s.align) THEN Refuse
        ELSE \/ Ends("refused", slept)  \* the host's nanosleep fails
             \/ IF rem = 0 THEN Ends("ok", slept)
                ELSE IF BufCheck(rem, s.size, s.align) THEN Ends("ok", slept \cup Bytes(rem, s.size))
                ELSE Ends("refused", slept)

\* The working directory, with its zero, cut to the buffer.
SysGetcwd(p, n, cwdLen) ==
    IF n = 0 THEN Ends("ok", {})
    ELSE IF BufCheck(p, n, 1) THEN Ends("ok", Bytes(p, Smaller(n, cwdLen + 1)))
    ELSE Refuse

SysGetaffinity(p, n) == IF n < CpuMask THEN Refuse ELSE Buffer(p, CpuMask, 1)

\* pathcopy: a path that is too long is cut.
PathMost(p) == Smaller(BoxHigh - p, NameMax - 1)
PathBytes(p) == Scan(p, PathMost(p))
PathText(p) == <<p, Length(p, PathMost(p))>>

\* A path may not resolve, and the host's call on it may fail.
OnPath(p) ==
    IF ~PtrValid(p) THEN Refuse
    ELSE Ends("refused", PathBytes(p)) \/ EndsText({PathText(p)}, PathBytes(p))

SysFaccessat(p) == Refuse \/ OnPath(p)
SysMkdirat(p) == Refuse \/ OnPath(p)
SysUnlinkat(p) == Refuse \/ OnPath(p)
SysTruncate(p) == OnPath(p)
SysChmod(p) == OnPath(p)

\* renameat and renameat2: the second path is looked at when the first resolves.
SysRenameat(old, new) ==
    \/ Refuse
    \/ PtrValid(old) /\ Ends("refused", PathBytes(old))
    \/ /\ PtrValid(old) /\ PtrValid(new)
       /\ LET both == PathBytes(old) \cup PathBytes(new)
          IN  Ends("refused", both) \/ EndsText({PathText(old), PathText(new)}, both)

\* A call that also fills the buffer of n bytes at p.
PathAndBuffer(path, p, n, align) ==
    /\ PtrValid(path) /\ BufCheck(p, n, align)
    /\ EndsText({PathText(path)}, PathBytes(path) \cup Bytes(p, n))

\* The path comes first: it is read even when the buffer is refused.
SysReadlink(path, p, n) ==
    \/ Refuse
    \/ PtrValid(path) /\ Ends("refused", PathBytes(path))
    \/ PathAndBuffer(path, p, n, 1)

\* The buffer comes first.  With an empty path the descriptor decides.
SysNewfstatat(path, p) ==
    \/ Refuse
    \/ Struct(p, "stat")
    \/ /\ BufCheck(p, Layout["stat"].size, Layout["stat"].align) /\ PtrValid(path)
       /\ Ends("refused", PathBytes(path))
    \/ PathAndBuffer(path, p, Layout["stat"].size, Layout["stat"].align)

\* A place for the answer is refused.
SysTime(p) == IF p # 0 THEN Refuse ELSE Ends("ok", {})

\* readv and writev: the array is copied before it is used, so other sandbox
\* threads cannot change an entry between its check and its use.
SysVector(p, cnt, base, len) ==
    LET array == Bytes(p, cnt * IovSize) IN
    IF cnt > IovMax THEN Refuse
    ELSE IF cnt = 0 THEN Ends("ok", {})
    ELSE IF ~BufCheck(p, (cnt * IovSize) % Word, Layout["iovec"].align) THEN Refuse
    ELSE IF len = 0 THEN Ends("ok", array)
    ELSE IF BufCheck(base, len, 1) THEN Ends("ok", array \cup Bytes(base, len))
    ELSE Ends("refused", array)

-----------------------------------------------------------------------------
(* Calls of the embedder.  The allocators of the sandbox return what they  *)
(* like, here p.                                                           *)

BoxCopy(p, n) == IF BufValid(p, n) THEN Ends("ok", Bytes(p, n)) ELSE Ends("aborted", {})

\* What the caller is promised counts elements; what is checked is a word.
Granted(p, count, size, align) ==
    IF BufCheck(p, (count * size) % Word, align) THEN Grants(p, count * size) ELSE Refuse

LibMalloc(p, n) == Granted(p, n, 1, AllocAlign)
LibRealloc(p, n) == Granted(p, n, 1, AllocAlign)
LibCalloc(p, count, size) == IF CheckedMul(count, size) THEN Granted(p, count, size, AllocAlign) ELSE Refuse
Alloc(p, count, size) == IF CheckedMul(count, size) THEN Granted(p, count, size, AllocAlign) ELSE Refuse

Verify(p, count, size) ==
    IF p = 0 THEN Ends("ok", {})
    ELSE IF CheckedMul(count, size) /\ BufValid(p, (count * size) % Word) THEN Grants(p, count * size)
    ELSE Ends("aborted", {})

CheckedCopy(p, n) == IF BufValid(p, n) THEN Ends("ok", Bytes(p, n)) ELSE Ends("aborted", {})

ReadString(p, n) ==
    IF p = 0 THEN Refuse
    ELSE IF Unterminated(p, n)
         THEN Ends("refused", IF PtrValid(p) THEN Scan(p, Limit(p, n)) ELSE {})
         ELSE EndsText({<<p, Length(p, Limit(p, n))>>}, Scan(p, Limit(p, n)))

ReadBuffer(p, count, size) ==
    IF p = 0 \/ ~CheckedMul(count, size) \/ ~BufValid(p, (count * size) % Word) THEN Refuse
    ELSE Ends("ok", Bytes(p, count * size))

RegisterRet(p) == IF PtrValid(p) THEN Ends("ok", {}) ELSE Ends("aborted", {})

Again == last # NoCall /\ last' = NoCall /\ UNCHANGED nul

AccessNext ==
    \/ Again
    \/ /\ last = NoCall
       /\ \E p \in Addr :
          \/ SysClockGettime(p) \/ SysGetrlimit(p) \/ SysUname(p) \/ SysSysinfo(p) \/ SysPrctl(p)
          \/ SysIoctl(p) \/ RegisterRet(p) \/ SysTime(p)
          \/ SysFaccessat(p) \/ SysMkdirat(p) \/ SysUnlinkat(p) \/ SysTruncate(p) \/ SysChmod(p)
          \/ \E q \in Addr : SysNanosleep(p, q) \/ SysRenameat(p, q) \/ SysNewfstatat(p, q)
          \/ \E n \in Addr :
                \/ SysWrite(p, n) \/ SysPread(p, n) \/ SysPwrite(p, n) \/ SysGetdents(p, n)
                \/ (\E path \in Addr : SysReadlink(path, p, n)) \/ SysGetrandom(p, n) \/ SysGetaffinity(p, n)
                \/ \E l \in 0..2 : SysGetcwd(p, n, l)
                \/ BoxCopy(p, n) \/ CheckedCopy(p, n) \/ LibMalloc(p, n) \/ LibRealloc(p, n)
                \/ ReadString(p, n)
                \/ \E size \in ElemSizes :
                      \/ LibCalloc(p, n, size) \/ Alloc(p, n, size)
                      \/ Verify(p, n, size) \/ ReadBuffer(p, n, size)
                \/ n <= IovMax + 1 /\ \E base \in Addr, len \in Addr : SysVector(p, n, base, len)

AccessSpec == AccessInit /\ [][AccessNext]_accessVars

-----------------------------------------------------------------------------
Inside(bytes) == bytes \subseteq BoxLow..(BoxHigh - 1)

\* Whatever address, length and count a sandbox passes, also where their sum
\* or product does not fit a word, host code touches bytes of the sandbox
\* only, every buffer it vouches for lies in the sandbox as a whole, and a
\* string it takes ends at the first zero or at the bound it was given.
AccessSound ==
    /\ Inside(last.touched)
    /\ \A g \in last.granted : Inside(Bytes(g[1], g[2])) /\ g[1] \in BoxLow..BoxHigh
    /\ \A t \in last.text : Bytes(t[1], t[2]) \subseteq last.touched \ nul
=============================================================================
