------------------------------ MODULE HostProofs ------------------------------
(***************************************************************************)
(* Proofs about what host code does with addresses and sizes that come     *)
(* from a sandbox (HostAccess) and with offsets and sizes that come from a *)
(* file (ElfSymbols), for any width of a word, any box and any files.      *)
(***************************************************************************)
EXTENDS HostAccess, ElfSymbols, FiniteSetTheorems, WellFoundedInduction, TLAPS

\* A set of naturals has a least element.
LEMMA LeastOf ==
    ASSUME NEW S \in SUBSET Nat, S # {}
    PROVE  \E x \in S : \A y \in S : x <= y
<1> DEFINE R == OpToRel(<, Nat)
<1>1. IsWellFoundedOn(R, Nat)
  BY NatLessThanWellFounded
<1>2. PICK x \in S : \A y \in S : ~(<<y, x>> \in R)
  <2> HIDE DEF R
  <2> QED BY <1>1, WFMin
<1>3. \A y \in S : ~(y < x)
  BY <1>2 DEF OpToRel
<1> QED BY <1>3

-----------------------------------------------------------------------------
(* The checks of a host access.                                            *)

AccessInv == AccessSound /\ nul \in SUBSET Nat

\* What the constants are.
LEMMA Sizes ==
    /\ Word \in Nat /\ BoxHigh \in Nat /\ BoxLow \in Nat /\ BoxLow <= BoxHigh /\ BoxLow > 0
    /\ Addr \subseteq Nat /\ NameMax \in Nat /\ NameMax > 0 /\ IovMax \in Nat /\ IovSize \in Nat
    /\ CpuMask \in Nat
    /\ Layout["timespec"].size \in Nat /\ Layout["rlimit"].size \in Nat /\ Layout["utsname"].size \in Nat
    /\ Layout["sysinfo"].size \in Nat /\ Layout["name"].size \in Nat /\ Layout["winsize"].size \in Nat
    /\ Layout["stat"].size \in Nat
<1>1. BoxLow \in 1..BoxHigh /\ BoxHigh \in Nat /\ Word \in Nat
  BY AccessAssumption
<1>2. \A s \in {"timespec", "rlimit", "utsname", "sysinfo", "name", "winsize", "stat"} : Layout[s].size \in Nat
  BY AccessAssumption
<1> QED BY <1>1, <1>2, AccessAssumption DEF Addr

\* bufhost, lfi_box_bufvalid: a buffer that passes lies in the box.
LEMMA Checked ==
    ASSUME NEW p \in Nat, NEW n \in Nat, BufValid(p, n)
    PROVE  Inside(Bytes(p, n)) /\ p \in BoxLow..BoxHigh
<1>1. p >= BoxLow /\ p <= BoxHigh /\ n <= BoxHigh - p
  BY DEF BufValid
<1> QED BY <1>1, Sizes DEF Inside, Bytes

\* A shorter buffer lies in a longer one.
LEMMA Part ==
    ASSUME NEW p \in Nat, NEW n \in Nat, NEW m \in Nat, m <= n
    PROVE  Bytes(p, m) \subseteq Bytes(p, n)
BY DEF Bytes

\* Two buffers inside the box.
LEMMA Both ==
    ASSUME NEW A, NEW B, Inside(A), Inside(B)
    PROVE  Inside(A \cup B)
BY DEF Inside

\* strnlen and copies of strings: what is read, and what is kept of it.
LEMMA Scanned ==
    ASSUME nul \in SUBSET Nat, NEW p \in Nat, NEW limit \in Nat
    PROVE  /\ Scan(p, limit) \subseteq Bytes(p, limit)
           /\ Bytes(p, Length(p, limit)) \subseteq Scan(p, limit) \ nul
<1>1. PICK Z : Z = {z \in nul : z >= p /\ z < p + limit}
  OBVIOUS
<1>2. CASE Z = {}
  <2>1. \A z \in nul : z >= p => z >= p + limit
    BY <1>1, <1>2
  <2>2. Scan(p, limit) \ nul = p..(p + limit - 1) /\ Scan(p, limit) = p..(p + limit - 1)
    BY <2>1 DEF Scan, Bytes
  <2>3. Length(p, limit) = limit
    <3>1. Cardinality(p..(p + limit - 1)) = limit
      BY FS_Interval
    <3> QED BY <2>2, <3>1 DEF Length
  <2> QED BY <2>2, <2>3 DEF Bytes
<1>3. CASE Z # {}
  <2>1. PICK x \in Z : \A y \in Z : x <= y
    BY <1>1, <1>3, LeastOf
  <2>2. x \in Nat /\ x \in nul /\ x >= p /\ x < p + limit
    BY <1>1, <2>1
  <2>3. \A z \in nul : z >= p => x <= z
    <3> SUFFICES ASSUME NEW z \in nul, z >= p PROVE x <= z
      OBVIOUS
    <3>1. z \in Nat
      OBVIOUS
    <3>2. CASE z < p + limit
      BY <1>1, <2>1, <3>2
    <3>3. CASE z >= p + limit
      BY <2>2, <3>1, <3>3
    <3> QED BY <3>1, <3>2, <3>3
  <2>4. Scan(p, limit) = p..x
    BY <2>2, <2>3 DEF Scan, Bytes
  <2>5. Scan(p, limit) \ nul = p..(x - 1)
    BY <2>2, <2>3, <2>4
  <2>6. Length(p, limit) = x - p
    <3>1. PICK y : y = x - 1
      OBVIOUS
    <3>2. y \in Int /\ p \in Int /\ y - p + 1 = x - p /\ (p > y => x - p = 0)
      BY <2>2, <3>1
    <3>3. Cardinality(p..y) = x - p
      BY <3>2, FS_Interval
    <3>4. Cardinality(p..(x - 1)) = x - p
      BY <3>1, <3>3
    <3> QED BY <2>5, <3>4 DEF Length
  <2> QED BY <2>2, <2>4, <2>5, <2>6 DEF Bytes
<1> QED BY <1>2, <1>3

\* A string from an address in the box, as far as the box goes.
LEMMA Strung ==
    ASSUME nul \in SUBSET Nat, NEW p \in Nat, PtrValid(p), NEW limit \in Nat, limit <= BoxHigh - p
    PROVE  /\ Inside(Scan(p, limit))
           /\ Bytes(p, Length(p, limit)) \subseteq Scan(p, limit) \ nul
<1>1. p >= BoxLow /\ p < BoxHigh
  BY DEF PtrValid
<1>2. Scan(p, limit) \subseteq Bytes(p, limit)
  BY Scanned
<1>3. Bytes(p, limit) \subseteq BoxLow..(BoxHigh - 1)
  BY <1>1, Sizes DEF Bytes
<1> QED BY <1>2, <1>3, Scanned DEF Inside

\* pathcopy: the string it reads and where that ends.
LEMMA Pathed ==
    ASSUME nul \in SUBSET Nat, NEW p \in Nat, PtrValid(p)
    PROVE  /\ Inside(PathBytes(p))
           /\ Bytes(PathText(p)[1], PathText(p)[2]) \subseteq PathBytes(p) \ nul
<1>1. PICK l : l = PathMost(p)
  OBVIOUS
<1>2. l \in Nat /\ l <= BoxHigh - p
  BY <1>1, Sizes DEF PathMost, Smaller, PtrValid
<1>3. PathBytes(p) = Scan(p, l) /\ PathText(p) = <<p, Length(p, l)>>
  BY <1>1 DEF PathBytes, PathText
<1>4. Inside(Scan(p, l)) /\ Bytes(p, Length(p, l)) \subseteq Scan(p, l) \ nul
  BY <1>2, Strung
<1> QED BY <1>3, <1>4

\* How a call ends.
LEMMA Ended ==
    ASSUME AccessInv, NEW a, NEW bytes, Ends(a, bytes), Inside(bytes)
    PROVE  AccessInv'
<1>1. last'.touched = bytes /\ last'.granted = {} /\ last'.text = {} /\ nul' = nul
  BY DEF Ends, NoCall
<1> QED BY <1>1 DEF AccessInv, AccessSound, Inside

\* A call that reads strings only and fits the box.
LEMMA EndedText ==
    ASSUME AccessInv, NEW texts, NEW bytes, EndsText(texts, bytes), Inside(bytes),
           \A t \in texts : Bytes(t[1], t[2]) \subseteq bytes \ nul
    PROVE  AccessInv'
<1>1. last'.touched = bytes /\ last'.granted = {} /\ last'.text = texts /\ nul' = nul
  BY DEF EndsText, NoCall
<1>2. \A t \in last'.text : Bytes(t[1], t[2]) \subseteq last'.touched \ nul'
  BY <1>1
<1> QED BY <1>1, <1>2 DEF AccessInv, AccessSound, Inside, Bytes

\* A buffer is handed out after its check.
LEMMA Granting ==
    ASSUME AccessInv, NEW p \in Nat, NEW n \in Nat, Grants(p, n), BufValid(p, n)
    PROVE  AccessInv'
<1>1. last'.touched = {} /\ last'.granted = {<<p, n>>} /\ last'.text = {} /\ nul' = nul
  BY DEF Grants, NoCall
<1>2. Inside(Bytes(p, n)) /\ p \in BoxLow..BoxHigh
  BY Checked
<1>3. \A g \in last'.granted : Inside(Bytes(g[1], g[2])) /\ g[1] \in BoxLow..BoxHigh
  BY <1>1, <1>2
<1>4. Inside(last'.touched)
  BY <1>1 DEF Inside
<1> QED BY <1>1, <1>3, <1>4 DEF AccessInv, AccessSound, Inside, Bytes

\* A call that is refused touches nothing.
LEMMA Refused ==
    ASSUME AccessInv, Refuse
    PROVE  AccessInv'
BY Ended DEF Refuse, Inside

\* No bytes at all.
LEMMA Nothing == Inside({})
BY DEF Inside

-----------------------------------------------------------------------------
(* The calls, by what they touch.                                          *)

\* Calls on one buffer: sys.h bufhost.
LEMMA Buffers ==
    ASSUME AccessInv, NEW p \in Nat, NEW n \in Nat, NEW align, Buffer(p, n, align)
    PROVE  AccessInv'
<1>1. CASE BufCheck(p, n, align)
  <2>1. Ends("ok", Bytes(p, n)) /\ Inside(Bytes(p, n))
    BY <1>1, Checked DEF Buffer, BufCheck
  <2> QED BY <2>1, Ended
<1>2. CASE ~BufCheck(p, n, align)
  BY <1>2, Refused DEF Buffer
<1> QED BY <1>1, <1>2

\* Calls that fill or read one structure.
LEMMA Structs ==
    ASSUME AccessInv, NEW p \in Nat,
           NEW s \in {"timespec", "rlimit", "utsname", "sysinfo", "name", "winsize", "stat"},
           Struct(p, s)
    PROVE  AccessInv'
<1>1. Layout[s].size \in Nat
  BY AccessAssumption
<1> QED BY <1>1, Buffers DEF Struct

\* Calls with one address.
LEMMA OneAddress ==
    ASSUME AccessInv, NEW p \in Nat,
           \/ SysClockGettime(p) \/ SysGetrlimit(p) \/ SysUname(p) \/ SysSysinfo(p) \/ SysPrctl(p)
           \/ SysIoctl(p) \/ RegisterRet(p) \/ SysTime(p)
    PROVE  AccessInv'
<1>1. CASE SysClockGettime(p) \/ SysGetrlimit(p) \/ SysUname(p) \/ SysSysinfo(p) \/ SysPrctl(p) \/ SysIoctl(p)
  BY <1>1, Refused, Structs DEF SysClockGettime, SysGetrlimit, SysUname, SysSysinfo, SysPrctl, SysIoctl
<1>2. CASE RegisterRet(p)
  <2>1. PICK a : Ends(a, {})
    BY <1>2 DEF RegisterRet
  <2> QED BY <2>1, Ended, Nothing
<1>3. CASE SysTime(p)
  BY <1>3, Ended, Nothing, Refused DEF SysTime
<1> QED BY <1>1, <1>2, <1>3

\* Calls with one path.
LEMMA OnePath ==
    ASSUME AccessInv, NEW p \in Nat,
           SysFaccessat(p) \/ SysMkdirat(p) \/ SysUnlinkat(p) \/ SysTruncate(p) \/ SysChmod(p)
    PROVE  AccessInv'
<1>1. Refuse \/ OnPath(p)
  BY DEF SysFaccessat, SysMkdirat, SysUnlinkat, SysTruncate, SysChmod
<1>2. CASE OnPath(p) /\ PtrValid(p)
  <2>1. Ends("refused", PathBytes(p)) \/ EndsText({PathText(p)}, PathBytes(p))
    BY <1>2 DEF OnPath
  <2>2. Inside(PathBytes(p)) /\ Bytes(PathText(p)[1], PathText(p)[2]) \subseteq PathBytes(p) \ nul
    BY <1>2, Pathed DEF AccessInv
  <2>3. \A t \in {PathText(p)} : Bytes(t[1], t[2]) \subseteq PathBytes(p) \ nul
    BY <2>2
  <2>4. PICK texts, bytes : texts = {PathText(p)} /\ bytes = PathBytes(p)
    OBVIOUS
  <2> QED BY <2>1, <2>2, <2>3, <2>4, Ended, EndedText
<1>3. CASE OnPath(p) /\ ~PtrValid(p)
  BY <1>3, Refused DEF OnPath
<1> QED BY <1>1, <1>2, <1>3, Refused

\* Calls with two addresses.
LEMMA PathAndBytes ==
    ASSUME AccessInv, NEW path \in Nat, NEW p \in Nat, NEW n \in Nat, NEW align,
           PathAndBuffer(path, p, n, align)
    PROVE  AccessInv'
<1>1. PtrValid(path) /\ BufValid(p, n) /\ EndsText({PathText(path)}, PathBytes(path) \cup Bytes(p, n))
  BY DEF PathAndBuffer, BufCheck
<1>2. Inside(PathBytes(path)) /\ Bytes(PathText(path)[1], PathText(path)[2]) \subseteq PathBytes(path) \ nul
  BY <1>1, Pathed DEF AccessInv
<1>3. PICK bytes : bytes = PathBytes(path) \cup Bytes(p, n)
  OBVIOUS
<1>4. PICK texts : texts = {PathText(path)}
  OBVIOUS
<1>5. Inside(bytes)
  BY <1>1, <1>2, <1>3, Checked, Both
<1>6. \A t \in texts : Bytes(t[1], t[2]) \subseteq bytes \ nul
  BY <1>2, <1>3, <1>4
<1> QED BY <1>1, <1>3, <1>4, <1>5, <1>6, EndedText

\* sys_renameat reads two paths.
LEMMA TwoPaths ==
    ASSUME AccessInv, NEW p \in Nat, NEW q \in Nat, SysRenameat(p, q)
    PROVE  AccessInv'
<1>1. CASE PtrValid(p) /\ Ends("refused", PathBytes(p))
  <2>1. Inside(PathBytes(p))
    BY <1>1, Pathed DEF AccessInv
  <2> QED BY <1>1, <2>1, Ended
<1>2. PICK both, texts : both = PathBytes(p) \cup PathBytes(q) /\ texts = {PathText(p), PathText(q)}
  OBVIOUS
<1>3. CASE PtrValid(p) /\ PtrValid(q) /\ (Ends("refused", both) \/ EndsText(texts, both))
  <2>1. /\ Inside(PathBytes(p)) /\ Bytes(PathText(p)[1], PathText(p)[2]) \subseteq PathBytes(p) \ nul
        /\ Inside(PathBytes(q)) /\ Bytes(PathText(q)[1], PathText(q)[2]) \subseteq PathBytes(q) \ nul
    BY <1>3, Pathed DEF AccessInv
  <2>2. Inside(both)
    BY <1>2, <2>1, Both
  <2>3. \A t \in texts : Bytes(t[1], t[2]) \subseteq both \ nul
    BY <1>2, <2>1
  <2> QED BY <1>3, <2>2, <2>3, Ended, EndedText
<1> QED BY <1>1, <1>2, <1>3, Refused DEF SysRenameat

\* Calls that check one address after another.
LEMMA TwoAddresses ==
    ASSUME AccessInv, NEW p \in Nat, NEW q \in Nat,
           SysNanosleep(p, q) \/ SysRenameat(p, q) \/ SysNewfstatat(p, q)
    PROVE  AccessInv'
<1>1. CASE SysNanosleep(p, q)
  <2>1. PICK n, slept, rest, align :
            /\ n = Layout["timespec"].size /\ align = Layout["timespec"].align
            /\ slept = Bytes(p, n) /\ rest = Bytes(q, n)
    OBVIOUS
  <2>2. n \in Nat
    BY <2>1, Sizes
  <2>3. \/ Refuse
        \/ BufCheck(p, n, align) /\ (Ends("refused", slept) \/ Ends("ok", slept))
        \/ BufCheck(p, n, align) /\ BufCheck(q, n, align) /\ Ends("ok", slept \cup rest)
    BY <1>1, <2>1 DEF SysNanosleep
  <2>4. BufCheck(p, n, align) => Inside(slept)
    BY <2>1, <2>2, Checked DEF BufCheck
  <2>5. BufCheck(q, n, align) => Inside(rest)
    BY <2>1, <2>2, Checked DEF BufCheck
  <2>6. CASE BufCheck(p, n, align) /\ (Ends("refused", slept) \/ Ends("ok", slept))
    BY <2>4, <2>6, Ended
  <2>7. CASE BufCheck(p, n, align) /\ BufCheck(q, n, align) /\ Ends("ok", slept \cup rest)
    <3>1. Inside(slept \cup rest)
      BY <2>4, <2>5, <2>7, Both
    <3> QED BY <2>7, <3>1, Ended
  <2> QED BY <2>3, <2>6, <2>7, Refused
<1>2. CASE SysNewfstatat(p, q)
  <2>1. PICK n, align : n = Layout["stat"].size /\ align = Layout["stat"].align
    OBVIOUS
  <2>2. n \in Nat
    BY <2>1, Sizes
  <2>3. Refuse \/ Struct(q, "stat") \/ (PtrValid(p) /\ Ends("refused", PathBytes(p)))
        \/ PathAndBuffer(p, q, n, align)
    BY <1>2, <2>1 DEF SysNewfstatat
  <2>4. PtrValid(p) => Inside(PathBytes(p))
    BY Pathed DEF AccessInv
  <2>5. CASE Struct(q, "stat")
    BY <2>5, Structs
  <2>6. CASE PtrValid(p) /\ Ends("refused", PathBytes(p))
    BY <2>4, <2>6, Ended
  <2> QED BY <2>2, <2>3, <2>5, <2>6, Refused, PathAndBytes
<1> QED BY <1>1, <1>2, TwoPaths

\* Calls with an address and a length.
LEMMA Dirs ==
    ASSUME AccessInv, NEW p \in Nat, NEW n \in Nat, SysGetdents(p, n)
    PROVE  AccessInv'
<1>1. PICK align : align = Layout["dirent"].align
  OBVIOUS
<1>2. CASE Buffer(p, n, align)
  BY <1>2, Buffers
<1>3. CASE BufCheck(p, n, align) /\ HostGetdents(p, n)
  <2>1. PICK k \in Copied(n) :
            IF k = 0 /\ Dirents # <<>> THEN Refuse ELSE Ends("ok", Bytes(p, DirentBytes(k)))
    BY <1>3 DEF HostGetdents
  <2>2. PICK d : d = DirentBytes(k)
    OBVIOUS
  <2>3. k \in 0..Len(Dirents) /\ \A i \in 1..k : DirentBytes(i) <= n
    BY <2>1 DEF Copied
  <2>4. d \in Nat /\ d <= n
    <3>1. CASE k = 0
      BY <2>2, <3>1 DEF DirentBytes
    <3>2. CASE k # 0
      <4>1. Dirents \in Seq(Nat)
        BY AccessAssumption
      <4>2. k \in 1..Len(Dirents) /\ k \in 1..k
        BY <2>3, <3>2, <4>1
      <4> QED BY <2>2, <2>3, <3>2, <4>1, <4>2 DEF DirentBytes
    <3> QED BY <3>1, <3>2
  <2>5. Inside(Bytes(p, d))
    <3>1. Inside(Bytes(p, n))
      BY <1>3, Checked DEF BufCheck
    <3>2. Bytes(p, d) \subseteq Bytes(p, n)
      BY <2>4, Part
    <3> QED BY <3>1, <3>2 DEF Inside
  <2>6. Refuse \/ Ends("ok", Bytes(p, d))
    BY <2>1, <2>2
  <2> QED BY <2>5, <2>6, Ended, Refused
<1> QED BY <1>1, <1>2, <1>3, Refused DEF SysGetdents

\* Reading a string of the sandbox up to a length.
LEMMA Strings1 ==
    ASSUME AccessInv, NEW p \in Nat, NEW n \in Nat, ReadString(p, n)
    PROVE  AccessInv'
<1>1. PICK l : l = Limit(p, n)
  OBVIOUS
<1>2. CASE PtrValid(p)
  <2>1. l \in Nat /\ l <= BoxHigh - p
    BY <1>1, <1>2, Sizes DEF Limit, Smaller, PtrValid
  <2>2. Inside(Scan(p, l)) /\ Bytes(p, Length(p, l)) \subseteq Scan(p, l) \ nul
    BY <1>2, <2>1, Strung DEF AccessInv
  <2>3. Refuse \/ Ends("refused", Scan(p, l)) \/ EndsText({<<p, Length(p, l)>>}, Scan(p, l))
    BY <1>1, <1>2 DEF ReadString
  <2>4. PICK texts : texts = {<<p, Length(p, l)>>}
    OBVIOUS
  <2>5. \A t \in texts : Bytes(t[1], t[2]) \subseteq Scan(p, l) \ nul
    BY <2>2, <2>4
  <2> QED BY <2>2, <2>3, <2>4, <2>5, Refused, Ended, EndedText
<1>3. CASE ~PtrValid(p)
  <2>1. Refuse \/ Ends("refused", {})
    BY <1>3 DEF ReadString, Unterminated
  <2> QED BY <2>1, Refused, Ended, Nothing
<1> QED BY <1>2, <1>3

\* Calls on an address and a length.
LEMMA Lengths1 ==
    ASSUME AccessInv, NEW p \in Nat, NEW n \in Nat,
           \/ SysWrite(p, n) \/ SysPread(p, n) \/ SysPwrite(p, n) \/ SysGetrandom(p, n) \/ SysGetaffinity(p, n)
           \/ BoxCopy(p, n) \/ CheckedCopy(p, n)
    PROVE  AccessInv'
<1>1. CASE SysWrite(p, n) \/ SysPread(p, n) \/ SysPwrite(p, n) \/ SysGetrandom(p, n)
  BY <1>1, Refused, Buffers, Ended, Nothing DEF SysWrite, SysPread, SysPwrite, SysGetrandom
<1>2. CASE SysGetaffinity(p, n)
  BY <1>2, Refused, Buffers, Sizes DEF SysGetaffinity
<1>3. CASE BoxCopy(p, n) \/ CheckedCopy(p, n)
  <2>1. (BufValid(p, n) /\ Ends("ok", Bytes(p, n))) \/ Ends("aborted", {})
    BY <1>3 DEF BoxCopy, CheckedCopy
  <2>2. BufValid(p, n) => Inside(Bytes(p, n))
    BY Checked
  <2> QED BY <2>1, <2>2, Ended, Nothing
<1> QED BY <1>1, <1>2, <1>3

\* sys_getcwd writes no more than was checked.
LEMMA Getcwds ==
    ASSUME AccessInv, NEW p \in Nat, NEW n \in Nat, NEW l \in Nat, SysGetcwd(p, n, l)
    PROVE  AccessInv'
<1>1. PICK m : m = Smaller(n, l + 1)
  OBVIOUS
<1>2. m \in Nat /\ m <= n
  BY <1>1 DEF Smaller
<1>3. BufCheck(p, n, 1) => Inside(Bytes(p, m))
  <2>1. BufCheck(p, n, 1) => Inside(Bytes(p, n))
    BY Checked DEF BufCheck
  <2>2. Bytes(p, m) \subseteq Bytes(p, n)
    BY <1>2, Part
  <2> QED BY <2>1, <2>2 DEF Inside
<1>4. Refuse \/ Ends("ok", {}) \/ (BufCheck(p, n, 1) /\ Ends("ok", Bytes(p, m)))
  BY <1>1 DEF SysGetcwd
<1> QED BY <1>3, <1>4, Refused, Ended, Nothing

\* sys_readlinkat reads a path and writes a buffer.
LEMMA Readlinks ==
    ASSUME AccessInv, NEW path \in Nat, NEW p \in Nat, NEW n \in Nat, SysReadlink(path, p, n)
    PROVE  AccessInv'
<1>1. PtrValid(path) => Inside(PathBytes(path))
  BY Pathed DEF AccessInv
<1>2. CASE PtrValid(path) /\ Ends("refused", PathBytes(path))
  BY <1>1, <1>2, Ended
<1>3. CASE PathAndBuffer(path, p, n, 1)
  BY <1>3, PathAndBytes
<1> QED BY <1>2, <1>3, Refused DEF SysReadlink

\* A product that fits a word is checked as it is.
LEMMA NoWrap ==
    ASSUME NEW x \in Nat, x < Word
    PROVE  x % Word = x
BY Sizes

\* Elements are handed out when their product does not wrap.
LEMMA Grantings ==
    ASSUME AccessInv, NEW p \in Nat, NEW count \in Nat, NEW size \in Nat, NEW align,
           CheckedMul(count, size), Granted(p, count, size, align)
    PROVE  AccessInv'
<1>1. PICK x : x = count * size
  OBVIOUS
<1>2. x \in Nat /\ x < Word
  BY <1>1 DEF CheckedMul
<1>3. x % Word = x
  BY <1>2, NoWrap
<1>4. Refuse \/ (BufCheck(p, x % Word, align) /\ Grants(p, x))
  BY <1>1 DEF Granted
<1>5. Refuse \/ (BufValid(p, x) /\ Grants(p, x))
  BY <1>3, <1>4 DEF BufCheck
<1> QED BY <1>2, <1>5, Refused, Granting

\* lfi_lib_malloc and lfi_lib_realloc check what the sandbox's allocator returned.
LEMMA Allocations ==
    ASSUME AccessInv, NEW p \in Nat, NEW n \in Addr, LibMalloc(p, n) \/ LibRealloc(p, n)
    PROVE  AccessInv'
<1>1. n \in Nat /\ n * 1 = n /\ n < Word
  BY Sizes DEF Addr
<1>2. CheckedMul(n, 1)
  BY <1>1 DEF CheckedMul
<1> QED BY <1>1, <1>2, Grantings DEF LibMalloc, LibRealloc

\* lfi_lib_calloc and the sbox transfers, of count times size bytes.
LEMMA Elements ==
    ASSUME AccessInv, NEW p \in Nat, NEW n \in Nat, NEW size \in Nat,
           LibCalloc(p, n, size) \/ Alloc(p, n, size) \/ Verify(p, n, size) \/ ReadBuffer(p, n, size)
    PROVE  AccessInv'
<1>1. CASE LibCalloc(p, n, size) \/ Alloc(p, n, size)
  <2>1. Refuse \/ (CheckedMul(n, size) /\ Granted(p, n, size, AllocAlign))
    BY <1>1 DEF LibCalloc, Alloc
  <2> QED BY <2>1, Refused, Grantings
<1>2. PICK x : x = n * size
  OBVIOUS
<1>3. x \in Nat /\ (CheckedMul(n, size) => x < Word)
  BY <1>2 DEF CheckedMul
<1>4. CheckedMul(n, size) => x % Word = x
  BY <1>3, NoWrap
<1>5. CASE Verify(p, n, size)
  <2>1. Ends("ok", {}) \/ Ends("aborted", {}) \/ (CheckedMul(n, size) /\ BufValid(p, x % Word) /\ Grants(p, x))
    BY <1>2, <1>5 DEF Verify
  <2>2. Ends("ok", {}) \/ Ends("aborted", {}) \/ (BufValid(p, x) /\ Grants(p, x))
    BY <1>4, <2>1
  <2> QED BY <1>3, <2>2, Ended, Nothing, Granting
<1>6. CASE ReadBuffer(p, n, size)
  <2>1. Refuse \/ (CheckedMul(n, size) /\ BufValid(p, x % Word) /\ Ends("ok", Bytes(p, x)))
    BY <1>2, <1>6 DEF ReadBuffer
  <2>2. Refuse \/ (BufValid(p, x) /\ Ends("ok", Bytes(p, x)))
    BY <1>4, <2>1
  <2>3. BufValid(p, x) => Inside(Bytes(p, x))
    BY <1>3, Checked
  <2> QED BY <2>2, <2>3, Refused, Ended
<1> QED BY <1>1, <1>5, <1>6

\* readv and writev.
LEMMA Vectors ==
    ASSUME AccessInv, NEW p \in Nat, NEW cnt \in Nat, NEW addr \in Nat, NEW len \in Nat,
           SysVector(p, cnt, addr, len)
    PROVE  AccessInv'
<1>1. PICK x, array, align, more :
          /\ x = cnt * IovSize /\ array = Bytes(p, x) /\ align = Layout["iovec"].align
          /\ more = Bytes(addr, len)
  OBVIOUS
<1>2. x \in Nat
  BY <1>1, Sizes
<1>3. cnt <= IovMax => x % Word = x
  <2> SUFFICES ASSUME cnt <= IovMax PROVE x % Word = x
    OBVIOUS
  <2>1. cnt \in 0..IovMax
    BY Sizes
  <2>2. x < Word
    BY <1>1, <2>1, AccessAssumption
  <2> QED BY <1>2, <2>2, NoWrap
<1>4. \/ Refuse \/ Ends("ok", {})
      \/ /\ cnt <= IovMax /\ BufCheck(p, x % Word, align)
         /\ \/ Ends("ok", array) \/ Ends("refused", array)
            \/ BufCheck(addr, len, 1) /\ Ends("ok", array \cup more)
  <2>1. ~(cnt > IovMax) => cnt <= IovMax
    BY Sizes
  <2> QED BY <1>1, <2>1 DEF SysVector
<1>5. CASE /\ cnt <= IovMax /\ BufCheck(p, x % Word, align)
           /\ \/ Ends("ok", array) \/ Ends("refused", array)
              \/ BufCheck(addr, len, 1) /\ Ends("ok", array \cup more)
  <2>1. BufValid(p, x)
    BY <1>3, <1>5 DEF BufCheck
  <2>2. Inside(array)
    BY <1>1, <1>2, <2>1, Checked
  <2>3. BufCheck(addr, len, 1) => Inside(array \cup more)
    <3> SUFFICES ASSUME BufCheck(addr, len, 1) PROVE Inside(array \cup more)
      OBVIOUS
    <3>1. Inside(more)
      BY <1>1, Checked DEF BufCheck
    <3> QED BY <2>2, <3>1, Both
  <2> QED BY <1>5, <2>2, <2>3, Ended
<1> QED BY <1>4, <1>5, Refused, Ended, Nothing

\* Whatever address, length and count a sandbox passes, host code touches bytes
\* of the sandbox only, every buffer it vouches for lies in the sandbox, and a
\* string it takes ends at its first zero or at its bound (core/box.c,
\* linux/sys/sys.h, the system calls, sbox/lfi.h).
THEOREM AccessesSound == AccessSpec => []AccessSound
<1>1. AccessInit => AccessInv
  <2>1. Strings \subseteq SUBSET Nat
    BY AccessAssumption, Sizes
  <2> QED BY <2>1 DEF AccessInit, AccessInv, AccessSound, NoCall, Inside
<1>2. AccessInv /\ [AccessNext]_accessVars => AccessInv'
  <2> SUFFICES ASSUME AccessInv, [AccessNext]_accessVars PROVE AccessInv'
    OBVIOUS
  <2>1. CASE UNCHANGED accessVars
    BY <2>1 DEF accessVars, AccessInv, AccessSound, Inside, Bytes
  <2>2. CASE Again
    <3>1. last' = NoCall /\ nul' = nul
      BY <2>2 DEF Again
    <3> QED BY <3>1 DEF AccessInv, AccessSound, NoCall, Inside
  <2>3. CASE AccessNext /\ ~Again
    <3>1. PICK p \in Addr :
          \/ SysClockGettime(p) \/ SysGetrlimit(p) \/ SysUname(p) \/ SysSysinfo(p) \/ SysPrctl(p)
          \/ SysIoctl(p) \/ RegisterRet(p) \/ SysTime(p)
          \/ SysFaccessat(p) \/ SysMkdirat(p) \/ SysUnlinkat(p) \/ SysTruncate(p) \/ SysChmod(p)
          \/ \E q \in Addr : SysNanosleep(p, q) \/ SysRenameat(p, q) \/ SysNewfstatat(p, q)
          \/ \E n \in Addr :
                \/ SysWrite(p, n) \/ SysPread(p, n) \/ SysPwrite(p, n) \/ SysGetdents(p, n)
                \/ (\E path \in Addr : SysReadlink(path, p, n)) \/ SysGetrandom(p, n) \/ SysGetaffinity(p, n)
                \/ \E l \in 0..2 : SysGetcwd(p, n, l)
                \/ BoxCopy(p, n) \/ CheckedCopy(p, n) \/ LibMalloc(p, n) \/ LibRealloc(p, n)
                \/ ReadString(p, n)
                \/ \E size \in ElemSizes :
                      \/ LibCalloc(p, n, size) \/ Alloc(p, n, size)
                      \/ Verify(p, n, size) \/ ReadBuffer(p, n, size)
                \/ n <= IovMax + 1 /\ \E base \in Addr, len \in Addr : SysVector(p, n, base, len)
      BY <2>3 DEF AccessNext
    <3>2. p \in Nat /\ Addr \subseteq Nat /\ ElemSizes \subseteq Nat
      BY Sizes, AccessAssumption
    <3>3. CASE \/ SysClockGettime(p) \/ SysGetrlimit(p) \/ SysUname(p) \/ SysSysinfo(p) \/ SysPrctl(p)
               \/ SysIoctl(p) \/ RegisterRet(p) \/ SysTime(p)
      BY <3>2, <3>3, OneAddress
    <3>4. CASE SysFaccessat(p) \/ SysMkdirat(p) \/ SysUnlinkat(p) \/ SysTruncate(p) \/ SysChmod(p)
      BY <3>2, <3>4, OnePath
    <3>5. ASSUME NEW q \in Addr, SysNanosleep(p, q) \/ SysRenameat(p, q) \/ SysNewfstatat(p, q)
          PROVE  AccessInv'
      BY <3>2, <3>5, TwoAddresses
    <3>6. ASSUME NEW n \in Addr,
                 \/ SysWrite(p, n) \/ SysPread(p, n) \/ SysPwrite(p, n) \/ SysGetdents(p, n)
                 \/ (\E path \in Addr : SysReadlink(path, p, n)) \/ SysGetrandom(p, n) \/ SysGetaffinity(p, n)
                 \/ \E l \in 0..2 : SysGetcwd(p, n, l)
                 \/ BoxCopy(p, n) \/ CheckedCopy(p, n) \/ LibMalloc(p, n) \/ LibRealloc(p, n)
                 \/ ReadString(p, n)
                 \/ \E size \in ElemSizes :
                       \/ LibCalloc(p, n, size) \/ Alloc(p, n, size)
                       \/ Verify(p, n, size) \/ ReadBuffer(p, n, size)
                 \/ n <= IovMax + 1 /\ \E base \in Addr, len \in Addr : SysVector(p, n, base, len)
          PROVE  AccessInv'
      <4>1. n \in Nat
        BY <3>2
      <4>2. CASE \/ SysWrite(p, n) \/ SysPread(p, n) \/ SysPwrite(p, n) \/ SysGetrandom(p, n) \/ SysGetaffinity(p, n)
                 \/ BoxCopy(p, n) \/ CheckedCopy(p, n)
        BY <3>2, <4>1, <4>2, Lengths1
      <4>3. CASE SysGetdents(p, n) \/ ReadString(p, n)
        BY <3>2, <4>1, <4>3, Dirs, Strings1
      <4>4. CASE LibMalloc(p, n) \/ LibRealloc(p, n)
        BY <3>2, <4>4, Allocations
      <4>5. ASSUME NEW path \in Addr, SysReadlink(path, p, n) PROVE AccessInv'
        BY <3>2, <4>1, <4>5, Readlinks
      <4>6. ASSUME NEW l \in 0..2, SysGetcwd(p, n, l) PROVE AccessInv'
        BY <3>2, <4>1, <4>6, Getcwds
      <4>7. ASSUME NEW size \in ElemSizes,
                   LibCalloc(p, n, size) \/ Alloc(p, n, size) \/ Verify(p, n, size) \/ ReadBuffer(p, n, size)
            PROVE  AccessInv'
        BY <3>2, <4>1, <4>7, Elements
      <4>8. ASSUME NEW addr \in Addr, NEW len \in Addr, SysVector(p, n, addr, len) PROVE AccessInv'
        BY <3>2, <4>1, <4>8, Vectors
      <4> QED BY <3>6, <4>2, <4>3, <4>4, <4>5, <4>6, <4>7, <4>8
    <3> QED BY <3>1, <3>3, <3>4, <3>5, <3>6
  <2> QED BY <2>1, <2>2, <2>3
<1>3. AccessInv => AccessSound
  BY DEF AccessInv
<1> QED BY <1>1, <1>2, <1>3, PTL DEF AccessSpec

-----------------------------------------------------------------------------
(* The dynamic symbols of a library.                                       *)

\* A section that lies in the file.
Lies(t) == t.off \in Nat /\ t.size \in Nat /\ InFile(t)
File == 0..(lib.size - 1)

SymInv ==
    /\ lib \in Libraries
    /\ touched \subseteq File
    /\ at \in {"start", "found", "loaded", "failed"}
    /\ at \in {"found", "loaded"} => Lies(symtab) /\ Lies(strtab)
    /\ at = "loaded" => Span(symtab) \cup Span(strtab) \subseteq touched
    /\ libsyms \in [LibSyms -> Nat]
    /\ at # "loaded" => \A s \in LibSyms : libsyms[s] = 0
    /\ \A s \in LibSyms : libsyms[s] # 0 =>
           /\ libsyms[s] \in LibMin..(LibMax - 1) /\ libsyms[s] % 4 = 0
           /\ \E i \in Matches(s) : libsyms[s] = LoadBase + Symbol(i).value

\* A table that lies in the file reads only the file.
LEMMA InFiles ==
    ASSUME NEW t, Lies(t), lib.size \in Nat
    PROVE  Span(t) \subseteq File
<1>1. t.off \in Nat /\ t.size \in Nat /\ t.off <= lib.size /\ t.size <= lib.size - t.off
  BY DEF Lies, InFile, RegionOK
<1> QED BY <1>1 DEF Span, File

\* elf_loadsyms accepts sections that lie in the file.
LEMMA FindStep ==
    ASSUME SymInv, FindSections
    PROVE  SymInv'
<1>1. /\ lib \in Libraries /\ lib.size \in Nat /\ lib.shoff \in Nat /\ lib.shnum \in Nat /\ lib.strndx \in Nat
      /\ at = "start"
  BY SymbolsAssumption DEF SymInv, FindSections
<1>2. PICK names, s, t, found :
          /\ names = Section(lib.strndx) /\ s = Section(FirstOf(DynSyms)) /\ t = Section(s.link)
          /\ found = (/\ HeadersOK /\ InFile(names) /\ DynSyms # {}
                      /\ s.link < lib.shnum /\ InFile(s) /\ InFile(t))
  OBVIOUS
<1>3. /\ touched' = (IF HeadersOK THEN lib.shoff..(lib.shoff + lib.shnum - 1) ELSE {})
                       \cup (IF HeadersOK /\ InFile(names) THEN Span(names) ELSE {})
      /\ at' = IF found THEN "found" ELSE "failed"
      /\ symtab' = IF found THEN [off |-> s.off, size |-> s.size] ELSE NoSection
      /\ strtab' = IF found THEN [off |-> t.off, size |-> t.size] ELSE NoSection
      /\ UNCHANGED <<lib, libsyms>>
  BY <1>2 DEF FindSections
<1>4. HeadersOK => lib.shoff + lib.shnum <= lib.size /\ lib.strndx \in 0..(lib.shnum - 1)
  BY <1>1 DEF HeadersOK, RegionOK
<1>5. HeadersOK => \A i \in 0..(lib.shnum - 1) : Section(i).off \in Nat /\ Section(i).size \in Nat /\ Section(i).link \in Nat
  BY <1>1, <1>4, SymbolsAssumption DEF Section
<1>6. HeadersOK => lib.shoff..(lib.shoff + lib.shnum - 1) \subseteq File
  BY <1>1, <1>4 DEF File
<1>7. HeadersOK /\ InFile(names) => Span(names) \subseteq File
  <2>1. HeadersOK /\ InFile(names) => Lies(names)
    BY <1>2, <1>4, <1>5 DEF Lies
  <2> QED BY <1>1, <2>1, InFiles
<1>8. touched' \subseteq File /\ File' = File
  BY <1>3, <1>6, <1>7 DEF File
<1>9. found => Lies(s) /\ Lies(t)
  <2> SUFFICES ASSUME found PROVE Lies(s) /\ Lies(t)
    OBVIOUS
  <2>1. HeadersOK /\ DynSyms # {} /\ s.link < lib.shnum /\ InFile(s) /\ InFile(t)
    BY <1>2
  <2>2. DynSyms \subseteq 0..(lib.shnum - 1)
    BY DEF DynSyms
  <2>3. DynSyms \in SUBSET Nat
    BY <1>1, <2>2
  <2>4. FirstOf(DynSyms) \in 0..(lib.shnum - 1)
    <3>1. \E x \in DynSyms : \A y \in DynSyms : x <= y
      BY <2>1, <2>3, LeastOf
    <3>2. FirstOf(DynSyms) \in DynSyms
      BY <3>1 DEF FirstOf
    <3> QED BY <2>2, <3>2
  <2>5. s.off \in Nat /\ s.size \in Nat /\ s.link \in Nat
    BY <1>2, <1>5, <2>1, <2>4
  <2>6. s.link \in 0..(lib.shnum - 1)
    BY <1>1, <2>1, <2>5
  <2>7. t.off \in Nat /\ t.size \in Nat
    BY <1>2, <1>5, <2>1, <2>6
  <2> QED BY <2>1, <2>5, <2>7 DEF Lies
<1>10. at' = "found" => Lies(symtab)' /\ Lies(strtab)'
  <2> SUFFICES ASSUME at' = "found" PROVE Lies(symtab)' /\ Lies(strtab)'
    OBVIOUS
  <2>1. found
    BY <1>3
  <2>2. symtab'.off = s.off /\ symtab'.size = s.size /\ strtab'.off = t.off /\ strtab'.size = t.size
    BY <1>3, <2>1
  <2> QED BY <1>3, <1>9, <2>1, <2>2 DEF Lies, InFile, RegionOK
<1>11. \A x \in LibSyms : libsyms'[x] = 0
  BY <1>1, <1>3 DEF SymInv
<1>12. at' \in {"found", "failed"}
  BY <1>3
<1> QED BY <1>3, <1>8, <1>10, <1>11, <1>12 DEF SymInv

\* It copies them, or fails.
LEMMA CopyStep ==
    ASSUME SymInv, CopySections
    PROVE  SymInv'
<1>1. lib \in Libraries /\ lib.size \in Nat /\ at = "found" /\ UNCHANGED <<lib, libsyms>> /\ File' = File
  BY SymbolsAssumption DEF SymInv, CopySections, File
<1>2. Lies(symtab) /\ Lies(strtab) /\ Span(symtab) \subseteq File /\ Span(strtab) \subseteq File
  BY <1>1, InFiles DEF SymInv
<1>3. \A x \in LibSyms : libsyms'[x] = 0
  BY <1>1 DEF SymInv
<1>4. CASE /\ at' = "loaded" /\ touched' = touched \cup Span(symtab) \cup Span(strtab)
           /\ UNCHANGED <<symtab, strtab>>
  <2>1. Lies(symtab)' /\ Lies(strtab)' /\ Span(symtab)' = Span(symtab) /\ Span(strtab)' = Span(strtab)
    BY <1>1, <1>2, <1>4 DEF Lies, InFile, RegionOK, Span
  <2> QED BY <1>1, <1>2, <1>3, <1>4, <2>1 DEF SymInv
<1>5. CASE at' = "failed" /\ touched' \subseteq touched \cup Span(symtab)
  BY <1>1, <1>2, <1>3, <1>5 DEF SymInv
<1> QED BY <1>4, <1>5 DEF CopySections

\* loadsym remembers what lfi_proc_sym finds.
LEMMA LoadStep ==
    ASSUME SymInv, NEW s \in LibSyms, LoadSym(s)
    PROVE  SymInv'
<1>1. lib \in Libraries /\ lib.size \in Nat /\ at = "loaded" /\ libsyms \in [LibSyms -> Nat]
  BY SymbolsAssumption DEF SymInv, LoadSym
<1>2. PICK p : p = ProcSym(s)
  OBVIOUS
<1>3. /\ libsyms' = [libsyms EXCEPT ![s] = IF LibMin <= p /\ p < LibMax /\ p % 4 = 0 THEN p ELSE 0]
      /\ UNCHANGED <<lib, at, touched, symtab, strtab>>
  BY <1>2 DEF LoadSym
<1>4. Matches(s) # {} => \E i \in Matches(s) : p = LoadBase + Symbol(i).value
  <2> SUFFICES ASSUME Matches(s) # {} PROVE \E i \in Matches(s) : p = LoadBase + Symbol(i).value
    OBVIOUS
  <2>1. Matches(s) \in SUBSET Nat
    <3>1. symtab.size \in Nat
      BY <1>1 DEF SymInv, Lies
    <3> QED BY <3>1 DEF Matches
  <2>2. \E x \in Matches(s) : \A y \in Matches(s) : x <= y
    BY <2>1, LeastOf
  <2>3. FirstOf(Matches(s)) \in Matches(s)
    BY <2>2 DEF FirstOf
  <2> QED BY <1>2, <2>3 DEF ProcSym
<1>5. \A i \in Matches(s) : Symbol(i).value \in Nat
  <2> SUFFICES ASSUME NEW i \in Matches(s) PROVE Symbol(i).value \in Nat
    OBVIOUS
  <2>1. symtab.off \in Nat /\ symtab.size \in Nat /\ symtab.off <= lib.size /\ symtab.size <= lib.size - symtab.off
    BY <1>1 DEF SymInv, Lies, InFile, RegionOK
  <2>2. i \in 0..(symtab.size - 1)
    BY DEF Matches
  <2>3. symtab.off + i \in 0..(lib.size - 1)
    BY <1>1, <2>1, <2>2
  <2> QED BY <1>1, <2>3, SymbolsAssumption DEF Symbol
<1>6. LibMin \in Nat /\ LibMax \in Nat /\ LoadBase \in Nat
  BY SymbolsAssumption
<1>7. p \in Nat
  <2>1. CASE Matches(s) = {}
    BY <1>2, <2>1 DEF ProcSym
  <2>2. CASE Matches(s) # {}
    BY <1>4, <1>5, <1>6, <2>2
  <2> QED BY <2>1, <2>2
<1>8. /\ libsyms' \in [LibSyms -> Nat]
      /\ \A x \in LibSyms : x # s => libsyms'[x] = libsyms[x]
      /\ libsyms'[s] # 0 => libsyms'[s] = p /\ LibMin <= p /\ p < LibMax /\ p % 4 = 0 /\ p # 0
  BY <1>1, <1>3, <1>7
<1>9. \A x : Matches(x)' = Matches(x)
  BY <1>3 DEF Matches, StrInBounds, NameOf, Symbol
<1>10. \A i : Symbol(i)' = Symbol(i)
  BY <1>3 DEF Symbol
<1>11. ASSUME NEW x \in LibSyms, libsyms'[x] # 0
       PROVE  /\ libsyms'[x] \in LibMin..(LibMax - 1) /\ libsyms'[x] % 4 = 0
              /\ \E i \in Matches(x) : libsyms'[x] = LoadBase + Symbol(i).value
  <2>1. CASE x # s
    BY <1>8, <1>11, <2>1 DEF SymInv
  <2>2. CASE x = s
    <3>1. libsyms'[s] = p /\ LibMin <= p /\ p < LibMax /\ p % 4 = 0 /\ p # 0
      BY <1>8, <1>11, <2>2
    <3>2. Matches(s) # {}
      BY <1>2, <3>1 DEF ProcSym
    <3> QED BY <1>4, <1>6, <1>7, <2>2, <3>1, <3>2
  <2> QED BY <2>1, <2>2
<1>12. ASSUME NEW x \in LibSyms, libsyms'[x] # 0
       PROVE  \E i \in Matches(x)' : libsyms'[x] = LoadBase + Symbol(i)'.value
  BY <1>9, <1>10, <1>11, <1>12
<1>13. /\ Lies(symtab)' /\ Lies(strtab)' /\ Span(symtab)' = Span(symtab) /\ Span(strtab)' = Span(strtab)
       /\ File' = File /\ touched' = touched /\ lib' = lib /\ at' = at
  BY <1>1, <1>3 DEF SymInv, Lies, InFile, RegionOK, Span, File
<1> QED BY <1>1, <1>8, <1>11, <1>12, <1>13 DEF SymInv

\* Whatever the header, the sections and the symbols say, only bytes of the
\* file are read, names are compared with strings that end inside their
\* section, and an entry point is the address of a symbol of its name, aligned
\* and inside the box (linux/elfsym.c).
THEOREM SymbolsFound == SymSpec => []SymbolsSound
<1>1. SymInit => SymInv
  <2> SUFFICES ASSUME SymInit PROVE SymInv
    OBVIOUS
  <2>1. lib \in Libraries /\ at = "start" /\ touched = {} /\ libsyms = [s \in LibSyms |-> 0]
    BY DEF SymInit
  <2>2. libsyms \in [LibSyms -> Nat] /\ \A s \in LibSyms : libsyms[s] = 0
    BY <2>1
  <2> QED BY <2>1, <2>2 DEF SymInv
<1>2. SymInv /\ [SymNext]_symVars => SymInv'
  <2> SUFFICES ASSUME SymInv, [SymNext]_symVars PROVE SymInv'
    OBVIOUS
  <2>1. CASE UNCHANGED symVars
    BY <2>1 DEF symVars, SymInv, Lies, InFile, RegionOK, Span, File, Matches, StrInBounds, NameOf, Symbol
  <2> QED BY <2>1, FindStep, CopyStep, LoadStep DEF SymNext
<1>3. SymInv => SymbolsSound
  <2> SUFFICES ASSUME SymInv PROVE SymbolsSound
    OBVIOUS
  <2>1. ASSUME NEW s \in LibSyms, NEW i \in Matches(s)
        PROVE  \E z \in lib.nul : z \in (strtab.off + Symbol(i).name)..(strtab.off + strtab.size - 1)
    BY DEF Matches, StrInBounds
  <2> QED BY <2>1 DEF SymInv, SymbolsSound, File
<1> QED BY <1>1, <1>2, <1>3, PTL DEF SymSpec
=============================================================================
