------------------------------ MODULE CallsProofs ------------------------------
(***************************************************************************)
(* Proofs about the context switches of a thread, for any contexts, any    *)
(* depth of the host stack and any sandbox stacks: under the contract of   *)
(* Context, every switch finds the frame of its own entry, and the         *)
(* switches implement nested calls.                                        *)
(***************************************************************************)
EXTENDS ContextRefinement, NaturalsInduction, WellFoundedInduction, SequenceTheorems, TLAPS

\* What the contract is for: where an abort or an exit reads REGS_HOST_SP, it
\* leads to the entry below.  (From a system call it always does.)
LeadsHome ==
    \A c \in Ctx :
        /\ CallbackAbort(c) => HostSpAtAbort(c) = hsp - 1
        /\ Exit(c) /\ inRun[c] /\ On("callback", c) => hostSp[c] = hsp - 1

FrameSet == [kind : Kinds \cup {"junk"}, ctx : Ctx \cup {None}, sp : SP,
             old : [ctx : Ctx \cup {None}, by : 0..MaxFrames]]

Entry(i) == frames[i].kind \in {"run", "invoke"}
CallOut(i) == frames[i].kind \in {"callback", "syscall"}

KindsSound ==
    \A i \in 1..hsp : /\ frames[i].kind \in Kinds
                      /\ frames[i].ctx \in Ctx \cup {None}
                      /\ frames[i].kind = "cloning" <=> frames[i].ctx = None
                      /\ frames[i].kind \in {"run", "cloning"} => frames[i].sp = 0

\* A call out sits on the entry that made it.
OutsSound ==
    \A i \in 1..hsp :
        CallOut(i) => i > 1 /\ Entry(i - 1) /\ frames[i - 1].ctx = frames[i].ctx

\* Host code runs above a call out, never directly above an entry.
EntriesSound ==
    \A i \in 1..hsp :
        Entry(i) => \/ i = hsp /\ who = "box" /\ cur = frames[i].ctx
                    \/ i < hsp /\ CallOut(i + 1) /\ frames[i + 1].ctx = frames[i].ctx

\* lfi_ctx_run is the first entry of its context.
RunLowest ==
    \A i, j \in 1..hsp : i < j /\ frames[j].kind = "run" => frames[i].ctx # frames[j].ctx

\* A system call of c leaves REGS_HOST_SP at the entry below, and nothing
\* enters c until it returns.
SyscallTop ==
    \A i \in 1..hsp : frames[i].kind = "syscall" =>
        /\ hostSp[frames[i].ctx] = i - 1
        /\ \A j \in (i + 1)..hsp : frames[j].ctx # frames[i].ctx

\* Sandbox code runs on the frame of its entry, where REGS_HOST_SP points.
BoxOnTop ==
    /\ who \in {"host", "box", "aborted"}
    /\ who = "box" => hostSp[cur] = hsp /\ hsp > 0 /\ Entry(hsp) /\ frames[hsp].ctx = cur

\* A callback for which an abort was asked is still there, over an invocation.
AbortPending ==
    \A c \in Ctx : abortCb[c] =>
        \E i \in 1..hsp : Lands(i, "callback", c) /\ Lands(i - 1, "invoke", c)

RunMarked ==
    \A c \in Ctx : inRun[c] <=> \E i \in 1..hsp : frames[i].kind = "run" /\ frames[i].ctx = c

CInv == /\ TypeOK /\ KindsSound /\ OutsSound /\ EntriesSound /\ RunLowest /\ SyscallTop
        /\ BoxOnTop /\ AbortPending /\ RunMarked

\* arm64: under a callback of a context whose callbacks may unwind,
\* REGS_HOST_SP is still what the entry left, and nothing entered the context.
DirectKept ==
    Arch = "arm64" =>
        /\ \A c \in Ctx : abortCb[c] => c \in Direct
        /\ \A i \in 1..hsp : frames[i].kind = "callback" /\ frames[i].ctx \in Direct =>
              /\ hostSp[frames[i].ctx] = i - 1
              /\ \A j \in (i + 1)..hsp : frames[j].ctx # frames[i].ctx

-----------------------------------------------------------------------------
(* The host stack after a push and after a pop. *)

\* A frame on top of d frames leaves those alone.
LEMMA Pushed ==
    ASSUME TypeOK, NEW d \in 0..hsp, NEW f \in FrameSet, PushAt(d, f)
    PROVE  /\ d + 1 \in 1..MaxFrames /\ hsp' = d + 1 /\ hsp' \in 0..MaxFrames
           /\ frames' \in [1..MaxFrames -> FrameSet]
           /\ \A i \in 1..d : frames'[i] = frames[i]
           /\ frames'[d + 1] = f
<1>0. hsp \in 0..MaxFrames /\ MaxFrames \in Nat
  BY ConstAssumption DEF TypeOK
<1>1. d + 1 \in 1..MaxFrames /\ hsp' = d + 1 /\ hsp' \in 0..MaxFrames
  BY <1>0 DEF PushAt
<1>2. Junk \in FrameSet
  BY ConstAssumption DEF Junk, NoInfo, FrameSet, SP
<1>3. frames \in [1..MaxFrames -> FrameSet]
  BY DEF TypeOK, FrameSet
<1>4. frames' = [i \in 1..MaxFrames |->
                    IF i <= d THEN frames[i] ELSE IF i = d + 1 THEN f ELSE Junk]
  BY DEF PushAt
<1> HIDE DEF FrameSet
<1>5. frames' \in [1..MaxFrames -> FrameSet]
  <2>1. ASSUME NEW i \in 1..MaxFrames
        PROVE  (IF i <= d THEN frames[i] ELSE IF i = d + 1 THEN f ELSE Junk) \in FrameSet
    <3>1. CASE i <= d
      BY <1>3, <3>1
    <3>2. CASE ~(i <= d) /\ i = d + 1
      BY <3>2
    <3>3. CASE ~(i <= d) /\ i # d + 1
      BY <1>2, <3>3
    <3> QED BY <3>1, <3>2, <3>3
  <2> QED BY <1>4, <2>1
<1>6. \A i \in 1..d : frames'[i] = frames[i]
  BY <1>0, <1>1, <1>4
<1>7. frames'[d + 1] = f
  <2>1. ~(d + 1 <= d)
    OBVIOUS
  <2> QED BY <1>1, <1>4, <2>1
<1> QED BY <1>1, <1>5, <1>6, <1>7

\* Going back to d frames leaves those alone.
LEMMA Popped ==
    ASSUME TypeOK, NEW d \in 0..hsp, PopTo(d)
    PROVE  /\ hsp' = d /\ hsp' \in 0..MaxFrames
           /\ frames' \in [1..MaxFrames -> FrameSet]
           /\ \A i \in 1..d : frames'[i] = frames[i]
<1>0. hsp \in 0..MaxFrames /\ MaxFrames \in Nat
  BY ConstAssumption DEF TypeOK
<1>1. hsp' = d /\ hsp' \in 0..MaxFrames
  BY <1>0 DEF PopTo
<1>2. Junk \in FrameSet
  BY ConstAssumption DEF Junk, NoInfo, FrameSet, SP
<1>3. frames \in [1..MaxFrames -> FrameSet]
  BY DEF TypeOK, FrameSet
<1>4. frames' = [i \in 1..MaxFrames |-> IF i <= d THEN frames[i] ELSE Junk]
  BY DEF PopTo
<1> HIDE DEF FrameSet
<1>5. frames' \in [1..MaxFrames -> FrameSet]
  BY <1>2, <1>3, <1>4
<1>6. \A i \in 1..d : frames'[i] = frames[i]
  BY <1>0, <1>4
<1> QED BY <1>1, <1>5, <1>6

-----------------------------------------------------------------------------
(* What each kind of switch does to the frames. *)

Shape == /\ KindsSound /\ OutsSound /\ EntriesSound /\ RunLowest
         /\ SyscallTop /\ BoxOnTop

\* Aborts stay pending while their callbacks stay.
LEMMA PendingKept ==
    ASSUME CInv, NEW d \in 0..hsp, hsp' \in Nat, d <= hsp',
           \A i \in 1..d : frames'[i] = frames[i],
           \A c \in Ctx : abortCb'[c] =>
               abortCb[c] /\ \A i \in (d + 1)..hsp : ~(Lands(i, "callback", c) /\ Lands(i - 1, "invoke", c))
    PROVE  AbortPending'
<1>1. hsp \in Nat /\ d \in Nat /\ d <= hsp
  BY ConstAssumption DEF CInv, TypeOK
<1>2. SUFFICES ASSUME NEW c \in Ctx, abortCb'[c]
               PROVE  \E i \in 1..hsp' : Lands(i, "callback", c)' /\ Lands(i - 1, "invoke", c)'
  BY DEF AbortPending, Lands
<1>3. PICK i \in 1..hsp : Lands(i, "callback", c) /\ Lands(i - 1, "invoke", c)
  BY <1>2 DEF CInv, AbortPending
<1>4. ~(i \in (d + 1)..hsp)
  BY <1>2, <1>3
<1>5. i \in 1..d /\ i - 1 \in 1..d /\ i \in 1..hsp' /\ i - 1 \in 1..hsp'
  BY <1>1, <1>3, <1>4 DEF Lands
<1>6. frames'[i] = frames[i] /\ frames'[i - 1] = frames[i - 1]
  BY <1>5
<1>7. Lands(i, "callback", c)' /\ Lands(i - 1, "invoke", c)'
  BY <1>3, <1>5, <1>6 DEF Lands
<1> QED BY <1>5, <1>7

\* They stay pending under whatever is pushed.
LEMMA PendingStays ==
    ASSUME CInv, hsp' \in Nat, hsp <= hsp', \A i \in 1..hsp : frames'[i] = frames[i],
           abortCb' = abortCb
    PROVE  AbortPending'
<1>1. hsp \in Nat /\ hsp \in 0..hsp
  BY ConstAssumption DEF CInv, TypeOK
<1>2. (hsp + 1)..hsp = {}
  BY <1>1
<1>3. \A c \in Ctx : abortCb'[c] =>
          abortCb[c] /\ \A i \in (hsp + 1)..hsp : ~(Lands(i, "callback", c) /\ Lands(i - 1, "invoke", c))
  BY <1>2
<1> QED BY <1>1, <1>3, PendingKept

\* lfi_ctx_run and the trampolines.
LEMMA EntryPushed ==
    ASSUME CInv, NEW c \in Ctx, who = "host",
           NEW d \in 0..hsp, d = hsp \/ (d = hsp - 1 /\ On("cloning", None)),
           NEW f \in FrameSet, f.kind \in {"run", "invoke"}, f.ctx = c,
           f.kind = "run" => f.sp = 0 /\ Idle(c),
           \A i \in 1..hsp : frames[i].ctx = c => frames[i].kind # "syscall",
           PushAt(d, f), hostSp' = [hostSp EXCEPT ![c] = d + 1],
           who' = "box", cur' = c
    PROVE  Shape'
<1>1. /\ d + 1 \in 1..MaxFrames /\ hsp' = d + 1
      /\ \A i \in 1..d : frames'[i] = frames[i]
      /\ frames'[d + 1] = f
  BY Pushed DEF CInv
<1>2. hsp \in Nat /\ hostSp \in [Ctx -> 0..MaxFrames]
  BY ConstAssumption DEF CInv, TypeOK
<1>3. \A i \in 1..hsp' : i \in 1..d \/ i = d + 1
  BY <1>1, <1>2
<1>4. \A i \in 1..d : i \in 1..hsp /\ i # hsp'
  BY <1>1, <1>2
<1>5. f.ctx \in Ctx /\ f.ctx # None
  BY ConstAssumption
<1>6. KindsSound'
  BY <1>1, <1>3, <1>4, <1>5 DEF CInv, KindsSound, Kinds
<1>7. OutsSound'
  <2>1. SUFFICES ASSUME NEW i \in 1..hsp', CallOut(i)'
                 PROVE  i > 1 /\ Entry(i - 1)' /\ frames'[i - 1].ctx = frames'[i].ctx
    BY DEF OutsSound
  <2>2. i \in 1..d /\ CallOut(i)
    BY <1>1, <1>3, <2>1 DEF CallOut
  <2>3. i > 1 /\ Entry(i - 1) /\ frames[i - 1].ctx = frames[i].ctx
    BY <1>4, <2>2 DEF CInv, OutsSound
  <2> QED BY <1>1, <1>2, <2>2, <2>3 DEF Entry
<1>8. EntriesSound'
  <2>1. SUFFICES ASSUME NEW i \in 1..hsp', Entry(i)', i # d + 1
                 PROVE  i < hsp' /\ CallOut(i + 1)' /\ frames'[i + 1].ctx = frames'[i].ctx
    BY <1>1 DEF EntriesSound
  <2>2. i \in 1..d /\ Entry(i)
    BY <1>1, <1>3, <2>1 DEF Entry
  <2>3. i < hsp /\ CallOut(i + 1) /\ frames[i + 1].ctx = frames[i].ctx
    BY <1>4, <2>2 DEF CInv, EntriesSound
  <2>4. i + 1 \in 1..d
    BY <1>2, <2>2, <2>3 DEF On, CallOut
  <2> QED BY <1>1, <2>2, <2>3, <2>4 DEF CallOut
<1>9. RunLowest'
  <2>1. SUFFICES ASSUME NEW i \in 1..hsp', NEW j \in 1..hsp', i < j, frames'[j].kind = "run"
                 PROVE  frames'[i].ctx # frames'[j].ctx
    BY DEF RunLowest
  <2>2. i \in 1..d
    BY <1>1, <1>2, <1>3, <2>1
  <2>3. CASE j = d + 1
    BY <1>1, <1>4, <2>1, <2>2, <2>3 DEF Idle
  <2>4. CASE j \in 1..d
    BY <1>1, <1>4, <2>1, <2>2, <2>4 DEF CInv, RunLowest
  <2> QED BY <1>3, <2>3, <2>4
<1>10. SyscallTop'
  <2>1. SUFFICES ASSUME NEW i \in 1..hsp', frames'[i].kind = "syscall"
                 PROVE  /\ hostSp'[frames'[i].ctx] = i - 1
                        /\ \A j \in (i + 1)..hsp' : frames'[j].ctx # frames'[i].ctx
    BY DEF SyscallTop
  <2>2. i \in 1..d /\ frames'[i] = frames[i]
    BY <1>1, <1>3, <2>1
  <2>3. frames[i].ctx # c /\ frames[i].ctx \in Ctx
    BY <1>4, <2>1, <2>2 DEF CInv, KindsSound
  <2>4. hostSp[frames[i].ctx] = i - 1 /\ \A j \in (i + 1)..hsp : frames[j].ctx # frames[i].ctx
    BY <1>4, <2>1, <2>2 DEF CInv, SyscallTop
  <2>5. hostSp'[frames'[i].ctx] = i - 1
    BY <1>2, <2>2, <2>3, <2>4
  <2>6. ASSUME NEW j \in (i + 1)..hsp' PROVE frames'[j].ctx # frames'[i].ctx
    <3>1. CASE j = d + 1
      BY <1>1, <2>2, <2>3, <3>1
    <3>2. CASE j # d + 1
      <4>1. j \in 1..d /\ j \in (i + 1)..hsp
        BY <1>1, <1>2, <2>2, <2>6, <3>2
      <4> QED BY <1>1, <2>2, <2>4, <4>1
    <3> QED BY <3>1, <3>2
  <2> QED BY <2>5, <2>6
<1>11. BoxOnTop'
  BY <1>1, <1>2, <1>5 DEF BoxOnTop, Entry
<1> QED BY <1>6, <1>7, <1>8, <1>9, <1>10, <1>11 DEF Shape

\* A callback or a system call leaves the sandbox.
LEMMA CallOutPushed ==
    ASSUME CInv, NEW c \in Ctx, who = "box", cur = c,
           NEW f \in FrameSet, f.kind \in {"callback", "syscall"}, f.ctx = c,
           PushAt(hostSp[c], f), who' = "host",
           NEW h \in 0..MaxFrames, f.kind = "syscall" => h = hsp,
           hostSp' = [hostSp EXCEPT ![c] = h]
    PROVE  Shape'
<1>0. hostSp[c] = hsp /\ hsp > 0 /\ Entry(hsp) /\ frames[hsp].ctx = c
  BY DEF CInv, BoxOnTop
<1>1. /\ hsp + 1 \in 1..MaxFrames /\ hsp' = hsp + 1
      /\ \A i \in 1..hsp : frames'[i] = frames[i]
      /\ frames'[hsp + 1] = f
  <2>1. hsp \in 0..hsp /\ PushAt(hsp, f)
    BY <1>0 DEF CInv, TypeOK
  <2> QED BY <2>1, Pushed DEF CInv
<1>2. hsp \in Nat /\ hostSp \in [Ctx -> 0..MaxFrames]
  BY ConstAssumption DEF CInv, TypeOK
<1>3. \A i \in 1..hsp' : i \in 1..hsp \/ i = hsp + 1
  BY <1>1, <1>2
<1>4. hsp \in 1..hsp /\ c # None
  BY <1>0, <1>2, ConstAssumption
<1>5. \A i \in 1..hsp : frames[i].kind = "syscall" => frames[i].ctx # c
  <2>1. ASSUME NEW i \in 1..hsp, frames[i].kind = "syscall", frames[i].ctx = c
        PROVE  FALSE
    <3>1. i # hsp
      BY <1>0, <2>1 DEF Entry
    <3>2. hsp \in (i + 1)..hsp
      BY <1>2, <3>1
    <3> QED BY <1>0, <2>1, <3>2 DEF CInv, SyscallTop
  <2> QED BY <2>1
<1>6. KindsSound'
  BY <1>1, <1>3, <1>4 DEF CInv, KindsSound, Kinds
<1>7. OutsSound'
  <2>1. SUFFICES ASSUME NEW i \in 1..hsp', CallOut(i)'
                 PROVE  i > 1 /\ Entry(i - 1)' /\ frames'[i - 1].ctx = frames'[i].ctx
    BY DEF OutsSound
  <2>2. CASE i = hsp + 1
    BY <1>0, <1>1, <1>2, <1>4, <2>2 DEF Entry
  <2>3. CASE i \in 1..hsp
    <3>1. CallOut(i)
      BY <1>1, <2>1, <2>3 DEF CallOut
    <3>2. i > 1 /\ Entry(i - 1) /\ frames[i - 1].ctx = frames[i].ctx
      BY <2>3, <3>1 DEF CInv, OutsSound
    <3> QED BY <1>1, <1>2, <2>3, <3>2 DEF Entry
  <2> QED BY <1>3, <2>2, <2>3
<1>8. EntriesSound'
  <2>1. SUFFICES ASSUME NEW i \in 1..hsp', Entry(i)'
                 PROVE  i < hsp' /\ CallOut(i + 1)' /\ frames'[i + 1].ctx = frames'[i].ctx
    BY DEF EntriesSound
  <2>2. i \in 1..hsp /\ Entry(i)
    BY <1>1, <1>3, <2>1 DEF Entry
  <2>3. CASE i = hsp
    BY <1>0, <1>1, <1>2, <2>2, <2>3 DEF CallOut
  <2>4. CASE i # hsp
    <3>1. i < hsp /\ CallOut(i + 1) /\ frames[i + 1].ctx = frames[i].ctx
      BY <2>2, <2>4 DEF CInv, EntriesSound
    <3>2. i + 1 \in 1..hsp
      BY <1>2, <2>2, <3>1
    <3> QED BY <1>1, <1>2, <2>2, <3>1, <3>2 DEF CallOut
  <2> QED BY <2>3, <2>4
<1>9. RunLowest'
  <2>1. SUFFICES ASSUME NEW i \in 1..hsp', NEW j \in 1..hsp', i < j, frames'[j].kind = "run"
                 PROVE  frames'[i].ctx # frames'[j].ctx
    BY DEF RunLowest
  <2>2. i \in 1..hsp /\ j \in 1..hsp
    BY <1>1, <1>2, <1>3, <2>1
  <2> QED BY <1>1, <2>1, <2>2 DEF CInv, RunLowest
<1>10. SyscallTop'
  <2>1. SUFFICES ASSUME NEW i \in 1..hsp', frames'[i].kind = "syscall"
                 PROVE  /\ hostSp'[frames'[i].ctx] = i - 1
                        /\ \A j \in (i + 1)..hsp' : frames'[j].ctx # frames'[i].ctx
    BY DEF SyscallTop
  <2>2. CASE i = hsp + 1
    BY <1>1, <1>2, <2>1, <2>2
  <2>3. CASE i \in 1..hsp
    <3>1. frames'[i] = frames[i] /\ frames[i].ctx # c /\ frames[i].ctx \in Ctx
      BY <1>1, <1>5, <2>1, <2>3 DEF CInv, KindsSound
    <3>2. /\ hostSp[frames[i].ctx] = i - 1
          /\ \A j \in (i + 1)..hsp : frames[j].ctx # frames[i].ctx
      BY <2>1, <2>3, <3>1 DEF CInv, SyscallTop
    <3>3. hostSp'[frames'[i].ctx] = i - 1
      BY <1>2, <3>1, <3>2
    <3>4. ASSUME NEW j \in (i + 1)..hsp' PROVE frames'[j].ctx # frames'[i].ctx
      <4>1. CASE j = hsp + 1
        BY <1>1, <3>1, <4>1
      <4>2. CASE j # hsp + 1
        <5>1. j \in 1..hsp /\ j \in (i + 1)..hsp
          BY <1>1, <1>2, <2>3, <3>4, <4>2
        <5> QED BY <1>1, <3>1, <3>2, <5>1
      <4> QED BY <4>1, <4>2
    <3> QED BY <3>3, <3>4
  <2> QED BY <1>3, <2>2, <2>3
<1>11. BoxOnTop'
  BY DEF BoxOnTop
<1> QED BY <1>6, <1>7, <1>8, <1>9, <1>10, <1>11 DEF Shape

\* What a pop leaves of the frames, whoever pops.
LEMMA FramesPopped ==
    ASSUME CInv, NEW d \in 0..hsp, PopTo(d)
    PROVE  /\ hsp' = d
           /\ \A i \in 1..d : i \in 1..hsp /\ frames'[i] = frames[i]
           /\ KindsSound' /\ OutsSound' /\ RunLowest'
<1>1. hsp' = d /\ \A i \in 1..d : frames'[i] = frames[i]
  BY Popped DEF CInv
<1>2. hsp \in Nat /\ d \in Nat /\ d <= hsp
  BY ConstAssumption DEF CInv, TypeOK
<1>3. \A i \in 1..d : i \in 1..hsp /\ frames'[i] = frames[i]
  BY <1>1, <1>2
<1>4. KindsSound'
  BY <1>1, <1>3 DEF CInv, KindsSound
<1>5. OutsSound'
  <2>1. SUFFICES ASSUME NEW i \in 1..d, CallOut(i)'
                 PROVE  i > 1 /\ Entry(i - 1)' /\ frames'[i - 1].ctx = frames'[i].ctx
    BY <1>1 DEF OutsSound
  <2>2. CallOut(i)
    BY <1>3, <2>1 DEF CallOut
  <2>3. i > 1 /\ Entry(i - 1) /\ frames[i - 1].ctx = frames[i].ctx
    BY <1>3, <2>2 DEF CInv, OutsSound
  <2> QED BY <1>2, <1>3, <2>3 DEF Entry
<1>6. RunLowest'
  BY <1>1, <1>3 DEF CInv, RunLowest
<1> QED BY <1>1, <1>3, <1>4, <1>5, <1>6

\* System calls below frame j > d of context c are not of c.
LEMMA SyscallsPopped ==
    ASSUME CInv, NEW c \in Ctx, NEW d \in 0..hsp, PopTo(d),
           NEW j \in (d + 1)..hsp, frames[j].ctx = c,
           NEW h \in 0..MaxFrames, hostSp' = [hostSp EXCEPT ![c] = h]
    PROVE  SyscallTop'
<1>1. hsp' = d /\ \A i \in 1..d : i \in 1..hsp /\ frames'[i] = frames[i]
  BY FramesPopped
<1>2. hsp \in Nat /\ d \in Nat /\ d <= hsp /\ hostSp \in [Ctx -> 0..MaxFrames]
  BY ConstAssumption DEF CInv, TypeOK
<1>3. SUFFICES ASSUME NEW i \in 1..d, frames'[i].kind = "syscall"
               PROVE  /\ hostSp'[frames'[i].ctx] = i - 1
                      /\ \A k \in (i + 1)..d : frames'[k].ctx # frames'[i].ctx
  BY <1>1 DEF SyscallTop
<1>4. /\ frames'[i] = frames[i] /\ frames[i].ctx \in Ctx
      /\ hostSp[frames[i].ctx] = i - 1
      /\ \A k \in (i + 1)..hsp : frames[k].ctx # frames[i].ctx
  <2>1. i \in 1..hsp /\ frames'[i] = frames[i] /\ frames[i].kind = "syscall"
    BY <1>1, <1>3
  <2>2. frames[i].ctx \in Ctx
    BY <2>1 DEF CInv, KindsSound
  <2> QED BY <2>1, <2>2 DEF CInv, SyscallTop
<1>5. frames[i].ctx # c
  <2>1. j \in (i + 1)..hsp
    BY <1>2
  <2> QED BY <1>4, <2>1
<1>6. \A k \in (i + 1)..d : k \in 1..d /\ k \in (i + 1)..hsp
  BY <1>2
<1> QED BY <1>1, <1>2, <1>4, <1>5, <1>6

\* A call out returns to the sandbox.
LEMMA CallOutPopped ==
    ASSUME CInv, NEW c \in Ctx, who = "host", hsp > 0, CallOut(hsp), frames[hsp].ctx = c,
           PopTo(hsp - 1), hostSp' = [hostSp EXCEPT ![c] = hsp - 1],
           who' = "box", cur' = c
    PROVE  Shape'
<1>1. hsp \in 1..MaxFrames /\ hsp - 1 \in 0..hsp /\ hsp - 1 \in 0..MaxFrames /\ hsp \in 1..hsp
      /\ hostSp \in [Ctx -> 0..MaxFrames]
  BY ConstAssumption DEF CInv, TypeOK
<1>2. /\ hsp' = hsp - 1
      /\ \A i \in 1..(hsp - 1) : i \in 1..hsp /\ frames'[i] = frames[i]
      /\ KindsSound' /\ OutsSound' /\ RunLowest'
  BY <1>1, FramesPopped
<1>3. hsp > 1 /\ Entry(hsp - 1) /\ frames[hsp - 1].ctx = c
  BY <1>1 DEF CInv, OutsSound
<1>4. EntriesSound'
  <2>1. SUFFICES ASSUME NEW i \in 1..(hsp - 1), Entry(i)'
                 PROVE  \/ i = hsp - 1 /\ c = frames'[i].ctx
                        \/ i < hsp - 1 /\ CallOut(i + 1)' /\ frames'[i + 1].ctx = frames'[i].ctx
    BY <1>2 DEF EntriesSound
  <2>2. CASE i = hsp - 1
    BY <1>2, <1>3, <2>2
  <2>3. CASE i # hsp - 1
    <3>1. Entry(i) /\ i \in 1..hsp
      BY <1>2, <2>1 DEF Entry
    <3>2. CallOut(i + 1) /\ frames[i + 1].ctx = frames[i].ctx
      BY <3>1 DEF CInv, EntriesSound
    <3>3. i + 1 \in 1..(hsp - 1) /\ i < hsp - 1
      BY <1>1, <2>3
    <3> QED BY <1>2, <3>2, <3>3 DEF CallOut
  <2> QED BY <2>2, <2>3
<1>5. SyscallTop'
  <2>1. hsp \in (hsp - 1 + 1)..hsp
    BY <1>1
  <2> QED BY <1>1, <2>1, SyscallsPopped
<1>6. BoxOnTop'
  <2>1. hsp - 1 \in 1..(hsp - 1)
    BY <1>1, <1>3
  <2>2. hostSp'[c] = hsp' /\ hsp' > 0
    BY <1>1, <1>2, <1>3
  <2>3. frames'[hsp'] = frames[hsp - 1]
    BY <1>2, <2>1
  <2>4. Entry(hsp)' /\ frames'[hsp'].ctx = c
    BY <1>3, <2>3 DEF Entry
  <2> QED BY <2>2, <2>4 DEF BoxOnTop
<1> QED BY <1>2, <1>4, <1>5, <1>6 DEF Shape

\* An entry ends: lfi_ret, the abort of a callback, lfi_ctx_end.
LEMMA EntryPopped ==
    ASSUME CInv, NEW c \in Ctx, NEW e \in 1..hsp, Entry(e), frames[e].ctx = c,
           PopTo(e - 1), who' = "host",
           NEW h \in 0..MaxFrames, hostSp' = [hostSp EXCEPT ![c] = h]
    PROVE  Shape'
<1>1. hsp \in Nat /\ e - 1 \in 0..hsp /\ e \in (e - 1 + 1)..hsp
  BY ConstAssumption DEF CInv, TypeOK
<1>2. /\ hsp' = e - 1
      /\ \A i \in 1..(e - 1) : i \in 1..hsp /\ frames'[i] = frames[i]
      /\ KindsSound' /\ OutsSound' /\ RunLowest'
  BY <1>1, FramesPopped
<1>3. EntriesSound'
  <2>1. SUFFICES ASSUME NEW i \in 1..(e - 1), Entry(i)'
                 PROVE  i < e - 1 /\ CallOut(i + 1)' /\ frames'[i + 1].ctx = frames'[i].ctx
    BY <1>2 DEF EntriesSound
  <2>2. Entry(i) /\ i \in 1..hsp
    BY <1>2, <2>1 DEF Entry
  <2>3. i # hsp
    BY <1>1
  <2>4. CallOut(i + 1) /\ frames[i + 1].ctx = frames[i].ctx
    BY <2>2, <2>3 DEF CInv, EntriesSound
  <2>5. i + 1 # e
    BY <2>4 DEF CallOut, Entry
  <2>6. i < e - 1 /\ i + 1 \in 1..(e - 1)
    BY <1>1, <2>5
  <2> QED BY <1>2, <2>4, <2>6 DEF CallOut
<1>4. SyscallTop'
  BY <1>1, SyscallsPopped
<1>5. BoxOnTop'
  BY DEF BoxOnTop
<1> QED BY <1>2, <1>3, <1>4, <1>5 DEF Shape

\* in_ctx_run, when no lfi_ctx_run begins or ends.
LEMMA RunsKept ==
    ASSUME CInv, inRun' = inRun, NEW d \in 0..hsp, hsp' \in Nat, d <= hsp',
           \A i \in 1..d : frames'[i] = frames[i],
           \A i \in (d + 1)..hsp : frames[i].kind # "run",
           \A i \in (d + 1)..hsp' : frames'[i].kind # "run"
    PROVE  RunMarked'
<1>1. hsp \in Nat /\ d \in Nat /\ d <= hsp
  BY ConstAssumption DEF CInv, TypeOK
<1>2. ASSUME NEW c \in Ctx
      PROVE  (\E i \in 1..hsp : frames[i].kind = "run" /\ frames[i].ctx = c)
               <=> \E i \in 1..hsp' : frames'[i].kind = "run" /\ frames'[i].ctx = c
  <2>1. ASSUME NEW i \in 1..hsp, frames[i].kind = "run" /\ frames[i].ctx = c
        PROVE  \E k \in 1..hsp' : frames'[k].kind = "run" /\ frames'[k].ctx = c
    <3>1. i \in 1..d
      BY <1>1, <2>1
    <3>2. i \in 1..hsp'
      BY <1>1, <3>1
    <3> QED BY <2>1, <3>1, <3>2
  <2>2. ASSUME NEW i \in 1..hsp', frames'[i].kind = "run" /\ frames'[i].ctx = c
        PROVE  \E k \in 1..hsp : frames[k].kind = "run" /\ frames[k].ctx = c
    <3>1. i \in 1..d
      BY <1>1, <2>2
    <3>2. i \in 1..hsp
      BY <1>1, <3>1
    <3> QED BY <2>2, <3>1, <3>2
  <2> QED BY <2>1, <2>2
<1> QED BY <1>2 DEF CInv, RunMarked

-----------------------------------------------------------------------------
(* Each action preserves the invariant. *)

InfoSet == [ctx : Ctx \cup {None}, by : 0..MaxFrames]

\* What the types say of each variable.
LEMMA Fields ==
    ASSUME CInv
    PROVE  /\ hsp \in 0..MaxFrames /\ MaxFrames \in Nat /\ MaxSp \in Nat
           /\ frames \in [1..MaxFrames -> FrameSet]
           /\ hostSp \in [Ctx -> 0..MaxFrames] /\ rsp \in [Ctx -> SP]
           /\ inRun \in [Ctx -> BOOLEAN] /\ abortCb \in [Ctx -> BOOLEAN]
           /\ info \in InfoSet /\ sp \in SP
           /\ cur \in Ctx \cup {None} /\ NoInfo \in InfoSet
BY ConstAssumption DEF CInv, TypeOK, FrameSet, InfoSet, NoInfo

\* A frame that is pushed has the type of frames.
LEMMA FrameTyped ==
    ASSUME NEW k \in Kinds, NEW c \in Ctx \cup {None}, NEW s \in SP, NEW o \in InfoSet
    PROVE  /\ Frame(k, c, s, o) \in FrameSet
           /\ Frame(k, c, s, o).kind = k /\ Frame(k, c, s, o).ctx = c
           /\ Frame(k, c, s, o).sp = s
BY DEF Frame, FrameSet, InfoSet

\* What is left of lfi_invoke_info after a pop.
LEMMA InfoTyped ==
    ASSUME CInv, NEW d \in 0..hsp
    PROVE  InfoAfterPop(d) \in InfoSet
BY Fields DEF InfoAfterPop

\* TypeOK' from its parts.
LEMMA TypesKept ==
    ASSUME hsp' \in 0..MaxFrames, frames' \in [1..MaxFrames -> FrameSet],
           hostSp' \in [Ctx -> 0..MaxFrames], rsp' \in [Ctx -> SP],
           inRun' \in [Ctx -> BOOLEAN], abortCb' \in [Ctx -> BOOLEAN],
           info' \in InfoSet,
           who' \in {"host", "box", "aborted", "lost"},
           cur' \in Ctx \cup {None}, sp' \in SP
    PROVE  TypeOK'
BY DEF TypeOK, FrameSet, InfoSet

\* The parts of the invariant that depend on one another.
LEMMA Assembled ==
    ASSUME TypeOK', Shape', AbortPending', RunMarked' PROVE CInv'
BY DEF CInv, Shape

\* lfi_ctx_run.
LEMMA RunStep ==
    ASSUME CInv, EntersIdle, NEW c \in Ctx, Run(c) PROVE CInv'
<1> DEFINE o == IF hsp > 0 /\ frames[hsp].kind = "syscall" THEN info ELSE NoInfo
           f == Frame("run", c, 0, o)
<1>1. 0 \in SP /\ "run" \in Kinds /\ o \in InfoSet
  BY Fields DEF SP, Kinds
<1>2. f \in FrameSet /\ f.kind = "run" /\ f.ctx = c /\ f.sp = 0
  <2> HIDE DEF o
  <2> QED BY <1>1, FrameTyped
<1>3. /\ Idle(c) /\ who = "host" /\ PushAt(hsp, f)
      /\ info' = [ctx |-> c, by |-> hsp + 1]
      /\ inRun' = [inRun EXCEPT ![c] = TRUE]
      /\ hostSp' = [hostSp EXCEPT ![c] = hsp + 1]
      /\ who' = "box" /\ cur' = c /\ sp' = rsp[c]
      /\ rsp' = rsp /\ abortCb' = abortCb
  BY DEF Run, EntersIdle, ToBox
<1> HIDE DEF f, o
<1>4. hsp \in 0..hsp
  BY Fields
<1>5. /\ hsp + 1 \in 1..MaxFrames /\ hsp' = hsp + 1 /\ hsp' \in 0..MaxFrames
      /\ frames' \in [1..MaxFrames -> FrameSet]
      /\ \A i \in 1..hsp : frames'[i] = frames[i]
      /\ frames'[hsp + 1] = f
  BY <1>2, <1>3, <1>4, Pushed DEF CInv
<1>6. TypeOK'
  <2>1. info' \in InfoSet /\ hostSp' \in [Ctx -> 0..MaxFrames] /\ inRun' \in [Ctx -> BOOLEAN]
    BY <1>3, <1>5, Fields DEF InfoSet
  <2> QED BY <1>3, <1>5, <2>1, Fields, TypesKept
<1>7. Shape'
  <2>1. \A i \in 1..hsp : frames[i].ctx = c => frames[i].kind # "syscall"
    BY <1>3 DEF Idle
  <2> QED BY <1>2, <1>3, <1>4, <2>1, EntryPushed
<1>8. AbortPending'
  BY <1>3, <1>4, <1>5, Fields, PendingKept
<1>9. RunMarked'
  <2>1. SUFFICES ASSUME NEW k \in Ctx
                 PROVE  inRun'[k] <=> \E i \in 1..hsp' : frames'[i].kind = "run" /\ frames'[i].ctx = k
    BY DEF RunMarked
  <2>2. CASE k = c
    <3>1. inRun'[k] = TRUE
      BY <1>3, <2>2, Fields
    <3>2. hsp' \in 1..hsp' /\ frames'[hsp'].kind = "run" /\ frames'[hsp'].ctx = k
      BY <1>2, <1>5, <2>2
    <3> QED BY <3>1, <3>2
  <2>3. CASE k # c
    <3>1. inRun'[k] = inRun[k]
      BY <1>3, <2>3, Fields
    <3>2. inRun[k] <=> \E i \in 1..hsp : frames[i].kind = "run" /\ frames[i].ctx = k
      BY DEF CInv, RunMarked
    <3>3. ASSUME NEW i \in 1..hsp', frames'[i].kind = "run" /\ frames'[i].ctx = k
          PROVE  i \in 1..hsp /\ frames[i].kind = "run" /\ frames[i].ctx = k
      <4>1. i # hsp + 1
        BY <1>2, <1>5, <2>3, <3>3
      <4>2. i \in 1..hsp
        BY <1>5, <4>1, Fields
      <4> QED BY <1>5, <3>3, <4>2
    <3>4. \A i \in 1..hsp : i \in 1..hsp'
      BY <1>5, Fields
    <3> QED BY <1>5, <3>1, <3>2, <3>3, <3>4
  <2> QED BY <2>2, <2>3
<1> QED BY <1>6, <1>7, <1>8, <1>9, Assembled

\* lfi_trampoline with a context, and after a clone.
LEMMA EnterStep ==
    ASSUME CInv, NEW c \in Ctx, NEW d \in 0..hsp, EnterAt(d, c), info' \in InfoSet,
           \/ /\ d = hsp /\ who = "host"
              /\ \A i \in 1..hsp : frames[i].ctx = c => frames[i].kind # "syscall"
           \/ d = hsp - 1 /\ On("cloning", None) /\ Idle(c)
    PROVE  CInv'
<1> DEFINE f == Frame("invoke", c, rsp[c], NoInfo)
<1>1. f \in FrameSet /\ f.kind = "invoke" /\ f.ctx = c
  BY Fields, FrameTyped DEF Kinds
<1>2. /\ who = "host" /\ PushAt(d, f) /\ rsp[c] < MaxSp
      /\ hostSp' = [hostSp EXCEPT ![c] = d + 1]
      /\ who' = "box" /\ cur' = c /\ sp' = rsp[c] + 1
      /\ rsp' = rsp /\ inRun' = inRun /\ abortCb' = abortCb
  BY DEF EnterAt, ToBox, On
<1> HIDE DEF f
<1>3. /\ d + 1 \in 1..MaxFrames /\ hsp' = d + 1 /\ hsp' \in 0..MaxFrames
      /\ frames' \in [1..MaxFrames -> FrameSet]
      /\ \A i \in 1..d : frames'[i] = frames[i]
      /\ frames'[d + 1] = f
  BY <1>1, <1>2, Pushed DEF CInv
<1>4. TypeOK'
  <2>1. hostSp' \in [Ctx -> 0..MaxFrames] /\ sp' \in SP
    BY <1>2, <1>3, Fields DEF SP
  <2> QED BY <1>2, <1>3, <2>1, Fields, TypesKept
<1>5. Shape'
  <2>1. \A i \in 1..hsp : frames[i].ctx = c => frames[i].kind # "syscall"
    BY DEF Idle
  <2>2. d = hsp \/ (d = hsp - 1 /\ On("cloning", None))
    OBVIOUS
  <2> QED BY <1>1, <1>2, <2>1, <2>2, EntryPushed
<1>6. AbortPending'
  <2>1. \A i \in (d + 1)..hsp : frames[i].kind # "callback"
    <3>1. CASE d = hsp
      BY <3>1, Fields
    <3>2. CASE d = hsp - 1 /\ On("cloning", None)
      BY <3>2, Fields DEF On
    <3> QED BY <3>1, <3>2
  <2>2. hsp' \in Nat /\ d <= hsp'
    BY <1>3
  <2> QED BY <1>2, <1>3, <2>1, <2>2, PendingKept DEF Lands
<1>7. RunMarked'
  <2>1. \A i \in (d + 1)..hsp : frames[i].kind # "run"
    <3>1. CASE d = hsp
      BY <3>1, Fields
    <3>2. CASE d = hsp - 1 /\ On("cloning", None)
      BY <3>2, Fields DEF On
    <3> QED BY <3>1, <3>2
  <2>2. \A i \in (d + 1)..hsp' : frames'[i].kind # "run"
    BY <1>1, <1>3
  <2>3. hsp' \in Nat /\ d <= hsp'
    BY <1>3
  <2> QED BY <1>2, <1>3, <2>1, <2>2, <2>3, RunsKept
<1> QED BY <1>4, <1>5, <1>6, <1>7, Assembled

\* lfi_trampoline, on a context of the thread.
LEMMA InvokeStep ==
    ASSUME CInv, SyscallsAlone, NEW c \in Ctx, Invoke(c) PROVE CInv'
<1>1. hsp \in 0..hsp /\ who = "host" /\ EnterAt(hsp, c) /\ info' \in InfoSet
      /\ \A i \in 1..hsp : frames[i].ctx = c => frames[i].kind # "syscall"
  BY Fields DEF Invoke, InfoSet, SyscallsAlone
<1> QED BY <1>1, EnterStep

\* lfi_trampoline, on the context the clone callback has made.
LEMMA ClonedStep ==
    ASSUME CInv, EntersIdle, NEW c \in Ctx, Cloned(c) PROVE CInv'
<1>1. hsp - 1 \in 0..hsp
  BY Fields DEF Cloned, On
<1>2. info' \in InfoSet
  BY Fields DEF Cloned, InfoSet
<1>3. On("cloning", None) /\ Idle(c) /\ EnterAt(hsp - 1, c)
  BY DEF Cloned, EntersIdle
<1> QED BY <1>1, <1>2, <1>3, EnterStep

\* lfi_trampoline without a context calls the clone callback first.
LEMMA InvokeNullStep ==
    ASSUME CInv, InvokeNull PROVE CInv'
<1> DEFINE f == Frame("cloning", None, 0, NoInfo)
<1>1. 0 \in SP /\ "cloning" \in Kinds /\ None \in Ctx \cup {None}
  BY Fields DEF SP, Kinds
<1>2. f \in FrameSet /\ f.kind = "cloning" /\ f.ctx = None /\ f.sp = 0
  <2>1. NoInfo \in InfoSet
    BY Fields
  <2> QED BY <1>1, <2>1, FrameTyped
<1>3. PushAt(hsp, f) /\ info' = NoInfo /\ who = "host"
  BY DEF InvokeNull
<1>4. /\ hostSp' = hostSp /\ rsp' = rsp /\ inRun' = inRun /\ abortCb' = abortCb
      /\ who' = who /\ cur' = cur /\ sp' = sp
  BY DEF InvokeNull
<1> HIDE DEF f
<1>5. hsp \in 0..hsp /\ hsp \in Nat
  BY Fields
<1>6. /\ hsp + 1 \in 1..MaxFrames /\ hsp' = hsp + 1 /\ hsp' \in 0..MaxFrames
      /\ frames' \in [1..MaxFrames -> FrameSet]
      /\ \A i \in 1..hsp : frames'[i] = frames[i]
      /\ frames'[hsp + 1] = f
  BY <1>2, <1>3, <1>5, Pushed DEF CInv
<1>7. TypeOK'
  BY <1>3, <1>4, <1>6, Fields, TypesKept DEF CInv, BoxOnTop
<1>8. \A i \in 1..hsp' : i = hsp + 1 \/ (i \in 1..hsp /\ frames'[i] = frames[i])
  BY <1>5, <1>6
<1>9. KindsSound'
  BY <1>2, <1>6, <1>8 DEF CInv, KindsSound, Kinds
<1>10. OutsSound'
  <2>1. SUFFICES ASSUME NEW i \in 1..hsp', CallOut(i)'
                 PROVE  i > 1 /\ Entry(i - 1)' /\ frames'[i - 1].ctx = frames'[i].ctx
    BY DEF OutsSound
  <2>2. i \in 1..hsp /\ CallOut(i)
    BY <1>2, <1>6, <1>8, <2>1 DEF CallOut
  <2>3. i > 1 /\ Entry(i - 1) /\ frames[i - 1].ctx = frames[i].ctx
    BY <2>2 DEF CInv, OutsSound
  <2> QED BY <1>5, <1>6, <2>2, <2>3 DEF Entry
<1>11. EntriesSound'
  <2>1. SUFFICES ASSUME NEW i \in 1..hsp', Entry(i)'
                 PROVE  i < hsp' /\ CallOut(i + 1)' /\ frames'[i + 1].ctx = frames'[i].ctx
    BY DEF EntriesSound
  <2>2. i \in 1..hsp /\ Entry(i)
    BY <1>2, <1>6, <1>8, <2>1 DEF Entry
  <2>3. i < hsp /\ CallOut(i + 1) /\ frames[i + 1].ctx = frames[i].ctx
    BY <1>3, <2>2 DEF CInv, EntriesSound
  <2> QED BY <1>5, <1>6, <2>2, <2>3 DEF CallOut
<1>12. RunLowest'
  <2>1. SUFFICES ASSUME NEW i \in 1..hsp', NEW j \in 1..hsp', i < j, frames'[j].kind = "run"
                 PROVE  frames'[i].ctx # frames'[j].ctx
    BY DEF RunLowest
  <2>2. j \in 1..hsp /\ i \in 1..hsp
    BY <1>2, <1>5, <1>6, <1>8, <2>1
  <2> QED BY <1>6, <2>1, <2>2 DEF CInv, RunLowest
<1>13. SyscallTop'
  <2>1. SUFFICES ASSUME NEW i \in 1..hsp', frames'[i].kind = "syscall"
                 PROVE  /\ hostSp[frames'[i].ctx] = i - 1
                        /\ \A j \in (i + 1)..hsp' : frames'[j].ctx # frames'[i].ctx
    BY <1>4 DEF SyscallTop
  <2>2. i \in 1..hsp /\ frames'[i] = frames[i]
    BY <1>2, <1>6, <1>8, <2>1
  <2>3. /\ hostSp[frames[i].ctx] = i - 1 /\ frames[i].ctx # None
        /\ \A j \in (i + 1)..hsp : frames[j].ctx # frames[i].ctx
    BY <2>1, <2>2 DEF CInv, SyscallTop, KindsSound
  <2>4. \A j \in (i + 1)..hsp' : j = hsp + 1 \/ (j \in (i + 1)..hsp /\ j \in 1..hsp)
    BY <1>5, <1>6, <2>2
  <2> QED BY <1>2, <1>6, <2>2, <2>3, <2>4
<1>14. BoxOnTop'
  BY <1>3, <1>4 DEF BoxOnTop
<1>15. Shape'
  BY <1>9, <1>10, <1>11, <1>12, <1>13, <1>14 DEF Shape
<1>16. AbortPending'
  <2>1. hsp' \in Nat /\ hsp <= hsp'
    BY <1>5, <1>6
  <2> QED BY <1>4, <1>6, <2>1, PendingStays
<1>17. RunMarked'
  <2>1. \A i \in (hsp + 1)..hsp : frames[i].kind # "run"
    BY <1>5
  <2>2. \A i \in (hsp + 1)..hsp' : frames'[i].kind # "run"
    BY <1>2, <1>5, <1>6
  <2>3. hsp' \in Nat /\ hsp <= hsp'
    BY <1>5, <1>6
  <2> QED BY <1>4, <1>5, <1>6, <2>1, <2>2, <2>3, RunsKept
<1> QED BY <1>7, <1>15, <1>16, <1>17, Assembled

\* Steps that push and pop nothing.
LEMMA FramesKept ==
    ASSUME CInv, frames' = frames, hsp' = hsp, hostSp' = hostSp, inRun' = inRun,
           (who' = who /\ cur' = cur) \/ (who = "host" /\ who' = "aborted")
    PROVE  Shape' /\ RunMarked'
<1>1. KindsSound' /\ OutsSound' /\ EntriesSound' /\ RunLowest'
  BY DEF CInv, KindsSound, OutsSound, EntriesSound, RunLowest, Entry, CallOut
<1>2. SyscallTop' /\ BoxOnTop' /\ RunMarked'
  BY DEF CInv, SyscallTop, BoxOnTop, RunMarked, Entry
<1> QED BY <1>1, <1>2 DEF Shape

\* The clone callback has none to give.
LEMMA CloneFailsStep ==
    ASSUME CInv, CloneFails PROVE CInv'
<1>1. /\ frames' = frames /\ hsp' = hsp /\ hostSp' = hostSp /\ rsp' = rsp /\ inRun' = inRun
      /\ abortCb' = abortCb /\ info' = info
      /\ cur' = cur /\ sp' = sp /\ who = "host" /\ who' = "aborted"
  BY DEF CloneFails, On
<1>2. TypeOK'
  BY <1>1, Fields, TypesKept
<1>3. AbortPending'
  <2>1. hsp' \in Nat /\ hsp <= hsp'
    BY <1>1, Fields
  <2> QED BY <1>1, <2>1, PendingStays
<1> QED BY <1>1, <1>2, <1>3, FramesKept, Assembled

\* Sandbox code moves its stack pointer.
LEMMA MoveStep ==
    ASSUME CInv, Move PROVE CInv'
<1>1. /\ frames' = frames /\ hsp' = hsp /\ hostSp' = hostSp /\ rsp' = rsp /\ inRun' = inRun
      /\ abortCb' = abortCb /\ info' = info
      /\ cur' = cur /\ sp' \in SP /\ who = "box" /\ who' = who
  BY DEF Move
<1>2. TypeOK'
  BY <1>1, Fields, TypesKept
<1>3. AbortPending'
  <2>1. hsp' \in Nat /\ hsp <= hsp'
    BY <1>1, Fields
  <2> QED BY <1>1, <2>1, PendingStays
<1> QED BY <1>1, <1>2, <1>3, FramesKept, Assembled

\* lfi_ctx_abort_cb while a callback of an invocation is on the stack.
LEMMA AbortRequestStep ==
    ASSUME CInv, AbortsInvocations, NEW c \in Ctx, AbortRequest(c) PROVE CInv'
<1>1. /\ frames' = frames /\ hsp' = hsp /\ hostSp' = hostSp /\ rsp' = rsp /\ inRun' = inRun
      /\ abortCb' = [abortCb EXCEPT ![c] = TRUE]
      /\ info' = info /\ cur' = cur /\ sp' = sp /\ who = "host" /\ who' = who
  BY DEF AbortRequest
<1>2. TypeOK'
  <2>1. abortCb' \in [Ctx -> BOOLEAN]
    BY <1>1, Fields
  <2> QED BY <1>1, <2>1, Fields, TypesKept
<1>3. AbortPending'
  <2>1. ASSUME NEW k \in Ctx, abortCb'[k]
        PROVE  \E i \in 1..hsp : Lands(i, "callback", k) /\ Lands(i - 1, "invoke", k)
    <3>1. CASE k = c
      <4>1. \E i \in 1..hsp : Lands(i, "callback", c) /\ Lands(i - 1, "invoke", c)
        BY DEF AbortsInvocations
      <4> QED BY <3>1, <4>1
    <3>2. CASE k # c
      <4>1. abortCb[k]
        BY <1>1, <2>1, <3>2, Fields
      <4> QED BY <4>1 DEF CInv, AbortPending
    <3> QED BY <3>1, <3>2
  <2>2. \A i \in 1..hsp : \A k \in Ctx :
            Lands(i, "callback", k) /\ Lands(i - 1, "invoke", k) =>
                Lands(i, "callback", k)' /\ Lands(i - 1, "invoke", k)'
    BY <1>1 DEF Lands
  <2>3. 1..hsp' = 1..hsp
    BY <1>1
  <2> QED BY <2>1, <2>2, <2>3 DEF AbortPending
<1> QED BY <1>1, <1>2, <1>3, FramesKept, Assembled

\* lfi_ret and the abort: PopInvoke, when REGS_HOST_SP leads to the entry.
LEMMA InvokePopped ==
    ASSUME CInv, NEW c \in Ctx, NEW e \in 1..hsp, Lands(e, "invoke", c), PopInvoke(c, e),
           \A i \in (e + 1)..hsp : frames[i].kind # "run",
           NEW h \in 0..MaxFrames, hostSp' = [hostSp EXCEPT ![c] = h], inRun' = inRun,
           abortCb' \in [Ctx -> BOOLEAN],
           AbortPending'
    PROVE  CInv'
<1>1. /\ rsp' = [rsp EXCEPT ![c] = frames[e].sp] /\ PopTo(e - 1)
      /\ who' = "host" /\ cur' = None /\ sp' = 0 /\ info' = InfoAfterPop(e - 1)
  BY DEF PopInvoke, ToHost
<1>2. e - 1 \in 0..hsp /\ hsp \in Nat /\ e \in 1..MaxFrames
  BY Fields
<1>3. /\ hsp' = e - 1 /\ hsp' \in 0..MaxFrames
      /\ frames' \in [1..MaxFrames -> FrameSet]
      /\ \A i \in 1..(e - 1) : frames'[i] = frames[i]
  BY <1>1, <1>2, Popped DEF CInv
<1>4. TypeOK'
  <2>1. frames[e].sp \in SP
    BY <1>2, Fields DEF FrameSet
  <2>2. rsp' \in [Ctx -> SP] /\ hostSp' \in [Ctx -> 0..MaxFrames] /\ 0 \in SP
    BY <1>1, <2>1, Fields DEF SP
  <2>3. info' \in InfoSet
    BY <1>1, <1>2, InfoTyped
  <2> QED BY <1>1, <1>3, <2>2, <2>3, Fields, TypesKept
<1>5. Shape'
  <2>1. Entry(e) /\ frames[e].ctx = c
    BY DEF Lands, Entry
  <2> QED BY <1>1, <2>1, EntryPopped
<1>6. RunMarked'
  <2>1. \A i \in (e - 1 + 1)..hsp : frames[i].kind # "run"
    BY <1>2 DEF Lands
  <2>2. \A i \in (e - 1 + 1)..hsp' : frames'[i].kind # "run"
    BY <1>2, <1>3
  <2>3. hsp' \in Nat /\ e - 1 <= hsp'
    BY <1>2, <1>3
  <2> QED BY <1>2, <1>3, <2>1, <2>2, <2>3, RunsKept
<1> QED BY <1>4, <1>5, <1>6, Assembled

\* lfi_ret finds the frame of its entry.
LEMMA RetLands ==
    ASSUME CInv, ReturnsInvocations, NEW c \in Ctx, Ret(c)
    PROVE  hostSp[c] = hsp /\ hsp \in 1..hsp /\ Lands(hsp, "invoke", c)
BY Fields DEF CInv, BoxOnTop, Ret, ReturnsInvocations

\* A sandbox function returns to lfi_ret.
LEMMA RetStep ==
    ASSUME CInv, ReturnsInvocations, NEW c \in Ctx, Ret(c) PROVE CInv'
<1>1. /\ Lands(hsp, "invoke", c) /\ PopInvoke(c, hsp) /\ hsp \in 1..hsp
      /\ hostSp' = hostSp /\ inRun' = inRun /\ abortCb' = abortCb
      /\ who = "box"
  BY RetLands DEF Ret
<1>2. hostSp' = [hostSp EXCEPT ![c] = hostSp[c]] /\ hostSp[c] \in 0..MaxFrames
  BY <1>1, Fields
<1>3. \A i \in (hsp + 1)..hsp : frames[i].kind # "run"
  BY Fields
<1>4. AbortPending'
  <2>1. hsp - 1 \in 0..hsp /\ hsp' = hsp - 1 /\ hsp' \in Nat
        /\ \A i \in 1..(hsp - 1) : frames'[i] = frames[i]
    <3>1. PopTo(hsp - 1) /\ hsp - 1 \in 0..hsp
      BY <1>1, Fields DEF PopInvoke
    <3> QED BY <3>1, Popped, Fields DEF CInv
  <2>2. \A i \in (hsp - 1 + 1)..hsp : frames[i].kind # "callback"
    BY <1>1, Fields DEF Lands
  <2> QED BY <1>1, <2>1, <2>2, PendingKept DEF Lands
<1> QED BY <1>1, <1>2, <1>3, <1>4, Fields, InvokePopped

\* The abort finds the invocation under its callback.
LEMMA AbortLands ==
    ASSUME CInv, LeadsHome, NEW c \in Ctx, CallbackAbort(c)
    PROVE  /\ hsp - 1 \in 1..hsp /\ Lands(hsp - 1, "invoke", c)
           /\ hostSp' = [hostSp EXCEPT ![c] = hsp - 1]
           /\ PopInvoke(c, hsp - 1)
<1>1. Lands(hsp - 1, "invoke", c) /\ On("callback", c)
  <2>1. On("callback", c) /\ abortCb[c] /\ hsp \in 1..hsp /\ hsp \in Nat
    BY Fields DEF CallbackAbort, On
  <2>2. PICK i \in 1..hsp : Lands(i, "callback", c) /\ Lands(i - 1, "invoke", c)
    BY <2>1 DEF CInv, AbortPending
  <2>3. hsp > 1 /\ Entry(hsp - 1) /\ frames[hsp - 1].ctx = c
    BY <2>1 DEF CInv, OutsSound, CallOut, On
  <2>4. CASE i = hsp
    BY <2>1, <2>2, <2>4
  <2>5. CASE i # hsp
    <3>1. i < hsp - 1 /\ hsp - 1 \in 1..hsp
      BY <2>1, <2>2, <2>3, <2>5 DEF Lands, Entry
    <3>2. frames[hsp - 1].kind # "run"
      BY <2>2, <2>3, <3>1 DEF CInv, RunLowest, Lands
    <3> QED BY <2>1, <2>3, <3>1, <3>2 DEF Lands, Entry
  <2> QED BY <2>4, <2>5
<1>2. hostSp' = [hostSp EXCEPT ![c] = hsp - 1] /\ PopInvoke(c, hostSp'[c])
  BY DEF CallbackAbort, LeadsHome
<1>3. hostSp'[c] = hsp - 1
  BY <1>2, Fields
<1> QED BY <1>1, <1>2, <1>3 DEF Lands

\* A callback that was aborted goes to lfi_ret_end, which finds the invocation.
LEMMA CallbackAbortStep ==
    ASSUME CInv, LeadsHome, NEW c \in Ctx, CallbackAbort(c) PROVE CInv'
<1>1. /\ hsp - 1 \in 1..hsp /\ hsp - 1 \in 0..MaxFrames /\ hsp \in Nat
      /\ Lands(hsp - 1, "invoke", c) /\ PopInvoke(c, hsp - 1)
      /\ hostSp' = [hostSp EXCEPT ![c] = hsp - 1]
  BY Fields, AbortLands
<1>2. /\ inRun' = inRun /\ abortCb' = [abortCb EXCEPT ![c] = FALSE]
      /\ On("callback", c)
  BY DEF CallbackAbort
<1>3. \A i \in (hsp - 1 + 1)..hsp : frames[i].kind # "run"
  BY <1>1, <1>2 DEF On
<1>4. AbortPending'
  <2>1. \A k \in Ctx : abortCb'[k] => k # c /\ abortCb[k]
    BY <1>2, Fields
  <2>2. \A i \in (hsp - 1 - 1 + 1)..hsp : frames[i].ctx = c
    BY <1>1, <1>2 DEF On, Lands
  <2>3. /\ hsp - 1 - 1 \in 0..hsp /\ hsp' = hsp - 1 - 1 /\ hsp' \in Nat
        /\ \A i \in 1..(hsp - 1 - 1) : frames'[i] = frames[i]
    <3>1. PopTo(hsp - 1 - 1) /\ hsp - 1 - 1 \in 0..hsp
      BY <1>1 DEF PopInvoke
    <3> QED BY <3>1, Popped, Fields DEF CInv
  <2> QED BY <2>1, <2>2, <2>3, PendingKept DEF Lands
<1>5. abortCb' \in [Ctx -> BOOLEAN]
  BY <1>2, Fields
<1> QED BY <1>1, <1>2, <1>3, <1>4, <1>5, InvokePopped

\* Callbacks and system calls push on the frame of their entry.
LEMMA OutStep ==
    ASSUME CInv, NEW c \in Ctx, who = "box", cur = c,
           NEW k \in {"callback", "syscall"}, NEW s \in SP,
           PushAt(hostSp[c], Frame(k, c, s, NoInfo)),
           rsp' = [rsp EXCEPT ![c] = sp],
           who' = "host", cur' = None, sp' = 0,
           NEW h \in 0..MaxFrames, k = "syscall" => h = hsp,
           hostSp' = [hostSp EXCEPT ![c] = h],
           inRun' = inRun, abortCb' = abortCb, info' = info
    PROVE  CInv'
<1> DEFINE f == Frame(k, c, s, NoInfo)
<1>1. f \in FrameSet /\ f.kind = k /\ f.ctx = c
  BY Fields, FrameTyped DEF Kinds
<1> HIDE DEF f
<1>2. hostSp[c] = hsp /\ PushAt(hsp, f) /\ PushAt(hostSp[c], f) /\ hsp \in 0..hsp
  BY Fields DEF CInv, BoxOnTop, f
<1>3. /\ hsp' = hsp + 1 /\ hsp' \in 0..MaxFrames
      /\ frames' \in [1..MaxFrames -> FrameSet]
      /\ \A i \in 1..hsp : frames'[i] = frames[i]
      /\ frames'[hsp + 1] = f
  BY <1>1, <1>2, Pushed DEF CInv
<1>4. TypeOK'
  <2>1. rsp' \in [Ctx -> SP] /\ hostSp' \in [Ctx -> 0..MaxFrames] /\ 0 \in SP
    BY Fields DEF SP
  <2> QED BY <1>3, <2>1, Fields, TypesKept
<1>5. Shape'
  BY <1>1, <1>2, CallOutPushed
<1>6. AbortPending'
  <2>1. hsp' \in Nat /\ hsp <= hsp'
    BY <1>3, Fields
  <2> QED BY <1>3, <2>1, PendingStays
<1>7. RunMarked'
  <2>1. \A i \in (hsp + 1)..hsp : frames[i].kind # "run"
    BY Fields
  <2>2. \A i \in (hsp + 1)..hsp' : frames'[i].kind # "run"
    BY <1>1, <1>3, Fields
  <2>3. hsp' \in Nat /\ hsp <= hsp'
    BY <1>3, Fields
  <2> QED BY <1>2, <1>3, <2>1, <2>2, <2>3, RunsKept
<1> QED BY <1>4, <1>5, <1>6, <1>7, Assembled

\* Sandbox code calls a callback.
LEMMA CallbackStep ==
    ASSUME CInv, NEW c \in Ctx, Callback(c) PROVE CInv'
<1>1. rsp[c] \in SP /\ hostSp[c] = hsp
  BY Fields DEF Callback, CInv, BoxOnTop
<1>2. PICK h \in 0..MaxFrames : hostSp' = [hostSp EXCEPT ![c] = h]
  <2>1. hostSp = [hostSp EXCEPT ![c] = hsp] /\ hsp \in 0..MaxFrames /\ 0 \in 0..MaxFrames
    BY <1>1, Fields
  <2> QED BY <2>1 DEF Callback
<1> QED BY <1>1, <1>2, OutStep DEF Callback, ToHost

\* Sandbox code makes a system call.
LEMMA SyscallStep ==
    ASSUME CInv, NEW c \in Ctx, Syscall(c) PROVE CInv'
<1>1. who = "box" /\ cur = c /\ hostSp' = hostSp
  BY DEF Syscall
<1>2. hsp \in 0..MaxFrames /\ 0 \in SP /\ hostSp' = [hostSp EXCEPT ![c] = hsp]
  BY <1>1, Fields DEF CInv, BoxOnTop, SP
<1> QED BY <1>1, <1>2, OutStep DEF Syscall, ToHost

\* Callbacks and system calls return on the frame of their entry.
LEMMA BackStep ==
    ASSUME CInv, NEW c \in Ctx, who = "host", hsp > 0, CallOut(hsp), frames[hsp].ctx = c,
           PopTo(hsp - 1), rsp' \in [Ctx -> SP], ToBox(c, rsp[c]),
           hostSp' = [hostSp EXCEPT ![c] = hsp - 1], info' = InfoAfterPop(hsp - 1),
           inRun' = inRun, abortCb' = abortCb,
           frames[hsp].kind = "callback" => ~abortCb[c]
    PROVE  CInv'
<1>1. hsp - 1 \in 0..hsp /\ hsp - 1 \in 0..MaxFrames /\ hsp \in Nat
  BY Fields
<1>2. /\ hsp' = hsp - 1 /\ hsp' \in 0..MaxFrames
      /\ frames' \in [1..MaxFrames -> FrameSet]
      /\ \A i \in 1..(hsp - 1) : frames'[i] = frames[i]
  BY <1>1, Popped DEF CInv
<1>3. TypeOK'
  <2>1. hostSp' \in [Ctx -> 0..MaxFrames] /\ info' \in InfoSet
    BY <1>1, Fields, InfoTyped
  <2>2. sp' \in SP /\ who' = "box" /\ cur' = c
    BY Fields DEF ToBox
  <2> QED BY <1>2, <2>1, <2>2, Fields, TypesKept
<1>4. Shape'
  BY CallOutPopped DEF ToBox
<1>5. AbortPending'
  <2>1. \A k \in Ctx : abortCb'[k] => \A i \in (hsp - 1 + 1)..hsp : ~Lands(i, "callback", k)
    BY <1>1 DEF Lands
  <2>2. hsp' \in Nat /\ hsp - 1 <= hsp'
    BY <1>1, <1>2
  <2> QED BY <1>1, <1>2, <2>1, <2>2, PendingKept
<1>6. RunMarked'
  <2>1. \A i \in (hsp - 1 + 1)..hsp : frames[i].kind # "run"
    BY <1>1 DEF CallOut
  <2>2. \A i \in (hsp - 1 + 1)..hsp' : frames'[i].kind # "run"
    BY <1>1, <1>2
  <2>3. hsp' \in Nat /\ hsp - 1 <= hsp'
    BY <1>1, <1>2
  <2> QED BY <1>1, <1>2, <2>1, <2>2, <2>3, RunsKept
<1> QED BY <1>3, <1>4, <1>5, <1>6, Assembled

\* A callback returns to the sandbox.
LEMMA CallbackReturnStep ==
    ASSUME CInv, NEW c \in Ctx, CallbackReturn(c) PROVE CInv'
<1>1. /\ who = "host" /\ hsp > 0 /\ CallOut(hsp) /\ frames[hsp].ctx = c /\ ~abortCb[c]
      /\ PopTo(hsp - 1) /\ rsp' = [rsp EXCEPT ![c] = frames[hsp].sp] /\ ToBox(c, rsp[c])
      /\ hostSp' = [hostSp EXCEPT ![c] = hsp - 1] /\ info' = InfoAfterPop(hsp - 1)
      /\ inRun' = inRun /\ abortCb' = abortCb
  BY DEF CallbackReturn, On, CallOut
<1>3. rsp' \in [Ctx -> SP]
  <2>1. frames[hsp].sp \in SP
    <3>1. hsp \in 1..MaxFrames
      BY <1>1, Fields
    <3> QED BY <3>1, Fields DEF FrameSet
  <2> QED BY <1>1, <2>1, Fields
<1> QED BY <1>1, <1>3, BackStep

\* A system call returns to the sandbox.
LEMMA SyscallReturnStep ==
    ASSUME CInv, NEW c \in Ctx, SyscallReturn(c) PROVE CInv'
<1>1. /\ who = "host" /\ hsp > 0 /\ frames[hsp].kind = "syscall" /\ frames[hsp].ctx = c
      /\ PopTo(hsp - 1) /\ rsp' = rsp /\ ToBox(c, rsp[c])
      /\ hostSp' = hostSp /\ info' = InfoAfterPop(hsp - 1)
      /\ inRun' = inRun /\ abortCb' = abortCb
  BY DEF SyscallReturn, On
<1>3. hostSp' = [hostSp EXCEPT ![c] = hsp - 1]
  <2>1. hostSp[c] = hsp - 1
    BY <1>1, Fields DEF CInv, SyscallTop
  <2> QED BY <1>1, <2>1, Fields
<1>4. rsp' \in [Ctx -> SP] /\ CallOut(hsp)
  BY <1>1, Fields DEF CallOut
<1> QED BY <1>1, <1>3, <1>4, BackStep

\* lfi_ctx_end finds the frame of lfi_ctx_run.
LEMMA ExitLands ==
    ASSUME CInv, LeadsHome, ExitsRuns, NEW c \in Ctx, Exit(c), inRun[c]
    PROVE  /\ who = "host" /\ CallOut(hsp) /\ frames[hsp].ctx = c /\ hsp - 1 \in 1..hsp
           /\ Lands(hsp - 1, "run", c) /\ hostSp[c] = hsp - 1
<1>1. On("syscall", c) \/ On("callback", c)
  BY DEF ExitsRuns
<1>2. Lands(hsp - 1, "run", c)
  BY DEF ExitsRuns
<1>3. hsp \in 1..hsp /\ hsp - 1 \in 1..hsp
  BY <1>1, <1>2, Fields DEF On, Lands
<1>4. hostSp[c] = hsp - 1
  BY <1>1, <1>3 DEF CInv, SyscallTop, On, LeadsHome
<1> QED BY <1>1, <1>2, <1>3, <1>4 DEF On, CallOut

\* lfi_ctx_exit goes to lfi_ctx_end, which finds the frame of lfi_ctx_run.
LEMMA ExitStep ==
    ASSUME CInv, LeadsHome, ExitsRuns, NEW c \in Ctx, Exit(c) PROVE CInv'
<1>1. /\ hostSp' = hostSp /\ rsp' = rsp /\ abortCb' = abortCb
      /\ who = "host"
  BY DEF Exit
<1>3. CASE ~inRun[c]
  <2>1. /\ who = "host" /\ who' = "aborted" /\ frames' = frames /\ hsp' = hsp /\ inRun' = inRun
        /\ info' = info /\ cur' = cur /\ sp' = sp
    BY <1>1, <1>3 DEF Exit
  <2>2. TypeOK'
    BY <1>1, <2>1, Fields, TypesKept
  <2>3. AbortPending'
    <3>1. hsp' \in Nat /\ hsp <= hsp'
      BY <2>1, Fields
    <3> QED BY <1>1, <2>1, <3>1, PendingStays
  <2> QED BY <1>1, <2>1, <2>2, <2>3, FramesKept, Assembled
<1>4. CASE inRun[c]
  <2> DEFINE d == hsp - 1
  <2>1. d \in 1..hsp /\ Lands(d, "run", c) /\ hostSp[c] = d /\ frames[hsp].ctx = c
    BY <1>4, ExitLands
  <2>2. /\ PopTo(d - 1) /\ inRun' = [inRun EXCEPT ![c] = FALSE]
        /\ info' = (IF frames[d].old # NoInfo THEN frames[d].old ELSE InfoAfterPop(d - 1))
        /\ who' = "host" /\ cur' = None /\ sp' = 0
    BY <1>4, <2>1 DEF Exit, RunEnded, ToHost
  <2>3. d - 1 \in 0..hsp /\ d \in 1..MaxFrames /\ hsp \in Nat /\ hsp = d + 1
    BY <2>1, Fields
  <2> HIDE DEF d
  <2>4. /\ hsp' = d - 1 /\ hsp' \in 0..MaxFrames
        /\ frames' \in [1..MaxFrames -> FrameSet]
        /\ \A i \in 1..(d - 1) : frames'[i] = frames[i]
    BY <2>2, <2>3, Popped DEF CInv
  <2>5. TypeOK'
    <3>1. frames[d].old \in InfoSet /\ InfoAfterPop(d - 1) \in InfoSet
      BY <2>3, Fields, InfoTyped DEF FrameSet, InfoSet
    <3>2. info' \in InfoSet
      BY <2>2, <3>1
    <3>3. inRun' \in [Ctx -> BOOLEAN] /\ 0 \in SP
      BY <2>2, Fields DEF SP
    <3> QED BY <1>1, <2>2, <2>4, <3>2, <3>3, Fields, TypesKept
  <2>6. Shape'
    <3>1. Entry(d) /\ frames[d].ctx = c
      BY <2>1 DEF Lands, Entry
    <3>2. hostSp' = [hostSp EXCEPT ![c] = d] /\ d \in 0..MaxFrames
      BY <1>1, <2>1, <2>3, Fields
    <3> QED BY <2>1, <2>2, <3>1, <3>2, EntryPopped
  <2>7. RunMarked'
    <3>1. SUFFICES ASSUME NEW k \in Ctx
                   PROVE  inRun'[k] <=> \E i \in 1..hsp' : frames'[i].kind = "run" /\ frames'[i].ctx = k
      BY DEF RunMarked
    <3>2. \A i \in 1..hsp' : i \in 1..hsp /\ frames'[i] = frames[i] /\ i < d
      BY <2>3, <2>4
    <3>3. CASE k = c
      <4>1. ~inRun'[k]
        BY <2>2, <3>3, Fields
      <4>2. ASSUME NEW i \in 1..hsp' PROVE frames[i].ctx # c
        BY <2>1, <3>2 DEF CInv, RunLowest, Lands
      <4> QED BY <3>2, <3>3, <4>1, <4>2
    <3>4. CASE k # c
      <4>1. inRun'[k] = inRun[k]
        BY <2>2, <3>4, Fields
      <4>2. inRun[k] <=> \E i \in 1..hsp : frames[i].kind = "run" /\ frames[i].ctx = k
        BY DEF CInv, RunMarked
      <4>3. ASSUME NEW i \in 1..hsp, frames[i].ctx = k
            PROVE  i \in 1..hsp'
        <5>1. i # d /\ i # hsp
          BY <2>1, <3>4, <4>3 DEF Lands
        <5> QED BY <2>3, <2>4, <5>1
      <4> QED BY <3>2, <4>1, <4>2, <4>3
    <3> QED BY <3>3, <3>4
  <2>8. AbortPending'
    <3>1. ASSUME NEW k \in Ctx, NEW i \in (d - 1 + 1)..hsp, Lands(i, "callback", k) /\ Lands(i - 1, "invoke", k)
          PROVE  FALSE
      <4>1. i = d \/ i - 1 = d
        BY <2>3
      <4> QED BY <2>1, <3>1, <4>1 DEF Lands
    <3>2. hsp' \in Nat /\ d - 1 <= hsp'
      BY <2>3, <2>4
    <3> QED BY <1>1, <2>3, <2>4, <3>1, <3>2, PendingKept
  <2> QED BY <2>5, <2>6, <2>7, <2>8, Assembled
<1> QED BY <1>3, <1>4

-----------------------------------------------------------------------------
\* No context has been entered.
LEMMA InitStep == ConstAssumption /\ Init => CInv
<1> SUFFICES ASSUME Init PROVE CInv
  OBVIOUS
<1>1. hsp = 0 /\ who = "host" /\ 1..hsp = {}
  BY DEF Init
<1>2. TypeOK
  BY ConstAssumption DEF Init, TypeOK, Junk, NoInfo, SP
<1>3. KindsSound /\ OutsSound /\ EntriesSound /\ RunLowest /\ SyscallTop /\ BoxOnTop
  BY <1>1 DEF KindsSound, OutsSound, EntriesSound, RunLowest, SyscallTop, BoxOnTop
<1>4. AbortPending /\ RunMarked
  BY <1>1 DEF Init, AbortPending, RunMarked
<1> QED BY <1>2, <1>3, <1>4 DEF CInv

\* Nothing happens.
LEMMA StandingStill ==
    ASSUME CInv, UNCHANGED vars
    PROVE  CInv' /\ (DirectKept => DirectKept')
<1>1. /\ frames' = frames /\ hsp' = hsp /\ hostSp' = hostSp /\ rsp' = rsp /\ inRun' = inRun
      /\ abortCb' = abortCb /\ info' = info
      /\ cur' = cur /\ sp' = sp /\ who' = who
  BY DEF vars
<1>2. TypeOK' /\ AbortPending'
  BY <1>1 DEF CInv, TypeOK, AbortPending, Lands
<1>3. DirectKept => DirectKept'
  BY <1>1 DEF DirectKept
<1> QED BY <1>1, <1>2, <1>3, FramesKept, Assembled

\* Every switch that leads home keeps the invariant.
LEMMA CallStep ==
    ASSUME CInv, Contract, LeadsHome, [Next]_vars PROVE CInv'
<1>0. EntersIdle /\ SyscallsAlone /\ ReturnsInvocations /\ AbortsInvocations /\ ExitsRuns
  BY DEF Contract
<1>1. CASE \E c \in Ctx : Run(c) \/ Invoke(c) \/ Cloned(c)
  BY <1>0, <1>1, RunStep, InvokeStep, ClonedStep
<1>2. CASE \E c \in Ctx : Ret(c) \/ Callback(c) \/ Syscall(c)
  BY <1>0, <1>2, RetStep, CallbackStep, SyscallStep
<1>3. CASE \E c \in Ctx : AbortRequest(c) \/ CallbackReturn(c) \/ CallbackAbort(c)
  BY <1>0, <1>3, AbortRequestStep, CallbackReturnStep, CallbackAbortStep
<1>4. CASE \E c \in Ctx : SyscallReturn(c) \/ Exit(c)
  BY <1>0, <1>4, SyscallReturnStep, ExitStep
<1>5. CASE InvokeNull \/ CloneFails \/ Move
  BY <1>5, InvokeNullStep, CloneFailsStep, MoveStep
<1>6. CASE UNCHANGED vars
  BY <1>6, StandingStill
<1> QED BY <1>1, <1>2, <1>3, <1>4, <1>5, <1>6 DEF Next

-----------------------------------------------------------------------------
(* The contract keeps REGS_HOST_SP of those who unwind where it leads home. *)

\* Exits and aborts the contract allows lead home.
LEMMA ContractLeads ==
    ASSUME CInv, DirectKept, Contract
    PROVE  LeadsHome
<1> SUFFICES ASSUME NEW c \in Ctx
             PROVE  /\ CallbackAbort(c) => HostSpAtAbort(c) = hsp - 1
                    /\ Exit(c) /\ inRun[c] /\ On("callback", c) => hostSp[c] = hsp - 1
  BY DEF LeadsHome
<1>1. CASE Arch = "x64"
  BY <1>1 DEF Contract, CallbackExits, HostSpAtAbort
<1>2. CASE Arch = "arm64"
  <2>1. CallbackAbort(c) => On("callback", c) /\ c \in Direct
    BY <1>2 DEF DirectKept, CallbackAbort
  <2>2. Exit(c) /\ inRun[c] /\ On("callback", c) => c \in Direct
    BY DEF Contract, CallbackExits
  <2>3. On("callback", c) /\ c \in Direct => hostSp[c] = hsp - 1
    <3>1. On("callback", c) => hsp \in 1..hsp
      BY Fields DEF On
    <3> QED BY <1>2, <3>1 DEF DirectKept, On
  <2> QED BY <1>2, <2>1, <2>2, <2>3 DEF HostSpAtAbort
<1> QED BY <1>1, <1>2, ConstAssumption

\* A step that pops to d, or pushes one frame of c on d, and writes no
\* REGS_HOST_SP but that of c.
LEMMA DirectFrames ==
    ASSUME CInv, DirectKept, Arch = "arm64",
           NEW d \in 0..hsp, hsp' = d \/ hsp' = d + 1,
           \A i \in 1..d : frames'[i] = frames[i],
           NEW c \in Ctx \cup {None},
           \A k \in Ctx : k # c => hostSp'[k] = hostSp[k],
           hsp' = d + 1 => frames'[d + 1].ctx = c
                           /\ (frames'[d + 1].kind = "callback" => hostSp'[c] = d),
           c \in Direct => \/ hsp' = d /\ hostSp'[c] = hostSp[c]
                          \/ \A i \in 1..d : ~(frames[i].kind = "callback" /\ frames[i].ctx = c),
           \A k \in Ctx : abortCb'[k] => k \in Direct
    PROVE  DirectKept'
<1>1. d \in Nat /\ hsp \in Nat /\ d <= hsp /\ Direct \subseteq Ctx
  BY Fields, ConstAssumption
<1> SUFFICES ASSUME NEW i \in 1..hsp', frames'[i].kind = "callback", frames'[i].ctx \in Direct
             PROVE  /\ hostSp'[frames'[i].ctx] = i - 1
                    /\ \A j \in (i + 1)..hsp' : frames'[j].ctx # frames'[i].ctx
  BY DEF DirectKept
<1>2. CASE i \in 1..d
  <2>1. frames'[i] = frames[i] /\ i \in 1..hsp
    BY <1>1, <1>2
  <2>2. /\ hostSp[frames[i].ctx] = i - 1
        /\ \A j \in (i + 1)..hsp : frames[j].ctx # frames[i].ctx
    BY <2>1 DEF DirectKept
  <2>3. frames[i].ctx = c => hsp' = d /\ hostSp'[c] = hostSp[c]
    BY <1>2, <2>1
  <2>4. hostSp'[frames[i].ctx] = i - 1
    BY <1>1, <2>1, <2>2, <2>3
  <2>5. ASSUME NEW j \in (i + 1)..hsp' PROVE frames'[j].ctx # frames[i].ctx
    <3>1. CASE j \in 1..d
      BY <1>1, <2>2, <3>1
    <3>2. CASE ~(j \in 1..d)
      BY <1>1, <1>2, <2>3, <3>2
    <3> QED BY <3>1, <3>2
  <2> QED BY <2>1, <2>4, <2>5
<1>3. CASE ~(i \in 1..d)
  <2>1. i = d + 1 /\ hsp' = d + 1
    BY <1>1, <1>3
  <2> QED BY <1>1, <2>1
<1> QED BY <1>2, <1>3

\* Nothing on the host stack of c may be disturbed by an entry: c is idle, or
\* its callbacks do not unwind.
LEMMA DirectEntry ==
    ASSUME CInv, DirectKept, Arch = "arm64", NEW c \in Ctx, NEW d \in 0..hsp,
           c \in Direct => Idle(c),
           NEW f \in FrameSet, f.ctx = c, f.kind # "callback", PushAt(d, f),
           hostSp' = [hostSp EXCEPT ![c] = d + 1], abortCb' = abortCb
    PROVE  DirectKept'
<1>1. hsp' = d + 1 /\ (\A i \in 1..d : frames'[i] = frames[i]) /\ frames'[d + 1] = f
  BY Pushed DEF CInv
<1>2. \A k \in Ctx : k # c => hostSp'[k] = hostSp[k]
  BY Fields
<1>3. \A i \in 1..d : i \in 1..hsp
  BY Fields
<1>4. c \in Direct => \A i \in 1..d : ~(frames[i].kind = "callback" /\ frames[i].ctx = c)
  BY <1>3 DEF Idle
<1>5. \A k \in Ctx : abortCb'[k] => k \in Direct
  BY DEF DirectKept
<1> QED BY <1>1, <1>2, <1>4, <1>5, DirectFrames

\* A call out of c is made from the entry on top, so nothing of c is below it
\* that something has entered.
LEMMA DirectOut ==
    ASSUME CInv, DirectKept, Arch = "arm64", NEW c \in Ctx, who = "box", cur = c,
           NEW f \in FrameSet, f.ctx = c, PushAt(hostSp[c], f),
           hostSp' = hostSp, abortCb' = abortCb
    PROVE  DirectKept'
<1>1. hostSp[c] = hsp /\ hsp > 0 /\ Entry(hsp) /\ frames[hsp].ctx = c /\ hsp \in 0..hsp /\ hsp \in Nat
  BY Fields DEF CInv, BoxOnTop
<1>2. hsp' = hsp + 1 /\ (\A i \in 1..hsp : frames'[i] = frames[i]) /\ frames'[hsp + 1] = f
  <2>1. PushAt(hsp, f)
    BY <1>1
  <2> QED BY <1>1, <2>1, Pushed DEF CInv
<1>3. ASSUME c \in Direct, NEW i \in 1..hsp, frames[i].kind = "callback", frames[i].ctx = c
      PROVE  FALSE
  <2>1. i # hsp
    BY <1>1, <1>3 DEF Entry
  <2>2. hsp \in (i + 1)..hsp
    BY <1>1, <2>1
  <2> QED BY <1>1, <1>3, <2>2 DEF DirectKept
<1>4. \A k \in Ctx : abortCb'[k] => k \in Direct
  BY DEF DirectKept
<1> QED BY <1>1, <1>2, <1>3, <1>4, DirectFrames

\* Pops that leave REGS_HOST_SP alone.
LEMMA DirectPopped ==
    ASSUME CInv, DirectKept, Arch = "arm64", NEW d \in 0..hsp, PopTo(d), hostSp' = hostSp,
           \A k \in Ctx : abortCb'[k] => abortCb[k]
    PROVE  DirectKept'
<1>1. hsp' = d /\ \A i \in 1..d : frames'[i] = frames[i]
  BY Popped DEF CInv
<1>2. hsp' # d + 1
  BY <1>1, Fields
<1>3. \A k \in Ctx : abortCb'[k] => k \in Direct
  BY DEF DirectKept
<1>4. None \in Ctx \cup {None}
  OBVIOUS
<1> QED BY <1>1, <1>2, <1>3, <1>4, DirectFrames

\* And every switch it allows keeps them there.
LEMMA DirectStep ==
    ASSUME CInv, DirectKept, Contract, [Next]_vars
    PROVE  DirectKept'
<1> SUFFICES ASSUME Arch = "arm64" PROVE DirectKept'
  BY DEF DirectKept
<1>0. /\ LeadsHome /\ hsp \in Nat /\ hsp \in 0..hsp
      /\ EntersIdle /\ ReturnsInvocations /\ ExitsRuns /\ CallbackAborts /\ DirectOnce
  BY ContractLeads, Fields DEF Contract
<1>1. CASE \E c \in Ctx : Run(c)
  <2>1. PICK c \in Ctx : Run(c)
    BY <1>1
  <2> DEFINE o == IF hsp > 0 /\ frames[hsp].kind = "syscall" THEN info ELSE NoInfo
             f == Frame("run", c, 0, o)
  <2>2. o \in InfoSet /\ 0 \in SP /\ "run" \in Kinds
    BY Fields DEF SP, Kinds
  <2>3. f \in FrameSet /\ f.ctx = c /\ f.kind = "run"
    <3> HIDE DEF o
    <3> QED BY <2>2, FrameTyped
  <2>4. PushAt(hsp, f) /\ Idle(c) /\ hostSp' = [hostSp EXCEPT ![c] = hsp + 1] /\ abortCb' = abortCb
    BY <1>0, <2>1 DEF Run, EntersIdle
  <2> HIDE DEF f
  <2> QED BY <1>0, <2>3, <2>4, DirectEntry
<1>2. ASSUME NEW c \in Ctx, NEW d \in 0..hsp, EnterAt(d, c), c \in Direct => Idle(c)
      PROVE  DirectKept'
  <2> DEFINE f == Frame("invoke", c, rsp[c], NoInfo)
  <2>1. f \in FrameSet /\ f.ctx = c /\ f.kind = "invoke"
    BY Fields, FrameTyped DEF Kinds
  <2>2. PushAt(d, f) /\ hostSp' = [hostSp EXCEPT ![c] = d + 1] /\ abortCb' = abortCb
    BY <1>2 DEF EnterAt
  <2> HIDE DEF f
  <2> QED BY <1>2, <2>1, <2>2, DirectEntry
<1>3. CASE \E c \in Ctx : Invoke(c)
  <2>1. PICK c \in Ctx : Invoke(c)
    BY <1>3
  <2>2. EnterAt(hsp, c) /\ (c \in Direct => Idle(c))
    BY <1>0, <2>1 DEF Invoke, DirectOnce
  <2> QED BY <1>0, <1>2, <2>2
<1>4. CASE \E c \in Ctx : Cloned(c)
  <2>1. PICK c \in Ctx : Cloned(c)
    BY <1>4
  <2>2. EnterAt(hsp - 1, c) /\ Idle(c) /\ hsp - 1 \in 0..hsp
    BY <1>0, <2>1 DEF Cloned, On, EntersIdle
  <2> QED BY <1>2, <2>2
<1>5. CASE InvokeNull
  <2> DEFINE f == Frame("cloning", None, 0, NoInfo)
  <2>1. 0 \in SP /\ "cloning" \in Kinds /\ None \in Ctx \cup {None} /\ NoInfo \in InfoSet
    BY Fields DEF SP, Kinds
  <2>2. f \in FrameSet /\ f.kind = "cloning" /\ f.ctx = None
    BY <2>1, FrameTyped
  <2>3. PushAt(hsp, f) /\ hostSp' = hostSp /\ abortCb' = abortCb
    BY <1>5 DEF InvokeNull
  <2> HIDE DEF f
  <2>4. hsp' = hsp + 1 /\ (\A i \in 1..hsp : frames'[i] = frames[i]) /\ frames'[hsp + 1] = f
    BY <1>0, <2>2, <2>3, Pushed DEF CInv
  <2>5. None \notin Direct /\ \A k \in Ctx : abortCb'[k] => k \in Direct
    BY <2>3, ConstAssumption DEF DirectKept
  <2> QED BY <1>0, <2>1, <2>2, <2>3, <2>4, <2>5, DirectFrames
<1>6. ASSUME NEW c \in Ctx, who = "box", cur = c, NEW k \in {"callback", "syscall"}, NEW s \in SP,
             PushAt(hostSp[c], Frame(k, c, s, NoInfo)), hostSp' = hostSp, abortCb' = abortCb
      PROVE  DirectKept'
  <2> DEFINE f == Frame(k, c, s, NoInfo)
  <2>1. f \in FrameSet /\ f.ctx = c
    BY Fields, FrameTyped DEF Kinds
  <2>2. PushAt(hostSp[c], f)
    BY <1>6
  <2> HIDE DEF f
  <2> QED BY <1>6, <2>1, <2>2, DirectOut
<1>7. CASE \E c \in Ctx : Callback(c) \/ Syscall(c)
  <2>1. PICK c \in Ctx : Callback(c) \/ Syscall(c)
    BY <1>7
  <2>2. CASE Callback(c)
    <3>1. rsp[c] \in SP
      BY Fields
    <3> QED BY <1>6, <2>2, <3>1 DEF Callback
  <2>3. CASE Syscall(c)
    <3>1. 0 \in SP
      BY Fields DEF SP
    <3> QED BY <1>6, <2>3, <3>1 DEF Syscall
  <2> QED BY <2>1, <2>2, <2>3
<1>8. CASE \E c \in Ctx : Ret(c)
  <2>1. PICK c \in Ctx : Ret(c)
    BY <1>8
  <2>2. PopInvoke(c, hsp) /\ Lands(hsp, "invoke", c) /\ hsp - 1 \in 0..hsp
    BY <1>0, <2>1, RetLands DEF Ret
  <2>3. PopTo(hsp - 1) /\ hostSp' = hostSp /\ abortCb' = abortCb
    BY <2>1, <2>2 DEF Ret, PopInvoke
  <2> QED BY <2>2, <2>3, DirectPopped
<1>9. CASE \E c \in Ctx : AbortRequest(c)
  <2>1. PICK c \in Ctx : AbortRequest(c)
    BY <1>9
  <2>2. /\ frames' = frames /\ hsp' = hsp /\ hostSp' = hostSp
        /\ abortCb' = [abortCb EXCEPT ![c] = TRUE]
    BY <2>1 DEF AbortRequest
  <2>3. c \in Direct
    BY <1>0, <2>1 DEF CallbackAborts
  <2>4. \A k \in Ctx : abortCb'[k] => k \in Direct
    BY <2>2, <2>3, Fields DEF DirectKept
  <2> QED BY <2>2, <2>4 DEF DirectKept
<1>10. CASE \E c \in Ctx : CallbackReturn(c)
  <2>1. PICK c \in Ctx : CallbackReturn(c)
    BY <1>10
  <2>2. /\ On("callback", c) /\ PopTo(hsp - 1) /\ hostSp' = [hostSp EXCEPT ![c] = hsp - 1]
        /\ abortCb' = abortCb
    BY <2>1 DEF CallbackReturn
  <2>3. hsp \in 1..hsp /\ hsp - 1 \in 0..hsp
    BY <1>0, <2>2 DEF On
  <2>4. hsp' = hsp - 1 /\ hsp' # hsp - 1 + 1 /\ \A i \in 1..(hsp - 1) : frames'[i] = frames[i]
    BY <1>0, <2>2, <2>3, Popped DEF CInv
  <2>5. ASSUME c \in Direct, NEW i \in 1..(hsp - 1), frames[i].kind = "callback", frames[i].ctx = c
        PROVE  FALSE
    <3>1. i \in 1..hsp /\ hsp \in (i + 1)..hsp
      BY <1>0
    <3> QED BY <2>2, <2>5, <3>1 DEF DirectKept, On
  <2>6. \A k \in Ctx : k # c => hostSp'[k] = hostSp[k]
    BY <2>2, Fields
  <2>7. \A k \in Ctx : abortCb'[k] => k \in Direct
    BY <2>2 DEF DirectKept
  <2> QED BY <2>3, <2>4, <2>5, <2>6, <2>7, DirectFrames
<1>11. CASE \E c \in Ctx : CallbackAbort(c)
  <2>1. PICK c \in Ctx : CallbackAbort(c)
    BY <1>11
  <2>2. /\ hsp - 1 \in 1..hsp /\ Lands(hsp - 1, "invoke", c) /\ PopInvoke(c, hsp - 1)
        /\ hostSp' = [hostSp EXCEPT ![c] = hsp - 1]
    BY <1>0, <2>1, AbortLands
  <2>3. hostSp[c] = hsp - 1
    BY <1>0, <2>1 DEF LeadsHome, HostSpAtAbort
  <2>4. hostSp' = hostSp
    BY <2>2, <2>3, Fields
  <2>5. PopTo(hsp - 1 - 1) /\ hsp - 1 - 1 \in 0..hsp
    BY <1>0, <2>2 DEF PopInvoke
  <2>6. \A k \in Ctx : abortCb'[k] => abortCb[k]
    BY <2>1, Fields DEF CallbackAbort
  <2> QED BY <2>4, <2>5, <2>6, DirectPopped
<1>12. CASE \E c \in Ctx : SyscallReturn(c)
  <2>1. PICK c \in Ctx : SyscallReturn(c)
    BY <1>12
  <2>2. PopTo(hsp - 1) /\ hostSp' = hostSp /\ abortCb' = abortCb /\ hsp - 1 \in 0..hsp
    BY <1>0, <2>1 DEF SyscallReturn, On
  <2> QED BY <2>2, DirectPopped
<1>13. CASE \E c \in Ctx : Exit(c) /\ inRun[c]
  <2>1. PICK c \in Ctx : Exit(c) /\ inRun[c]
    BY <1>13
  <2>2. hsp - 1 \in 1..hsp /\ Lands(hsp - 1, "run", c) /\ hostSp[c] = hsp - 1
    BY <1>0, <2>1, ExitLands
  <2>3. PopTo(hsp - 1 - 1) /\ hostSp' = hostSp /\ abortCb' = abortCb
    BY <2>1, <2>2 DEF Exit
  <2>4. hsp - 1 - 1 \in 0..hsp
    BY <1>0, <2>2
  <2> QED BY <2>3, <2>4, DirectPopped
<1>14. CASE \/ CloneFails \/ Move \/ UNCHANGED vars
            \/ \E c \in Ctx : Exit(c) /\ ~inRun[c]
  <2>1. frames' = frames /\ hsp' = hsp /\ hostSp' = hostSp /\ abortCb' = abortCb
    BY <1>14 DEF CloneFails, Move, vars, Exit
  <2> QED BY <2>1 DEF DirectKept
<1> QED
  BY <1>1, <1>3, <1>4, <1>5, <1>7, <1>8, <1>9, <1>10, <1>11, <1>12, <1>13, <1>14 DEF Next

\* The stack of host frames is well formed, and the saved words lead into it,
\* on x86-64 and arm64.
THEOREM CallsInvariance == Spec /\ [][Contract]_vars => [](CInv /\ DirectKept)
<1>1. Init => CInv /\ DirectKept
  <2>1. Init => DirectKept
    BY DEF Init, DirectKept
  <2> QED BY <2>1, InitStep, ConstAssumption
<1>2. CInv /\ DirectKept /\ [Next]_vars /\ [Contract]_vars => (CInv /\ DirectKept)'
  <2> SUFFICES ASSUME CInv, DirectKept, [Next]_vars, [Contract]_vars PROVE (CInv /\ DirectKept)'
    OBVIOUS
  <2>1. CASE Contract
    BY <2>1, ContractLeads, CallStep, DirectStep
  <2>2. CASE UNCHANGED vars
    BY <2>2, StandingStill
  <2> QED BY <2>1, <2>2
<1> QED BY <1>1, <1>2, PTL DEF Spec

\* lfi_ret, the abort of a callback and lfi_ctx_end find the frame of their own
\* entry, for any number of contexts and frames, however entries nest, if the
\* callers keep to the contract: whatever else they do, with an abort pending
\* or not, leads no switch astray.
THEOREM SwitchesReturnHome == Spec /\ [][Contract]_vars => []ReturnsHome
<1>1. CInv => ReturnsHome
  BY DEF CInv, BoxOnTop, ReturnsHome
<1> QED BY <1>1, CallsInvariance, PTL

\* REGS_HOST_SP of the running context is the stack pointer its entry left,
\* and in_ctx_run holds of the contexts with an lfi_ctx_run on the stack.
THEOREM SavedWords == Spec /\ [][Contract]_vars => []SavedState
<1>1. CInv => SavedState
  BY Fields DEF CInv, BoxOnTop, SavedState, RunMarked, Entry, Lands
<1> QED BY <1>1, CallsInvariance, PTL

-----------------------------------------------------------------------------
(* First elements, and stacks as sequences. *)

\* The lowest frame of a set.
LEMMA FirstIs ==
    ASSUME NEW S \in SUBSET Nat, S # {}
    PROVE  FirstOf(S) \in S /\ \A j \in S : FirstOf(S) <= j
<1> DEFINE R == OpToRel(<, Nat)
<1>1. IsWellFoundedOn(R, Nat)
  BY NatLessThanWellFounded
<1>2. \A u, s \in Nat : u < s => <<u, s>> \in R
  BY DEF OpToRel
<1> HIDE DEF R
<1>3. PICK s \in S : \A u \in S : ~ (<<u, s>> \in R)
  BY <1>1, WFMin
<1>4. \A u \in S : s <= u
  <2>1. \A u \in S : u \in Nat /\ s \in Nat /\ ~(u < s)
    BY <1>2, <1>3
  <2> QED
    BY <2>1
<1> QED
  BY <1>4 DEF FirstOf

\* There is one.
LEMMA FirstUnique ==
    ASSUME NEW S \in SUBSET Nat, NEW m \in S, \A j \in S : m <= j
    PROVE  FirstOf(S) = m
<1>1. FirstOf(S) \in S /\ \A j \in S : FirstOf(S) <= j
  BY FirstIs
<1>2. FirstOf(S) <= m /\ m <= FirstOf(S) /\ m \in Nat /\ FirstOf(S) \in Nat
  BY <1>1
<1> QED BY <1>2

\* Adding a larger element.
LEMMA FirstKept ==
    ASSUME NEW S \in SUBSET Nat, S # {}, NEW n \in Nat, \A j \in S : j <= n
    PROVE  FirstOf(S \cup {n}) = FirstOf(S)
<1>1. FirstOf(S) \in S /\ \A j \in S : FirstOf(S) <= j
  BY FirstIs
<1>2. \A j \in S \cup {n} : FirstOf(S) <= j
  BY <1>1
<1> QED BY <1>1, <1>2, FirstUnique

\* Popping a stack, and pushing on it.
LEMMA Prefix ==
    ASSUME NEW n \in Nat, NEW m \in Nat, n <= m, NEW T,
           NEW f \in [1..n -> T], NEW g \in [1..m -> T],
           \A i \in 1..n : g[i] = f[i]
    PROVE  /\ f \in Seq(T) /\ g \in Seq(T)
           /\ Len(f) = n /\ Len(g) = m
           /\ f = SubSeq(g, 1, n)
<1>1. g \in Seq(T) /\ f \in Seq(T)
  BY SeqDef
<1>2. Len(f) = n /\ Len(g) = m
  BY <1>1, LenProperties
<1> DEFINE h == SubSeq(g, 1, n)
<1>3. h \in Seq(T) /\ Len(h) = n /\ \A i \in 1..n : h[i] = g[i]
  BY <1>1, <1>2
<1> HIDE DEF h
<1>4. f = h
  <2>1. Len(f) = Len(h) /\ \A i \in 1..Len(f) : f[i] = h[i]
    BY <1>2, <1>3
  <2> QED BY <1>1, <1>3, <2>1, SeqEqual
<1> QED BY <1>1, <1>2, <1>4 DEF h

\* A longer stack is the shorter one with its top.
LEMMA Appended ==
    ASSUME NEW n \in Nat, NEW m \in Nat, m = n + 1, NEW T,
           NEW f \in [1..n -> T], NEW g \in [1..m -> T],
           \A i \in 1..n : g[i] = f[i]
    PROVE  g = Append(f, g[m])
<1>1. g \in Seq(T) /\ f \in Seq(T) /\ Len(f) = n /\ Len(g) = m
  <2>1. n <= m
    OBVIOUS
  <2> QED BY <2>1, Prefix
<1>2. g[m] \in T /\ \A i \in 1..m : i \in 1..n \/ i = m
  OBVIOUS
<1> DEFINE h == Append(f, g[m])
<1>3. h \in Seq(T) /\ Len(h) = m /\ (\A i \in 1..n : h[i] = f[i]) /\ h[m] = g[m]
  BY <1>1, <1>2, AppendProperties
<1> HIDE DEF h
<1>4. Len(g) = Len(h) /\ \A i \in 1..Len(g) : g[i] = h[i]
  BY <1>1, <1>2, <1>3
<1>5. g = h
  BY <1>1, <1>3, <1>4, SeqEqual
<1> QED BY <1>5 DEF h

-----------------------------------------------------------------------------
(* Resume positions as functions of the frames. *)

Later(F, n, i) == {j \in (i + 1)..n : F[j].ctx = F[i].ctx /\ F[j].kind = "invoke"}
ResumeIn(F, n, R, i) ==
    IF Later(F, n, i) = {} THEN R[F[i].ctx] ELSE F[FirstOf(Later(F, n, i))].sp
Below(F, n, c) == {i \in 1..n : F[i].ctx = c}
RestIn(F, n, R, c) == IF Below(F, n, c) = {} THEN R[c] ELSE F[FirstOf(Below(F, n, c))].sp
CallIn(F, n, R, i) ==
    [kind |-> F[i].kind, ctx |-> F[i].ctx,
     sp |-> IF F[i].kind \in {"callback", "syscall"} THEN ResumeIn(F, n, R, i) ELSE F[i].sp]

SitsOut(f) == f.kind \in {"callback", "syscall"}

\* G has one frame more than F.
Grows(F, G, n, m) == n \in Nat /\ m \in Nat /\ m = n + 1 /\ \A j \in 1..n : G[j] = F[j]

\* The word in frame f, or the current one, is what R holds for context c.
Holds(f, c, S, R) ==
    \/ f.ctx = c /\ f.kind = "invoke" /\ f.sp = R[c]
    \/ ~(f.ctx = c /\ f.kind = "invoke") /\ S[c] = R[c]

\* Frame f, or else the current word, rests where context c rested below it.
Rests(F, n, f, S, R, c) ==
    \/ Below(F, n, c) # {}
    \/ f.ctx = c /\ f.sp = R[c]
    \/ f.ctx # c /\ S[c] = R[c]

\* One more frame changes no resume position below it, if the word it holds is
\* the one that was in force.
LEMMA ResumeKept ==
    ASSUME NEW F, NEW G, NEW n, NEW m, Grows(F, G, n, m),
           NEW R, NEW S, NEW i \in 1..n,
           Later(F, n, i) # {} \/ Holds(G[m], F[i].ctx, S, R)
    PROVE  ResumeIn(G, m, S, i) = ResumeIn(F, n, R, i)
<1>0. n \in Nat /\ m \in Nat /\ m = n + 1 /\ \A j \in 1..n : G[j] = F[j]
  BY DEF Grows
<1> USE <1>0
<1> DEFINE L == Later(F, n, i)
           M == Later(G, n + 1, i)
           top == G[n + 1].ctx = F[i].ctx /\ G[n + 1].kind = "invoke"
<1>1. L \in SUBSET Nat /\ n + 1 \in Nat /\ \A j \in L : j <= n + 1 /\ j \in 1..n
  BY DEF Later
<1>2. G[i] = F[i]
  OBVIOUS
<1>3. M = IF top THEN L \cup {n + 1} ELSE L
  <2>1. \A j : j \in (i + 1)..(n + 1) <=> (j \in (i + 1)..n \/ j = n + 1)
    OBVIOUS
  <2>2. \A j \in (i + 1)..n : j \in 1..n
    OBVIOUS
  <2>3. \A j : j \in M <=> (j \in L \/ (top /\ j = n + 1))
    BY <1>2, <2>1, <2>2 DEF Later
  <2> QED BY <2>3
<1> HIDE DEF L, M
<1>4. CASE L = {}
  <2>1. Holds(G[m], F[i].ctx, S, R) /\ ResumeIn(F, n, R, i) = R[F[i].ctx]
    BY <1>4 DEF L, ResumeIn
  <2>2. CASE top
    <3>1. FirstOf(M) = n + 1 /\ M # {}
      <4>1. M = {n + 1}
        BY <1>3, <1>4, <2>2
      <4> QED BY <1>1, <4>1, FirstUnique
    <3>2. ResumeIn(G, m, S, i) = G[m].sp
      BY <3>1 DEF ResumeIn, M
    <3> QED BY <2>1, <2>2, <3>2 DEF Holds
  <2>3. CASE ~top
    <3>1. ResumeIn(G, m, S, i) = S[G[i].ctx]
      BY <1>3, <1>4, <2>3 DEF ResumeIn, M
    <3> QED BY <1>2, <2>1, <2>3, <3>1 DEF Holds
  <2> QED BY <2>2, <2>3
<1>5. CASE L # {}
  <2>1. FirstOf(M) = FirstOf(L) /\ M # {}
    BY <1>1, <1>3, <1>5, FirstKept
  <2>2. FirstOf(L) \in 1..n
    BY <1>1, <1>5, FirstIs
  <2> QED BY <1>5, <2>1, <2>2 DEF ResumeIn, L, M
<1> QED BY <1>4, <1>5

\* Where a context's stack rests does not change under a frame that leaves it there.
LEMMA RestKept ==
    ASSUME NEW F, NEW G, NEW n, NEW m, Grows(F, G, n, m), NEW R, NEW S, NEW c,
           Rests(F, n, G[m], S, R, c)
    PROVE  RestIn(G, m, S, c) = RestIn(F, n, R, c)
<1>0. n \in Nat /\ m \in Nat /\ m = n + 1 /\ \A j \in 1..n : G[j] = F[j]
  BY DEF Grows
<1> USE <1>0
<1> DEFINE L == Below(F, n, c)
           M == Below(G, n + 1, c)
<1>1. L \in SUBSET Nat /\ n + 1 \in Nat /\ \A j \in L : j <= n + 1 /\ j \in 1..n
  BY DEF Below
<1>2. M = IF G[n + 1].ctx = c THEN L \cup {n + 1} ELSE L
  <2>1. \A j : j \in 1..(n + 1) <=> (j \in 1..n \/ j = n + 1)
    OBVIOUS
  <2>2. \A j : j \in M <=> (j \in L \/ (G[n + 1].ctx = c /\ j = n + 1))
    BY <2>1 DEF Below
  <2> QED BY <2>2
<1> HIDE DEF L, M
<1>3. CASE L = {}
  <2>1. CASE G[n + 1].ctx = c
    <3>1. FirstOf(M) = n + 1 /\ M # {}
      <4>1. M = {n + 1}
        BY <1>2, <1>3, <2>1
      <4> QED BY <1>1, <4>1, FirstUnique
    <3> QED BY <1>3, <2>1, <3>1 DEF RestIn, Rests, L, M
  <2>2. CASE G[n + 1].ctx # c
    BY <1>2, <1>3, <2>2 DEF RestIn, Rests, L, M
  <2> QED BY <2>1, <2>2
<1>4. CASE L # {}
  <2>1. FirstOf(M) = FirstOf(L) /\ M # {}
    BY <1>1, <1>2, <1>4, FirstKept
  <2>2. FirstOf(L) \in 1..n
    BY <1>1, <1>4, FirstIs
  <2> QED BY <1>4, <2>1, <2>2 DEF RestIn, L, M
<1> QED BY <1>3, <1>4

\* The first frame of a context.
LEMMA RestFirst ==
    ASSUME NEW F, NEW G, NEW n, NEW m, Grows(F, G, n, m), NEW S, NEW c,
           Below(F, n, c) = {}, G[m].ctx = c
    PROVE  RestIn(G, m, S, c) = G[m].sp
<1>0. n \in Nat /\ m \in Nat /\ m = n + 1 /\ \A j \in 1..n : G[j] = F[j]
  BY DEF Grows
<1> USE <1>0
<1>1. Below(G, n + 1, c) = {n + 1}
  <2>1. \A j : j \in 1..(n + 1) <=> (j \in 1..n \/ j = n + 1)
    OBVIOUS
  <2> QED BY <2>1 DEF Below
<1>2. FirstOf({n + 1}) = n + 1
  BY FirstUnique
<1> QED BY <1>1, <1>2 DEF RestIn

CallsIn(F, n, R) == [i \in 1..n |-> CallIn(F, n, R, i)]

\* Above the n frames of F, frame f changes where no call out resumes.
Undisturbed(F, n, f, S, R) ==
    \A i \in 1..n : ~SitsOut(F[i]) \/ Later(F, n, i) # {} \/ Holds(f, F[i].ctx, S, R)

\* The calls below such a frame are those of before.
LEMMA CallKept ==
    ASSUME NEW F, NEW G, NEW n, NEW m, Grows(F, G, n, m), NEW R, NEW S,
           Undisturbed(F, n, G[m], S, R), NEW i \in 1..n
    PROVE  CallIn(G, m, S, i) = CallIn(F, n, R, i)
<1>1. G[i] = F[i]
  BY DEF Grows
<1>2. CASE SitsOut(F[i])
  <2>1. Later(F, n, i) # {} \/ Holds(G[m], F[i].ctx, S, R)
    BY <1>2 DEF Undisturbed
  <2>2. ResumeIn(G, m, S, i) = ResumeIn(F, n, R, i)
    BY <2>1, ResumeKept
  <2> QED BY <1>1, <2>2 DEF CallIn
<1>3. CASE ~SitsOut(F[i])
  BY <1>1, <1>3 DEF CallIn, SitsOut
<1> QED BY <1>2, <1>3

\* There is one call for each frame.
LEMMA CallsLen ==
    ASSUME NEW F, NEW n \in Nat, NEW R
    PROVE  Len(CallsIn(F, n, R)) = n
<1> DEFINE T == {CallIn(F, n, R, i) : i \in 1..n}
           f == CallsIn(F, n, R)
<1>1. f \in [1..n -> T]
  BY DEF CallsIn
<1> HIDE DEF f, T
<1>2. Len(f) = n
  BY <1>1, Prefix
<1> QED BY <1>2 DEF f

\* Only the frames below matter.
LEMMA UndisturbedIn ==
    ASSUME NEW F, NEW G, NEW n \in Nat, \A i \in 1..n : G[i] = F[i],
           NEW f, NEW R, NEW S, Undisturbed(G, n, f, S, R)
    PROVE  Undisturbed(F, n, f, S, R)
<1>1. SUFFICES ASSUME NEW i \in 1..n
               PROVE  ~SitsOut(F[i]) \/ Later(F, n, i) # {} \/ Holds(f, F[i].ctx, S, R)
  BY DEF Undisturbed
<1>2. Later(F, n, i) = Later(G, n, i)
  <2>1. \A j \in (i + 1)..n : j \in 1..n
    OBVIOUS
  <2> QED BY <2>1 DEF Later
<1> QED BY <1>2 DEF Undisturbed

\* A push, and the pop that undoes it.
LEMMA CallsPushed ==
    ASSUME NEW F, NEW G, NEW n, NEW m, Grows(F, G, n, m), NEW R, NEW S,
           Undisturbed(F, n, G[m], S, R)
    PROVE  /\ Len(CallsIn(F, n, R)) = n /\ Len(CallsIn(G, m, S)) = m
           /\ CallsIn(G, m, S) = Append(CallsIn(F, n, R), CallIn(G, m, S, m))
           /\ CallsIn(F, n, R) = SubSeq(CallsIn(G, m, S), 1, n)
<1>0. n \in Nat /\ m \in Nat /\ m = n + 1 /\ \A j \in 1..n : G[j] = F[j]
  BY DEF Grows
<1> USE <1>0
<1>1. \A i \in 1..n : CallIn(G, m, S, i) = CallIn(F, n, R, i)
  BY CallKept
<1> DEFINE f == CallsIn(F, n, R)
           g == CallsIn(G, m, S)
<1>2. m \in 1..m /\ \A i \in 1..n : i \in 1..m
  OBVIOUS
<1> DEFINE T == {CallIn(F, n, R, i) : i \in 1..n} \cup {CallIn(G, m, S, i) : i \in 1..m}
<1>3. f \in [1..n -> T] /\ g \in [1..m -> T] /\ g[m] = CallIn(G, m, S, m)
  BY <1>2 DEF CallsIn
<1>4. \A i \in 1..n : g[i] = f[i]
  BY <1>1, <1>2 DEF CallsIn
<1> HIDE DEF f, g, T
<1>5. Len(f) = n /\ Len(g) = m /\ g = Append(f, g[m]) /\ f = SubSeq(g, 1, n)
  <2>1. n <= m
    OBVIOUS
  <2> QED BY <1>3, <1>4, <2>1, Appended, Prefix
<1> QED BY <1>3, <1>5 DEF f, g

\* With the call out and the entry below it.
LEMMA CallKeptTwice ==
    ASSUME NEW F, NEW G, NEW R, NEW S, NEW n, NEW k, NEW m,
           Grows(F, G, n, k), Grows(G, G, k, m), G[m].kind # "invoke",
           Undisturbed(F, n, G[k], S, R),
           NEW i \in 1..n
    PROVE  CallIn(G, m, S, i) = CallIn(F, n, R, i)
<1>1. i \in 1..k
  BY DEF Grows
<1>2. Undisturbed(G, k, G[m], S, S)
  BY DEF Undisturbed, Holds
<1>3. CallIn(G, k, S, i) = CallIn(F, n, R, i)
  BY CallKept
<1>4. CallIn(G, m, S, i) = CallIn(G, k, S, i)
  BY <1>1, <1>2, CallKept
<1> QED BY <1>3, <1>4

\* So the calls are a beginning of those with it.
LEMMA CallsPrefix ==
    ASSUME NEW F, NEW G, NEW R, NEW S, NEW n \in Nat, NEW m \in Nat, n <= m,
           \A i \in 1..n : CallIn(G, m, S, i) = CallIn(F, n, R, i)
    PROVE  CallsIn(F, n, R) = SubSeq(CallsIn(G, m, S), 1, n)
<1> DEFINE f == CallsIn(F, n, R)
           g == CallsIn(G, m, S)
           T == {CallIn(F, n, R, i) : i \in 1..n} \cup {CallIn(G, m, S, i) : i \in 1..m}
<1>1. f \in [1..n -> T] /\ g \in [1..m -> T]
  BY DEF CallsIn
<1>2. \A i \in 1..n : g[i] = f[i]
  <2>1. \A i \in 1..n : i \in 1..m
    OBVIOUS
  <2> QED BY <2>1 DEF CallsIn
<1> HIDE DEF f, g, T
<1>3. f = SubSeq(g, 1, n)
  BY <1>1, <1>2, Prefix
<1> QED BY <1>3 DEF f, g

\* The mapping in these terms, in a state and after a step.
LEMMA AbsIs ==
    /\ AbsCalls = CallsIn(frames, hsp, rsp)
    /\ AbsRest = [c \in Ctx |-> RestIn(frames, hsp, rsp, c)]
    /\ AbsCalls' = CallsIn(frames', hsp', rsp')
    /\ AbsRest' = [c \in Ctx |-> RestIn(frames', hsp', rsp', c)]
BY DEF AbsCalls, AbsRest, Resume, CallsIn, CallIn, ResumeIn, Later, RestIn, Below

\* Callers for whom only the innermost word changes.
LEMMA OuterCalls ==
    ASSUME KindsSound, RunLowest, NEW e \in 1..hsp, Entry(e),
           NEW i \in 1..(e - 1), frames[i].ctx = frames[e].ctx, NEW n \in e..hsp, hsp \in Nat
    PROVE  Later(frames, n, i) # {}
<1>1. i \in 1..hsp /\ i < e /\ e \in (i + 1)..n
  OBVIOUS
<1>2. frames[e].kind = "invoke"
  BY <1>1 DEF RunLowest, Entry
<1> QED BY <1>1, <1>2 DEF Later

\* Steps that touch neither frames nor stack pointers are not seen.
LEMMA AbsKept ==
    ASSUME frames' = frames, hsp' = hsp, rsp' = rsp
    PROVE  AbsCalls' = AbsCalls /\ AbsRest' = AbsRest
BY AbsIs

\* The resting places of all contexts.
LEMMA RestStays ==
    ASSUME \A k \in Ctx : RestIn(frames', hsp', rsp', k) = RestIn(frames, hsp, rsp, k)
    PROVE  AbsRest' = AbsRest
BY AbsIs

\* A context is active if a frame of it is there.
LEMMA ActiveIs ==
    ASSUME hsp \in Nat, NEW c
    PROVE  /\ DOMAIN AbsCalls = 1..hsp
           /\ Abs!Active(c) = Below(frames, hsp, c)
<1>1. AbsCalls = CallsIn(frames, hsp, rsp)
  BY AbsIs
<1>2. DOMAIN AbsCalls = 1..hsp /\ \A i \in 1..hsp : AbsCalls[i].ctx = frames[i].ctx
  BY <1>1 DEF CallsIn, CallIn
<1> QED BY <1>2 DEF Abs!Active, Below

\* What a push does to the stack of calls, to which no outer call is blind.
LEMMA PushMaps ==
    ASSUME CInv, NEW f \in FrameSet, PushAt(hsp, f),
           Undisturbed(frames, hsp, f, rsp', rsp)
    PROVE  /\ hsp' = hsp + 1 /\ hsp \in Nat /\ hsp' \in Nat
           /\ \A i \in 1..hsp : frames'[i] = frames[i]
           /\ frames'[hsp'] = f
           /\ AbsCalls' = Append(AbsCalls, CallIn(frames', hsp', rsp', hsp'))
<1>1. hsp \in 0..hsp /\ hsp \in Nat
  BY Fields
<1>2. /\ hsp' = hsp + 1 /\ hsp' \in Nat
      /\ \A i \in 1..hsp : frames'[i] = frames[i]
      /\ frames'[hsp'] = f
  BY <1>1, Pushed DEF CInv
<1>3. PICK G, S, m : G = frames' /\ S = rsp' /\ m = hsp'
  OBVIOUS
<1>4. Grows(frames, G, hsp, m) /\ G[m] = f
  BY <1>1, <1>2, <1>3 DEF Grows
<1>5. Undisturbed(frames, hsp, G[m], S, rsp)
  BY <1>3, <1>4
<1>6. CallsIn(G, m, S) = Append(CallsIn(frames, hsp, rsp), CallIn(G, m, S, m))
  BY <1>4, <1>5, CallsPushed
<1> QED BY <1>1, <1>2, <1>3, <1>6, AbsIs

\* A push leaves the resting places of contexts that were active, and of those it saves.
LEMMA RestPushed ==
    ASSUME hsp \in Nat, hsp' = hsp + 1, \A i \in 1..hsp : frames'[i] = frames[i], NEW k,
           \/ Below(frames, hsp, k) # {}
           \/ frames'[hsp'].ctx = k /\ frames'[hsp'].sp = rsp[k]
           \/ frames'[hsp'].ctx # k /\ rsp'[k] = rsp[k]
    PROVE  RestIn(frames', hsp', rsp', k) = RestIn(frames, hsp, rsp, k)
<1>1. PICK G, S, m : G = frames' /\ S = rsp' /\ m = hsp'
  OBVIOUS
<1>2. Grows(frames, G, hsp, m)
  BY <1>1 DEF Grows
<1>3. Rests(frames, hsp, G[m], S, rsp, k)
  BY <1>1 DEF Rests
<1>4. RestIn(G, m, S, k) = RestIn(frames, hsp, rsp, k)
  BY <1>2, <1>3, RestKept
<1> QED BY <1>1, <1>4

\* The first frame of a context remembers its resting place.
LEMMA FirstPushed ==
    ASSUME hsp \in Nat, hsp' = hsp + 1, \A i \in 1..hsp : frames'[i] = frames[i], NEW k,
           Below(frames, hsp, k) = {}, frames'[hsp'].ctx = k
    PROVE  RestIn(frames', hsp', rsp', k) = frames'[hsp'].sp
<1>1. PICK G, S, m : G = frames' /\ S = rsp' /\ m = hsp'
  OBVIOUS
<1>2. Grows(frames, G, hsp, m) /\ G[m].ctx = k
  BY <1>1 DEF Grows
<1>3. RestIn(G, m, S, k) = G[m].sp
  BY <1>2, RestFirst
<1> QED BY <1>1, <1>3

\* What a pop of one frame does.
LEMMA PopMaps ==
    ASSUME CInv, hsp > 0, PopTo(hsp - 1),
           Undisturbed(frames, hsp - 1, frames[hsp], rsp, rsp')
    PROVE  /\ hsp' = hsp - 1 /\ hsp \in Nat /\ hsp' \in Nat
           /\ \A i \in 1..hsp' : frames'[i] = frames[i]
           /\ Len(AbsCalls) = hsp /\ AbsCalls # <<>>
           /\ AbsCalls' = SubSeq(AbsCalls, 1, Len(AbsCalls) - 1)
<1>1. hsp \in Nat /\ hsp - 1 \in 0..hsp
  BY Fields
<1>2. hsp' = hsp - 1 /\ hsp' \in Nat /\ \A i \in 1..hsp' : frames'[i] = frames[i]
  BY <1>1, Popped DEF CInv
<1>3. PICK F, R, n : F = frames' /\ R = rsp' /\ n = hsp'
  OBVIOUS
<1>4. n \in Nat /\ hsp = n + 1 /\ (\A i \in 1..n : frames[i] = F[i]) /\ n = hsp - 1
  BY <1>1, <1>2, <1>3
<1>5. Undisturbed(F, n, frames[hsp], rsp, R)
  <2>1. Undisturbed(frames, n, frames[hsp], rsp, R)
    BY <1>3, <1>4
  <2> QED BY <1>4, <2>1, UndisturbedIn
<1>6. Len(CallsIn(frames, hsp, rsp)) = hsp
      /\ CallsIn(F, n, R) = SubSeq(CallsIn(frames, hsp, rsp), 1, n)
  <2>1. Grows(F, frames, n, hsp)
    BY <1>1, <1>4 DEF Grows
  <2> QED BY <1>5, <2>1, CallsPushed
<1>7. Len(AbsCalls) = hsp /\ AbsCalls' = SubSeq(AbsCalls, 1, n)
  BY <1>3, <1>6, AbsIs
<1>8. AbsCalls # <<>>
  <2>1. Len(<<>>) = 0
    OBVIOUS
  <2> QED BY <1>1, <1>7, <2>1
<1> QED BY <1>1, <1>2, <1>4, <1>7, <1>8

\* A pop gives back what the frame saved.
LEMMA RestPopped ==
    ASSUME hsp \in Nat, hsp' \in Nat, hsp' = hsp - 1,
           \A i \in 1..hsp' : frames'[i] = frames[i], NEW k,
           \/ \E i \in 1..hsp' : frames[i].ctx = k
           \/ frames[hsp].ctx = k /\ frames[hsp].sp = rsp'[k]
           \/ frames[hsp].ctx # k /\ rsp'[k] = rsp[k]
    PROVE  RestIn(frames', hsp', rsp', k) = RestIn(frames, hsp, rsp, k)
<1>1. PICK F, R, n : F = frames' /\ R = rsp' /\ n = hsp'
  OBVIOUS
<1>2. n \in Nat /\ hsp = n + 1 /\ \A i \in 1..n : frames[i] = F[i]
  BY <1>1
<1>3. Rests(F, n, frames[hsp], rsp, R, k)
  BY <1>1, <1>2 DEF Rests, Below
<1>4. RestIn(frames, hsp, rsp, k) = RestIn(F, n, R, k)
  <2>1. Grows(F, frames, n, hsp)
    BY <1>2 DEF Grows
  <2> QED BY <1>3, <2>1, RestKept
<1> QED BY <1>1, <1>4

\* lfi_ctx_run begins a call.
LEMMA RunMaps ==
    ASSUME CInv, EntersIdle, NEW c \in Ctx, Run(c) PROVE Abs!Run(c)
<1> DEFINE o == IF hsp > 0 /\ frames[hsp].kind = "syscall" THEN info ELSE NoInfo
           f == Frame("run", c, 0, o)
<1>1. 0 \in SP /\ "run" \in Kinds /\ o \in InfoSet
  BY Fields DEF SP, Kinds
<1>2. f \in FrameSet /\ f.kind = "run" /\ f.ctx = c /\ f.sp = 0
  <2> HIDE DEF o
  <2> QED BY <1>1, FrameTyped
<1>3. /\ Idle(c) /\ who = "host" /\ PushAt(hsp, f)
      /\ who' = "box" /\ cur' = c /\ sp' = rsp[c] /\ rsp' = rsp
  BY DEF Run, EntersIdle, ToBox
<1> HIDE DEF f, o
<1>4. Undisturbed(frames, hsp, f, rsp', rsp)
  BY <1>2, <1>3 DEF Holds, Undisturbed
<1>5. /\ hsp' = hsp + 1 /\ hsp \in Nat /\ hsp' \in Nat
      /\ \A i \in 1..hsp : frames'[i] = frames[i]
      /\ frames'[hsp'] = f
      /\ AbsCalls' = Append(AbsCalls, CallIn(frames', hsp', rsp', hsp'))
  BY <1>2, <1>3, <1>4, PushMaps
<1>6. CallIn(frames', hsp', rsp', hsp') = [kind |-> "run", ctx |-> c, sp |-> 0]
  BY <1>2, <1>5 DEF CallIn
<1>7. Below(frames, hsp, c) = {}
  BY <1>3 DEF Below, Idle
<1>8. AbsRest[c] = rsp[c]
  BY <1>7, AbsIs DEF RestIn
<1>9. AbsRest' = [AbsRest EXCEPT ![c] = 0]
  <2>1. RestIn(frames', hsp', rsp', c) = 0
    <3>1. frames'[hsp'].ctx = c /\ frames'[hsp'].sp = 0
      BY <1>2, <1>5
    <3>2. RestIn(frames', hsp', rsp', c) = frames'[hsp'].sp
      BY <1>5, <1>7, <3>1, FirstPushed
    <3> QED BY <3>1, <3>2
  <2>2. ASSUME NEW k \in Ctx, k # c
        PROVE  RestIn(frames', hsp', rsp', k) = RestIn(frames, hsp, rsp, k)
    BY <1>2, <1>3, <1>5, <2>2, RestPushed
  <2> QED BY <2>1, <2>2, AbsIs
<1>10. Abs!Active(c) = {}
  BY <1>5, <1>7, ActiveIs
<1> QED BY <1>3, <1>5, <1>6, <1>8, <1>9, <1>10 DEF Abs!Run, Abs!Push

\* An entry from host code finds the stack of c where its innermost call out
\* left it, or at rest.
LEMMA StartIs ==
    ASSUME CInv, NEW c \in Ctx, who = "host"
    PROVE  Abs!Start(c) = rsp[c]
<1>1. hsp \in Nat /\ c # None
  BY Fields, ConstAssumption
<1> DEFINE A == Below(frames, hsp, c)
<1>2. Abs!Active(c) = A
  BY <1>1, ActiveIs
<1>3. CASE A = {}
  <2>1. AbsRest[c] = rsp[c]
    BY <1>3, AbsIs DEF RestIn
  <2> QED BY <1>2, <1>3, <2>1 DEF Abs!Start
<1>4. CASE A # {}
  <2> DEFINE m == CHOOSE i \in A : \A j \in A : j <= i
  <2>1. m \in A /\ \A j \in A : j <= m
    <3> DEFINE B == {hsp - i : i \in A}
    <3>1. A \subseteq 1..hsp
      BY DEF Below
    <3>2. B \in SUBSET Nat /\ B # {}
      BY <1>1, <1>4, <3>1
    <3> HIDE DEF B
    <3>3. FirstOf(B) \in B /\ \A j \in B : FirstOf(B) <= j
      BY <3>2, FirstIs
    <3>4. PICK i \in A : FirstOf(B) = hsp - i
      BY <3>3 DEF B
    <3>5. \A j \in A : hsp - i <= hsp - j
      BY <3>3, <3>4 DEF B
    <3>6. \A j \in A : j <= i
      BY <1>1, <3>1, <3>5
    <3> HIDE DEF A
    <3> QED BY <3>6
  <2> HIDE DEF m
  <2>2. m \in 1..hsp /\ frames[m].ctx = c /\ \A j \in 1..hsp : frames[j].ctx = c => j <= m
    BY <2>1 DEF Below
  <2>3. CallOut(m)
    <3>1. frames[m].kind \in Kinds /\ frames[m].kind # "cloning"
      BY <1>1, <2>2 DEF CInv, KindsSound
    <3>2. ~Entry(m)
      <4>1. ASSUME Entry(m)
            PROVE  m + 1 \in 1..hsp /\ frames[m + 1].ctx = c
        BY <1>1, <2>2, <4>1 DEF CInv, EntriesSound
      <4> QED BY <1>1, <2>2, <4>1
    <3> QED BY <3>1, <3>2 DEF Kinds, Entry, CallOut
  <2>4. Later(frames, hsp, m) = {}
    <3>1. ASSUME NEW j \in (m + 1)..hsp PROVE frames[j].ctx # c
      <4>1. j \in 1..hsp /\ ~(j <= m)
        BY <1>1, <2>2
      <4> QED BY <2>2, <4>1
    <3> QED BY <2>2, <3>1 DEF Later
  <2>5. AbsCalls[m].sp = rsp[c]
    BY <2>2, <2>3, <2>4, AbsIs DEF CallsIn, CallIn, ResumeIn, CallOut
  <2> QED BY <1>2, <1>4, <2>5 DEF Abs!Start, m
<1> QED BY <1>3, <1>4

\* lfi_trampoline begins a call.
LEMMA InvokeMaps ==
    ASSUME CInv, NEW c \in Ctx, Invoke(c) PROVE Abs!Invoke(c)
<1> DEFINE f == Frame("invoke", c, rsp[c], NoInfo)
<1>1. f \in FrameSet /\ f.kind = "invoke" /\ f.ctx = c /\ f.sp = rsp[c]
  BY Fields, FrameTyped DEF Kinds
<1>2. /\ who = "host" /\ PushAt(hsp, f)
      /\ who' = "box" /\ cur' = c /\ sp' = rsp[c] + 1 /\ rsp' = rsp
  BY DEF Invoke, EnterAt, ToBox
<1> HIDE DEF f
<1>3. Undisturbed(frames, hsp, f, rsp', rsp)
  BY <1>1, <1>2 DEF Holds, Undisturbed
<1>4. /\ hsp' = hsp + 1 /\ hsp \in Nat /\ hsp' \in Nat
      /\ \A i \in 1..hsp : frames'[i] = frames[i]
      /\ frames'[hsp'] = f
      /\ AbsCalls' = Append(AbsCalls, CallIn(frames', hsp', rsp', hsp'))
  BY <1>1, <1>2, <1>3, PushMaps
<1>5. CallIn(frames', hsp', rsp', hsp') = [kind |-> "invoke", ctx |-> c, sp |-> rsp[c]]
  BY <1>1, <1>4 DEF CallIn
<1>6. AbsRest' = AbsRest
  <2>1. ASSUME NEW k \in Ctx
        PROVE  RestIn(frames', hsp', rsp', k) = RestIn(frames, hsp, rsp, k)
    BY <1>1, <1>2, <1>4, RestPushed
  <2> QED BY <2>1, RestStays
<1>7. Abs!Start(c) = rsp[c]
  BY <1>2, StartIs
<1> QED BY <1>2, <1>4, <1>5, <1>6, <1>7 DEF Abs!Invoke, Abs!Push

\* The clone callback is a call out of no context.
LEMMA InvokeNullMaps ==
    ASSUME CInv, InvokeNull PROVE Abs!StartClone
<1> DEFINE f == Frame("cloning", None, 0, NoInfo)
<1>1. 0 \in SP /\ "cloning" \in Kinds /\ None \in Ctx \cup {None} /\ NoInfo \in InfoSet
  BY Fields DEF SP, Kinds
<1>2. f \in FrameSet /\ f.kind = "cloning" /\ f.ctx = None /\ f.sp = 0
  BY <1>1, FrameTyped
<1>3. PushAt(hsp, f) /\ who = "host" /\ who' = who /\ cur' = cur /\ sp' = sp /\ rsp' = rsp
  BY DEF InvokeNull
<1> HIDE DEF f
<1>4. Undisturbed(frames, hsp, f, rsp', rsp)
  BY <1>2, <1>3 DEF Holds, Undisturbed
<1>5. /\ hsp' = hsp + 1 /\ hsp \in Nat /\ hsp' \in Nat
      /\ \A i \in 1..hsp : frames'[i] = frames[i]
      /\ frames'[hsp'] = f
      /\ AbsCalls' = Append(AbsCalls, CallIn(frames', hsp', rsp', hsp'))
  BY <1>2, <1>3, <1>4, PushMaps
<1>6. CallIn(frames', hsp', rsp', hsp') = [kind |-> "cloning", ctx |-> None, sp |-> 0]
  BY <1>2, <1>5 DEF CallIn
<1>7. AbsRest' = AbsRest
  <2>1. ASSUME NEW k \in Ctx
        PROVE  RestIn(frames', hsp', rsp', k) = RestIn(frames, hsp, rsp, k)
    <3>1. frames'[hsp'].ctx # k /\ rsp'[k] = rsp[k]
      BY <1>2, <1>3, <1>5, ConstAssumption
    <3> QED BY <1>5, <3>1, RestPushed
  <2> QED BY <2>1, RestStays
<1> QED BY <1>3, <1>5, <1>6, <1>7 DEF Abs!StartClone, Abs!Push

\* An attached clone takes the place of the frame of lfi_clone.
LEMMA ClonedMaps ==
    ASSUME CInv, EntersIdle, NEW c \in Ctx, Cloned(c) PROVE Abs!EnterClone(c)
<1> DEFINE f == Frame("invoke", c, rsp[c], NoInfo)
           b == hsp - 1
<1>1. f \in FrameSet /\ f.kind = "invoke" /\ f.ctx = c /\ f.sp = rsp[c]
  BY Fields, FrameTyped DEF Kinds
<1>2. /\ who = "host" /\ hsp > 0 /\ frames[hsp].kind = "cloning" /\ frames[hsp].ctx = None
      /\ Idle(c) /\ PushAt(b, f)
      /\ who' = "box" /\ cur' = c /\ sp' = rsp[c] + 1 /\ rsp' = rsp
  BY DEF Cloned, EnterAt, ToBox, On, EntersIdle
<1>3. hsp \in Nat /\ b \in Nat /\ b \in 0..hsp /\ hsp = b + 1
  BY <1>2, Fields
<1> HIDE DEF f, b
<1>4. hsp' = hsp /\ (\A i \in 1..b : frames'[i] = frames[i]) /\ frames'[hsp] = f
  BY <1>1, <1>2, <1>3, Pushed DEF CInv
<1>5. PICK G : G = frames'
  OBVIOUS
<1>6. Grows(frames, G, b, hsp) /\ Grows(frames, frames, b, hsp) /\ G[hsp] = f
  BY <1>3, <1>4, <1>5 DEF Grows
<1>7. Undisturbed(frames, b, G[hsp], rsp, rsp) /\ Undisturbed(frames, b, frames[hsp], rsp, rsp)
  BY <1>1, <1>2, <1>6 DEF Undisturbed, Holds
<1>8. \A i \in 1..b : CallIn(G, hsp, rsp, i) = CallIn(frames, hsp, rsp, i)
  <2>1. SUFFICES ASSUME NEW i \in 1..b
                 PROVE  CallIn(G, hsp, rsp, i) = CallIn(frames, hsp, rsp, i)
    OBVIOUS
  <2>2. CallIn(G, hsp, rsp, i) = CallIn(frames, b, rsp, i)
    BY <1>6, <1>7, CallKept
  <2>3. CallIn(frames, hsp, rsp, i) = CallIn(frames, b, rsp, i)
    BY <1>6, <1>7, CallKept
  <2> QED BY <2>2, <2>3
<1> DEFINE y == [kind |-> "invoke", ctx |-> c, sp |-> rsp[c]]
<1>9. CallIn(G, hsp, rsp, hsp) = y
  BY <1>1, <1>6 DEF CallIn
<1> HIDE DEF y
<1>10. CallsIn(G, hsp, rsp) = [CallsIn(frames, hsp, rsp) EXCEPT ![hsp] = y]
  <2>1. \A i \in 1..hsp : i \in 1..b \/ i = hsp
    BY <1>3
  <2> QED BY <1>8, <1>9, <2>1 DEF CallsIn
<1>11. Len(AbsCalls) = hsp /\ AbsCalls # <<>> /\ AbsCalls[hsp].kind = "cloning"
  <2>1. Len(CallsIn(frames, hsp, rsp)) = hsp
    BY <1>3, CallsLen
  <2>2. CallsIn(frames, hsp, rsp)[hsp].kind = "cloning"
    BY <1>2, <1>3 DEF CallsIn, CallIn
  <2>3. Len(<<>>) = 0
    OBVIOUS
  <2> QED BY <1>3, <2>1, <2>2, <2>3, AbsIs
<1>12. Below(frames, hsp, c) = {} /\ Abs!Active(c) = {}
  BY <1>2, <1>3, ActiveIs DEF Below, Idle
<1>13. AbsRest[c] = rsp[c]
  BY <1>12, AbsIs DEF RestIn
<1>14. AbsRest' = AbsRest
  <2>1. ASSUME NEW k \in Ctx
        PROVE  RestIn(G, hsp, rsp, k) = RestIn(frames, hsp, rsp, k)
    <3>1. Rests(frames, b, G[hsp], rsp, rsp, k) /\ Rests(frames, b, frames[hsp], rsp, rsp, k)
      BY <1>1, <1>2, <1>6, ConstAssumption DEF Rests
    <3>2. RestIn(G, hsp, rsp, k) = RestIn(frames, b, rsp, k)
      BY <1>6, <3>1, RestKept
    <3>3. RestIn(frames, hsp, rsp, k) = RestIn(frames, b, rsp, k)
      BY <1>6, <3>1, RestKept
    <3> QED BY <3>2, <3>3
  <2>2. \A k \in Ctx : RestIn(frames', hsp', rsp', k) = RestIn(frames, hsp, rsp, k)
    BY <1>2, <1>4, <1>5, <2>1
  <2> QED BY <2>2, RestStays
<1>15. AbsCalls' = [AbsCalls EXCEPT ![Len(AbsCalls)] = [kind |-> "invoke", ctx |-> c, sp |-> AbsRest[c]]]
  BY <1>2, <1>4, <1>5, <1>10, <1>11, <1>13, AbsIs DEF y
<1> QED BY <1>2, <1>11, <1>12, <1>13, <1>14, <1>15 DEF Abs!EnterClone, Abs!Top

\* lfi_ret ends the innermost call and gives its stack back.
LEMMA RetMaps ==
    ASSUME CInv, ReturnsInvocations, NEW c \in Ctx, Ret(c) PROVE Abs!Return
<1>1. /\ who = "box" /\ cur = c /\ hsp > 0
      /\ frames[hsp].kind = "invoke" /\ frames[hsp].ctx = c
      /\ PopTo(hsp - 1) /\ rsp' = [rsp EXCEPT ![c] = frames[hsp].sp]
      /\ who' = "host" /\ sp' = 0
  BY RetLands DEF Ret, Lands, PopInvoke, ToHost
<1>2. rsp'[c] = frames[hsp].sp /\ \A k \in Ctx : k # c => rsp'[k] = rsp[k]
  BY <1>1, Fields
<1>3. Undisturbed(frames, hsp - 1, frames[hsp], rsp, rsp')
  <2>1. PICK R : R = rsp'
    OBVIOUS
  <2>2. ASSUME NEW i \in 1..(hsp - 1), SitsOut(frames[i])
        PROVE  Holds(frames[hsp], frames[i].ctx, rsp, R)
    <3>1. frames[i].ctx \in Ctx
      <4>1. i \in 1..hsp
        BY Fields
      <4> QED BY <2>2, <4>1 DEF CInv, KindsSound, SitsOut
    <3> QED BY <1>1, <1>2, <2>1, <3>1 DEF Holds
  <2> QED BY <2>1, <2>2 DEF Undisturbed
<1>4. /\ hsp' = hsp - 1 /\ hsp \in Nat /\ hsp' \in Nat
      /\ \A i \in 1..hsp' : frames'[i] = frames[i]
      /\ Len(AbsCalls) = hsp /\ AbsCalls # <<>>
      /\ AbsCalls' = SubSeq(AbsCalls, 1, Len(AbsCalls) - 1)
  BY <1>1, <1>3, PopMaps
<1>5. AbsRest' = AbsRest
  <2>1. ASSUME NEW k \in Ctx
        PROVE  RestIn(frames', hsp', rsp', k) = RestIn(frames, hsp, rsp, k)
    BY <1>1, <1>2, <1>4, RestPopped
  <2> QED BY <2>1, RestStays
<1>6. AbsCalls[hsp].kind = "invoke" /\ AbsCalls[hsp].ctx = c
  <2>1. hsp \in 1..hsp
    BY <1>1, <1>4
  <2> QED BY <1>1, <2>1, AbsIs DEF CallsIn, CallIn
<1> QED BY <1>1, <1>4, <1>5, <1>6, ConstAssumption DEF Abs!Return, Abs!Pop, Abs!ToHost, Abs!Top

\* What goes on above an entry is felt by its call out only, which is above it.
LEMMA Unfelt ==
    ASSUME CInv, NEW e \in 1..hsp, Entry(e), NEW f, f.kind # "invoke", NEW S, NEW R,
           \A k \in Ctx : k # frames[e].ctx => S[k] = R[k]
    PROVE  Undisturbed(frames, e, f, S, R)
<1>1. SUFFICES ASSUME NEW i \in 1..e, SitsOut(frames[i])
               PROVE  Later(frames, e, i) # {} \/ Holds(f, frames[i].ctx, S, R)
  BY DEF Undisturbed
<1>2. e \in Nat /\ hsp \in Nat /\ i \in 1..hsp /\ e \in e..hsp
  BY Fields
<1>3. frames[i].ctx \in Ctx
  BY <1>1, <1>2 DEF CInv, KindsSound, SitsOut
<1>4. CASE frames[i].ctx = frames[e].ctx
  <2>1. i # e
    BY <1>1 DEF SitsOut, Entry
  <2>2. i \in 1..(e - 1)
    BY <1>2, <2>1
  <2>3. Later(frames, e, i) # {}
    BY <1>2, <1>4, <2>2, OuterCalls DEF CInv
  <2> QED BY <2>3
<1>5. CASE frames[i].ctx # frames[e].ctx
  BY <1>3, <1>5 DEF Holds
<1> QED BY <1>4, <1>5

\* Callbacks and system calls.
LEMMA OutMaps ==
    ASSUME CInv, NEW c \in Ctx, who = "box", cur = c,
           NEW k \in {"callback", "syscall"}, NEW s \in SP,
           PushAt(hostSp[c], Frame(k, c, s, NoInfo)),
           rsp' = [rsp EXCEPT ![c] = sp], who' = "host", sp' = 0
    PROVE  Abs!Out(k)
<1> DEFINE f == Frame(k, c, s, NoInfo)
<1>1. f \in FrameSet /\ f.kind = k /\ f.ctx = c
  BY Fields, FrameTyped DEF Kinds
<1>2. hsp \in 1..hsp /\ Entry(hsp) /\ frames[hsp].ctx = c /\ PushAt(hsp, f)
  BY Fields DEF CInv, BoxOnTop
<1> HIDE DEF f
<1>3. rsp'[c] = sp /\ \A j \in Ctx : j # c => rsp'[j] = rsp[j]
  BY Fields
<1>4. Undisturbed(frames, hsp, f, rsp', rsp)
  <2>1. PICK S : S = rsp'
    OBVIOUS
  <2>2. \A j \in Ctx : j # frames[hsp].ctx => S[j] = rsp[j]
    BY <1>2, <1>3, <2>1
  <2>3. Undisturbed(frames, hsp, f, S, rsp)
    BY <1>1, <1>2, <2>2, Unfelt
  <2> QED BY <2>1, <2>3
<1>5. /\ hsp' = hsp + 1 /\ hsp \in Nat /\ hsp' \in Nat
      /\ \A i \in 1..hsp : frames'[i] = frames[i]
      /\ frames'[hsp'] = f
      /\ AbsCalls' = Append(AbsCalls, CallIn(frames', hsp', rsp', hsp'))
  BY <1>1, <1>2, <1>4, PushMaps
<1>6. CallIn(frames', hsp', rsp', hsp') = [kind |-> k, ctx |-> c, sp |-> sp]
  <2>1. Later(frames', hsp', hsp') = {}
    BY <1>5 DEF Later
  <2>2. ResumeIn(frames', hsp', rsp', hsp') = sp
    BY <1>1, <1>3, <1>5, <2>1 DEF ResumeIn
  <2> QED BY <1>1, <1>5, <2>2 DEF CallIn
<1>7. AbsRest' = AbsRest
  <2>1. ASSUME NEW j \in Ctx
        PROVE  RestIn(frames', hsp', rsp', j) = RestIn(frames, hsp, rsp, j)
    <3>1. CASE j = c
      <4>1. Below(frames, hsp, j) # {}
        BY <1>2, <3>1 DEF Below
      <4> QED BY <1>5, <4>1, RestPushed
    <3>2. CASE j # c
      <4>1. frames'[hsp'].ctx # j /\ rsp'[j] = rsp[j]
        BY <1>1, <1>3, <1>5, <3>2
      <4> QED BY <1>5, <4>1, RestPushed
    <3> QED BY <3>1, <3>2
  <2> QED BY <2>1, RestStays
<1> QED BY <1>5, <1>6, <1>7, ConstAssumption DEF Abs!Out, Abs!Push, Abs!ToHost

\* A callback is a call out.
LEMMA CallbackMaps ==
    ASSUME CInv, NEW c \in Ctx, Callback(c) PROVE Abs!Out("callback")
<1>1. rsp[c] \in SP
  BY Fields
<1> QED BY <1>1, OutMaps DEF Callback, ToHost

\* A system call is a call out.
LEMMA SyscallMaps ==
    ASSUME CInv, NEW c \in Ctx, Syscall(c) PROVE Abs!Out("syscall")
<1>1. 0 \in SP
  BY Fields DEF SP
<1> QED BY <1>1, OutMaps DEF Syscall, ToHost

\* Their returns.
LEMMA BackMaps ==
    ASSUME CInv, NEW c \in Ctx, who = "host", hsp > 0, CallOut(hsp), frames[hsp].ctx = c,
           PopTo(hsp - 1), \A k \in Ctx : k # c => rsp'[k] = rsp[k], ToBox(c, rsp[c])
    PROVE  Abs!Resume
<1>1. hsp \in 1..hsp /\ hsp - 1 \in 1..hsp /\ Entry(hsp - 1) /\ frames[hsp - 1].ctx = c
  <2>1. hsp \in 1..hsp
    BY Fields
  <2>2. hsp > 1 /\ Entry(hsp - 1) /\ frames[hsp - 1].ctx = c
    BY <2>1 DEF CInv, OutsSound
  <2> QED BY <2>1, <2>2, Fields
<1>2. Undisturbed(frames, hsp - 1, frames[hsp], rsp, rsp')
  <2>1. PICK R : R = rsp'
    OBVIOUS
  <2>2. \A j \in Ctx : j # frames[hsp - 1].ctx => rsp[j] = R[j]
    BY <1>1, <2>1
  <2>3. frames[hsp].kind # "invoke"
    BY DEF CallOut
  <2>4. Undisturbed(frames, hsp - 1, frames[hsp], rsp, R)
    BY <1>1, <2>2, <2>3, Unfelt
  <2> QED BY <2>1, <2>4
<1>3. /\ hsp' = hsp - 1 /\ hsp \in Nat /\ hsp' \in Nat
      /\ \A i \in 1..hsp' : frames'[i] = frames[i]
      /\ Len(AbsCalls) = hsp /\ AbsCalls # <<>>
      /\ AbsCalls' = SubSeq(AbsCalls, 1, Len(AbsCalls) - 1)
  BY <1>2, PopMaps
<1>4. AbsRest' = AbsRest
  <2>1. ASSUME NEW k \in Ctx
        PROVE  RestIn(frames', hsp', rsp', k) = RestIn(frames, hsp, rsp, k)
    <3>1. CASE k = c
      <4>1. \E i \in 1..hsp' : frames[i].ctx = k
        BY <1>1, <1>3, <3>1
      <4> QED BY <1>3, <4>1, RestPopped
    <3>2. CASE k # c
      <4>1. frames[hsp].ctx # k /\ rsp'[k] = rsp[k]
        BY <3>2
      <4> QED BY <1>3, <4>1, RestPopped
    <3> QED BY <3>1, <3>2
  <2> QED BY <2>1, RestStays
<1>5. /\ AbsCalls[hsp].kind \in {"callback", "syscall"} /\ AbsCalls[hsp].ctx = c
      /\ AbsCalls[hsp].sp = rsp[c]
  <2>1. Later(frames, hsp, hsp) = {}
    BY <1>3 DEF Later
  <2>2. ResumeIn(frames, hsp, rsp, hsp) = rsp[c]
    BY <2>1 DEF ResumeIn
  <2> QED BY <1>1, <2>2, AbsIs DEF CallsIn, CallIn, CallOut
<1> QED BY <1>3, <1>4, <1>5 DEF Abs!Resume, Abs!Pop, Abs!Top, Abs!Outs, ToBox

\* The sandbox resumes where it called a callback.
LEMMA CallbackReturnMaps ==
    ASSUME CInv, NEW c \in Ctx, CallbackReturn(c) PROVE Abs!Resume
<1>1. /\ who = "host" /\ hsp > 0 /\ CallOut(hsp) /\ frames[hsp].ctx = c
      /\ PopTo(hsp - 1) /\ ToBox(c, rsp[c]) /\ rsp' = [rsp EXCEPT ![c] = frames[hsp].sp]
  BY DEF CallbackReturn, On, CallOut
<1>2. \A k \in Ctx : k # c => rsp'[k] = rsp[k]
  BY <1>1, Fields
<1> QED BY <1>1, <1>2, BackMaps

\* The sandbox resumes where it made a system call.
LEMMA SyscallReturnMaps ==
    ASSUME CInv, NEW c \in Ctx, SyscallReturn(c) PROVE Abs!Resume
<1>1. /\ who = "host" /\ hsp > 0 /\ CallOut(hsp) /\ frames[hsp].ctx = c
      /\ PopTo(hsp - 1) /\ ToBox(c, rsp[c]) /\ rsp' = rsp
  BY DEF SyscallReturn, On, CallOut
<1> QED BY <1>1, BackMaps

\* A call out that does not resume takes the frame of its entry with it.
LEMMA PopTwiceMaps ==
    ASSUME CInv, NEW c \in Ctx, who = "host", hsp - 1 \in 1..hsp,
           CallOut(hsp), frames[hsp].ctx = c, frames[hsp - 1].ctx = c,
           PopTo(hsp - 2), Undisturbed(frames, hsp - 2, frames[hsp - 1], rsp, rsp')
    PROVE  /\ hsp' = hsp - 2 /\ hsp \in Nat /\ hsp' \in Nat
           /\ \A i \in 1..hsp' : frames'[i] = frames[i]
           /\ Len(AbsCalls) = hsp
           /\ AbsCalls' = SubSeq(AbsCalls, 1, Len(AbsCalls) - 2)
           /\ AbsCalls[hsp].kind \in {"callback", "syscall"} /\ AbsCalls[hsp].ctx = c
           /\ AbsCalls[hsp].sp = rsp[c]
           /\ AbsCalls[hsp - 1].kind = frames[hsp - 1].kind /\ AbsCalls[hsp - 1].ctx = c
<1>1. hsp \in Nat /\ hsp - 2 \in 0..hsp /\ hsp \in 1..hsp
  BY Fields
<1>2. hsp' = hsp - 2 /\ hsp' \in Nat /\ \A i \in 1..hsp' : frames'[i] = frames[i]
  BY <1>1, Popped DEF CInv
<1>3. PICK F, R, n : F = frames' /\ R = rsp' /\ n = hsp'
  OBVIOUS
<1>4. n \in Nat /\ hsp = n + 2 /\ n = hsp - 2 /\ hsp - 1 = n + 1
      /\ \A i \in 1..n : frames[i] = F[i]
  BY <1>1, <1>2, <1>3
<1>5. Undisturbed(F, n, frames[hsp - 1], rsp, R)
  <2>1. Undisturbed(frames, n, frames[hsp - 1], rsp, R)
    BY <1>3, <1>4
  <2> QED BY <1>4, <2>1, UndisturbedIn
<1>6. CallsIn(F, n, R) = SubSeq(CallsIn(frames, hsp, rsp), 1, n)
  <2>1. frames[hsp].kind # "invoke"
    BY DEF CallOut
  <2>2. PICK b : b = hsp - 1
    OBVIOUS
  <2>3. Grows(F, frames, n, b) /\ Grows(frames, frames, b, hsp)
    BY <1>1, <1>4, <2>2 DEF Grows
  <2>4. Undisturbed(F, n, frames[b], rsp, R)
    BY <1>5, <2>2
  <2>5. \A i \in 1..n : CallIn(frames, hsp, rsp, i) = CallIn(F, n, R, i)
    BY <2>1, <2>3, <2>4, CallKeptTwice
  <2>6. n <= hsp
    BY <1>1, <1>4
  <2> QED BY <1>1, <1>4, <2>5, <2>6, CallsPrefix
<1>7. Len(AbsCalls) = hsp /\ AbsCalls' = SubSeq(AbsCalls, 1, n)
  BY <1>1, <1>3, <1>6, AbsIs, CallsLen
<1>8. /\ AbsCalls[hsp].kind \in {"callback", "syscall"} /\ AbsCalls[hsp].ctx = c
      /\ AbsCalls[hsp].sp = rsp[c]
  <2>1. Later(frames, hsp, hsp) = {}
    BY <1>1 DEF Later
  <2>2. ResumeIn(frames, hsp, rsp, hsp) = rsp[c]
    BY <2>1 DEF ResumeIn
  <2> QED BY <1>1, <2>2, AbsIs DEF CallsIn, CallIn, CallOut
<1>9. AbsCalls[hsp - 1].kind = frames[hsp - 1].kind /\ AbsCalls[hsp - 1].ctx = c
  BY AbsIs DEF CallsIn, CallIn
<1> QED BY <1>1, <1>2, <1>4, <1>7, <1>8, <1>9

\* Two frames of one context go at once when a callback is aborted.
LEMMA RestPoppedTwice ==
    ASSUME hsp \in Nat, hsp' \in Nat, hsp' = hsp - 2,
           \A i \in 1..hsp' : frames'[i] = frames[i],
           frames[hsp].ctx = frames[hsp - 1].ctx, NEW k,
           \/ \E i \in 1..hsp' : frames[i].ctx = k
           \/ frames[hsp - 1].ctx = k /\ frames[hsp - 1].sp = rsp'[k]
           \/ frames[hsp - 1].ctx # k /\ rsp'[k] = rsp[k]
    PROVE  RestIn(frames', hsp', rsp', k) = RestIn(frames, hsp, rsp, k)
<1>1. PICK F, R, n, b : F = frames' /\ R = rsp' /\ n = hsp' /\ b = hsp - 1
  OBVIOUS
<1>2. /\ n \in Nat /\ b \in Nat /\ b = n + 1 /\ hsp = b + 1
      /\ \A i \in 1..n : frames[i] = F[i]
  BY <1>1
<1>3. Grows(F, frames, n, b) /\ Grows(frames, frames, b, hsp)
  BY <1>2 DEF Grows
<1>4. Rests(F, n, frames[b], rsp, R, k)
  BY <1>1, <1>2 DEF Rests, Below
<1>5. Rests(frames, b, frames[hsp], rsp, rsp, k)
  <2>1. frames[hsp].ctx = frames[b].ctx /\ b \in 1..b
    BY <1>1, <1>2
  <2> QED BY <2>1 DEF Rests, Below
<1>6. RestIn(frames, b, rsp, k) = RestIn(F, n, R, k)
  BY <1>3, <1>4, RestKept
<1>7. RestIn(frames, hsp, rsp, k) = RestIn(frames, b, rsp, k)
  BY <1>3, <1>5, RestKept
<1> QED BY <1>1, <1>6, <1>7

\* An aborted callback ends the invocation it was called from.
LEMMA CallbackAbortMaps ==
    ASSUME CInv, LeadsHome, NEW c \in Ctx, CallbackAbort(c) PROVE Abs!Unwind("invoke")
<1>1. /\ who = "host" /\ hsp > 0 /\ CallOut(hsp) /\ frames[hsp].ctx = c
      /\ hsp - 1 \in 1..hsp /\ frames[hsp - 1].kind = "invoke" /\ frames[hsp - 1].ctx = c
      /\ rsp' = [rsp EXCEPT ![c] = frames[hsp - 1].sp]
      /\ PopTo(hsp - 1 - 1) /\ who' = "host" /\ sp' = 0
  BY AbortLands DEF CallbackAbort, On, CallOut, Lands, PopInvoke, ToHost
<1>2. rsp'[c] = frames[hsp - 1].sp /\ \A k \in Ctx : k # c => rsp'[k] = rsp[k]
  BY <1>1, Fields
<1>3. hsp \in Nat /\ hsp - 1 - 1 = hsp - 2 /\ PopTo(hsp - 2)
  <2>1. hsp \in Nat /\ hsp - 1 - 1 = hsp - 2
    BY Fields
  <2> QED BY <1>1, <2>1
<1>4. Undisturbed(frames, hsp - 2, frames[hsp - 1], rsp, rsp')
  <2>1. PICK R : R = rsp'
    OBVIOUS
  <2>2. ASSUME NEW i \in 1..(hsp - 2), SitsOut(frames[i])
        PROVE  Holds(frames[hsp - 1], frames[i].ctx, rsp, R)
    <3>1. frames[i].ctx \in Ctx
      <4>1. i \in 1..hsp
        BY Fields
      <4> QED BY <2>2, <4>1 DEF CInv, KindsSound, SitsOut
    <3> QED BY <1>1, <1>2, <2>1, <3>1 DEF Holds
  <2> QED BY <2>1, <2>2 DEF Undisturbed
<1>5. /\ hsp' = hsp - 2 /\ hsp' \in Nat
      /\ \A i \in 1..hsp' : frames'[i] = frames[i]
      /\ Len(AbsCalls) = hsp
      /\ AbsCalls' = SubSeq(AbsCalls, 1, Len(AbsCalls) - 2)
      /\ AbsCalls[hsp].kind \in {"callback", "syscall"} /\ AbsCalls[hsp].ctx = c
      /\ AbsCalls[hsp - 1].kind = frames[hsp - 1].kind /\ AbsCalls[hsp - 1].ctx = c
  BY <1>1, <1>3, <1>4, PopTwiceMaps
<1>6. AbsRest' = AbsRest
  <2>1. ASSUME NEW k \in Ctx
        PROVE  RestIn(frames', hsp', rsp', k) = RestIn(frames, hsp, rsp, k)
    <3>1. \/ frames[hsp - 1].ctx = k /\ frames[hsp - 1].sp = rsp'[k]
          \/ frames[hsp - 1].ctx # k /\ rsp'[k] = rsp[k]
      BY <1>1, <1>2
    <3>2. frames[hsp].ctx = frames[hsp - 1].ctx
      BY <1>1
    <3> QED BY <1>3, <1>5, <3>1, <3>2, RestPoppedTwice
  <2> QED BY <2>1, RestStays
<1> QED BY <1>1, <1>3, <1>5, <1>6 DEF Abs!Unwind, Abs!Pop, Abs!ToHost, Abs!Top, Abs!Outs

\* lfi_ctx_exit of a context that is not in lfi_ctx_run stops the program.
LEMMA ExitMaps ==
    ASSUME CInv, LeadsHome, ExitsRuns, NEW c \in Ctx, Exit(c), inRun[c] PROVE Abs!Unwind("run")
<1>1. /\ who = "host" /\ hsp > 0 /\ CallOut(hsp) /\ frames[hsp].ctx = c
      /\ hsp - 1 \in 1..hsp /\ frames[hsp - 1].kind = "run" /\ frames[hsp - 1].ctx = c
      /\ hostSp[c] = hsp - 1
  BY ExitLands, Fields DEF Lands
<1>2. PopTo(hsp - 1 - 1) /\ rsp' = rsp /\ who' = "host" /\ sp' = 0
  BY <1>1, ExitLands DEF Exit, ToHost
<1>3. hsp \in Nat /\ hsp - 1 - 1 = hsp - 2 /\ PopTo(hsp - 2)
  <2>1. hsp \in Nat /\ hsp - 1 - 1 = hsp - 2
    BY Fields
  <2> QED BY <1>2, <2>1
<1>4. Undisturbed(frames, hsp - 2, frames[hsp - 1], rsp, rsp')
  BY <1>1, <1>2 DEF Undisturbed, Holds
<1>5. /\ hsp' = hsp - 2 /\ hsp' \in Nat
      /\ \A i \in 1..hsp' : frames'[i] = frames[i]
      /\ Len(AbsCalls) = hsp
      /\ AbsCalls' = SubSeq(AbsCalls, 1, Len(AbsCalls) - 2)
      /\ AbsCalls[hsp].kind \in {"callback", "syscall"} /\ AbsCalls[hsp].ctx = c
      /\ AbsCalls[hsp].sp = rsp[c]
      /\ AbsCalls[hsp - 1].kind = frames[hsp - 1].kind /\ AbsCalls[hsp - 1].ctx = c
  BY <1>1, <1>3, <1>4, PopTwiceMaps
<1>6. AbsRest' = [AbsRest EXCEPT ![c] = rsp[c]]
  <2>1. RestIn(frames', hsp', rsp', c) = rsp[c]
    <3>1. ASSUME NEW i \in 1..hsp' PROVE frames[i].ctx # c
      <4>1. i \in 1..hsp /\ i < hsp - 1
        BY <1>3, <1>5
      <4> QED BY <1>1, <4>1 DEF CInv, RunLowest
    <3>2. Below(frames', hsp', c) = {}
      BY <1>5, <3>1 DEF Below
    <3> QED BY <1>2, <3>2 DEF RestIn
  <2>2. ASSUME NEW k \in Ctx, k # c
        PROVE  RestIn(frames', hsp', rsp', k) = RestIn(frames, hsp, rsp, k)
    BY <1>1, <1>2, <1>3, <1>5, <2>2, RestPoppedTwice
  <2> QED BY <2>1, <2>2, AbsIs
<1> QED BY <1>1, <1>2, <1>3, <1>5, <1>6 DEF Abs!Unwind, Abs!Pop, Abs!ToHost, Abs!Top, Abs!Outs

\* Steps of the host that no caller sees.
LEMMA QuietMaps ==
    ASSUME CInv,
           \/ CloneFails
           \/ \E c \in Ctx : AbortRequest(c) \/ (Exit(c) /\ ~inRun[c])
           \/ UNCHANGED vars
    PROVE  UNCHANGED Abs!absvars
<1>1. /\ frames' = frames /\ hsp' = hsp /\ rsp' = rsp /\ sp' = sp
      /\ (IF who' = "box" THEN cur' ELSE None) = (IF who = "box" THEN cur ELSE None)
  <2>1. CASE CloneFails
    BY <2>1 DEF CloneFails, On
  <2>2. CASE \E c \in Ctx : AbortRequest(c)
    BY <2>2 DEF AbortRequest
  <2>3. CASE \E c \in Ctx : Exit(c) /\ ~inRun[c]
    BY <2>3 DEF Exit
  <2>4. CASE UNCHANGED vars
    BY <2>4 DEF vars
  <2> QED BY <2>1, <2>2, <2>3, <2>4
<1> QED BY <1>1, AbsKept DEF Abs!absvars

\* Sandbox code moves its stack pointer, which the stack of calls allows.
LEMMA MoveMaps ==
    ASSUME CInv, Move PROVE Abs!Move
<1>1. /\ who = "box" /\ who' = who /\ cur' = cur /\ sp' \in SP
      /\ frames' = frames /\ hsp' = hsp /\ rsp' = rsp
  BY DEF Move
<1>2. cur # None
  <2>1. cur = frames[hsp].ctx /\ hsp \in 1..hsp /\ frames[hsp].kind # "cloning"
    BY <1>1, Fields DEF CInv, BoxOnTop, Entry
  <2> QED BY <2>1 DEF CInv, KindsSound
<1> QED BY <1>1, <1>2, AbsKept DEF Abs!Move

\* No call has been made.
LEMMA StartMaps == Init => Abs!Init
<1> SUFFICES ASSUME Init PROVE Abs!Init
  OBVIOUS
<1>1. hsp = 0 /\ who = "host" /\ sp = 0 /\ rsp = [c \in Ctx |-> 0] /\ 1..hsp = {}
  BY DEF Init
<1>2. AbsCalls = <<>>
  <2>1. Len(CallsIn(frames, hsp, rsp)) = 0
    BY <1>1, CallsLen
  <2> QED BY <1>1, AbsIs DEF CallsIn
<1>3. AbsRest = [c \in Ctx |-> 0]
  <2>1. ASSUME NEW c \in Ctx PROVE RestIn(frames, hsp, rsp, c) = 0
    BY <1>1 DEF RestIn, Below
  <2> QED BY <2>1, AbsIs
<1> QED BY <1>1, <1>2, <1>3 DEF Abs!Init

\* Every switch is a step of the stack of calls.
LEMMA CallMaps ==
    ASSUME CInv, Contract, LeadsHome, [Next]_vars PROVE [Abs!Next]_(Abs!absvars)
<1>0. EntersIdle /\ ReturnsInvocations /\ ExitsRuns
  BY DEF Contract
<1>1. CASE \E c \in Ctx : Run(c) \/ Invoke(c) \/ Cloned(c)
  BY <1>0, <1>1, RunMaps, InvokeMaps, ClonedMaps DEF Abs!Next
<1>2. CASE \E c \in Ctx : Ret(c)
  BY <1>0, <1>2, RetMaps DEF Abs!Next
<1>3. CASE \E c \in Ctx : Callback(c) \/ Syscall(c)
  BY <1>3, CallbackMaps, SyscallMaps DEF Abs!Next, Abs!Outs
<1>4. CASE \E c \in Ctx : CallbackReturn(c) \/ SyscallReturn(c)
  BY <1>4, CallbackReturnMaps, SyscallReturnMaps DEF Abs!Next
<1>5. CASE \E c \in Ctx : CallbackAbort(c) \/ (Exit(c) /\ inRun[c])
  BY <1>0, <1>5, CallbackAbortMaps, ExitMaps DEF Abs!Next, Abs!Entries
<1>6. CASE InvokeNull \/ Move
  BY <1>6, InvokeNullMaps, MoveMaps DEF Abs!Next
<1>7. CASE \/ CloneFails
           \/ \E c \in Ctx : AbortRequest(c) \/ (Exit(c) /\ ~inRun[c])
           \/ UNCHANGED vars
  BY <1>7, QuietMaps
<1> QED BY <1>1, <1>2, <1>3, <1>4, <1>5, <1>6, <1>7 DEF Next

\* Whatever nests, a return ends the innermost entry, a call out resumes at the
\* sandbox stack position it was made from, and an abort or an exit ends the
\* entry of the call out it was asked from.
THEOREM SwitchesNest == Spec /\ [][Contract]_vars => CallSpec
<1>1. Init => Abs!Init
  BY StartMaps
<1>2. CInv /\ DirectKept /\ [Next]_vars /\ [Contract]_vars => [Abs!Next]_(Abs!absvars)
  <2> SUFFICES ASSUME CInv, DirectKept, [Next]_vars, [Contract]_vars PROVE [Abs!Next]_(Abs!absvars)
    OBVIOUS
  <2>1. CASE Contract
    BY <2>1, ContractLeads, CallMaps
  <2>2. CASE UNCHANGED vars
    BY <2>2, QuietMaps
  <2> QED BY <2>1, <2>2
<1> QED BY <1>1, <1>2, CallsInvariance, PTL DEF Spec, CallSpec, Abs!Spec
=============================================================================
