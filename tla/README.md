# A verification of the LFI runtime

TLA+ modules, TLC configurations and TLAPS proofs for `lfi-runtime`: the
library that runs sandboxed machine code inside a host process (`core/`), the
Linux emulation on top of it (`linux/`) and the C++ bindings (`sbox/`).

## 1. The system

| Component | State | Operations | Interacts with |
|---|---|---|---|
| Address-space reservation, `core/boxmap.c`, `core/extalloc.c` | up to 16 reserved regions, a chunk bit vector each | reserve, add and remove a box | boxes of one engine; no lock |
| Sandbox memory, `core/box.c` | page protections, the tracker, `box->lk` | map, map at, register, mprotect, munmap, query, copy | kernel, verifier, ELF loader, memory system calls |
| Mapping tracker, `core/mmap` | ordered map of disjoint page ranges | insert, remove, coalesce, find, place | sandbox memory |
| Callback table, `core/arch/*/callback.c` | 4096 slots, target and trampoline of each | create, register, unregister, enter | sandbox code on any thread |
| Contexts and trampolines, `core/ctx.c`, `core/trampoline.c`, `core/arch` | saved stack pointers, thread-local invoke info, abort flags | run, exit, invoke, callback, system call, lazy clone | clone callback of `linux/` |
| Thread exit hook, `core/core.c` | per-thread key, cleanup function and data | arm, set cleanup, destructor | pthread TLS destructors, attachments |
| Process lifetime, `linux/proc.c`, `linux/trampoline.c`, `linux/sys/sys_clone.c` | `attached_threads`, `active_threads`, thread list, `pending_free`, three mutexes and a condition | attach, detach, spawn, exit, pause, free | everything that holds a process |
| Thread exit and join, `linux/sys/sys_exit*.c`, `sys.h`, `sys_futex.c` | `terminating`, `exit_code`, thread-id words | checkpoint, exit, exit_group, pause, wait, wake | every system call |
| Program break, memory system calls, `linux/sys/sys_brk.c` and others | `brkbase`, `brksize` | brk, mmap, munmap | sandbox memory |
| Descriptor table, working directory, `linux/fd.c`, `linux/proc.c` | slots: host descriptor, directory, flags; `cwd` | open, dup, dup3, close, chdir, fchdir, calls in flight | host files |
| Paths, `linux/cwalk.c`, `linux/path.c` | none | normalise, join, map to the host | every call with a path |
| Buffers of system calls, `linux/sys` | none | check addresses and lengths, copy | sandbox memory |
| ELF loader, `linux/elfload.c`, `linux/elfsym.c` | mappings, entry points, symbols | load, look up | sandbox memory |
| Main stack, `linux/thread.c` | arguments, environment, auxiliary vector | lay out | program start |
| sbox bindings, `sbox/lfi.h`, `sbox/lfi.cpp` | map from thread to context, call contexts, TLS caches | call, callback, detach, destroy | core API |

What makes these correct, component by component:

* *Process lifetime*: the process is freed once, never while a thread uses it,
  and always in the end; no wakeup is lost; detaching is exact.
* *Thread exit hook*: each exiting thread detaches everything it attached.
* *Thread exit and join*: everyone learns a code that was passed to
  `exit_group`; who joins a thread is woken, whichever way that thread exits.
* *Sandbox memory*: W^X, and nothing executable that was not verified, in spite
  of concurrent stores; the tracker and the kernel agree.
* *Tracker*: entries disjoint, non-empty and coalesced; it is a page table.
* *Reservation*: boxes and their guards never overlap, what was promised fits,
  and freeing gives back what was taken and nothing else.
* *Callback table*: a call through a slot that stays registered reaches its function,
  whatever is registered and unregistered around it; a failed creation leaves nothing behind.
* *Contexts*: entries and calls out nest like calls on one stack.
* *Descriptor table*: a call in flight works on the file it looked up, and no
  host descriptor is leaked or closed twice.
* *Paths*: a path leads where it means to under the directory maps.
* *Buffers*: host code touches sandbox memory only.
* *Loader*: memory holds what the headers say, and symbols come from the file.
* *Memory calls*: memory that was given out stays until it is given back.
* *Bindings*: parameters, staged arguments and calls share a stack without
  overlap; a thread uses a context of its own, of the sandbox it calls.

The hard behaviours are interleavings under several locks, one of them held
across a wait and another across a call into the sandbox; decisions acted upon
after the lock is dropped; thread-exit destructors that run in no fixed order;
steps of which one fails; stack pointers handed from switch to switch; memory
that other threads write while it is being checked; and sizes that come from
files and sandboxes. `PROJECT.json` lists them under `hazards`, each at its line.

## 2. Modules

| Module | What it is |
|---|---|
| `ProcLifecycle` | processes, host threads, sandbox threads, attachments |
| `DeferredFree` | what their counters, flag and locks promise: deferred reclamation |
| `ProcExit` | exits, exit codes, thread ids and joins in one process |
| `RangeMap`, `PageMap` | `range_map.h` as operators on sets of entries; what it promises, a page table |
| `BoxMemory` | requests on the memory of one sandbox, over `RangeMap` |
| `Spaces` | the address space of an engine and its boxes |
| `ProcMemory`, `MainStack` | brk, mappings and stacks of a process; the initial stack |
| `ElfLoad`, `ElfSymbols` | loading images, looking up their symbols |
| `Context` | switches between host and sandbox on one thread |
| `CallStack`, `ContextRefinement` | what they promise, nested calls; the mapping between the two |
| `CallbackTable` | slots for host functions |
| `SboxStack`, `SboxThreads` | stacks and parameters, contexts and caches of the C++ binding |
| `FileTable`, `Paths` | descriptors and working directory; paths and directory maps |
| `Descriptors` | what the descriptor table promises |
| `HostAccess` | which bytes host code touches for a sandbox |
| `MCProcLifecycle`, `MCBoxMemory`, `MCProcess`, `MCCalls`, `MCFiles`, `MCSpace` | instances for TLC |
| `ProcLifecycleProofs` | inductive invariant; properties and refinement of `ProcLifecycle` |
| `ProcExitProofs`, `BoxMemoryProofs` | proofs about those modules and what they refine |
| `FileTableProofs` | proofs about `FileTable`, what it refines, and `Paths` |
| `CallsProofs` | proofs about `Context` and `ContextRefinement` |
| `SboxProofs` | proofs about `SboxStack`, `SboxThreads` and `CallbackTable` |
| `SpaceProofs` | proofs about `Spaces`, `ElfLoad`, `ProcMemory` and `MainStack` |
| `HostProofs` | proofs about `HostAccess` and `ElfSymbols` |

`map` in `PROJECT.json` gives the lines of code behind every definition. Names
of variables and actions are those of the C fields and functions where one
stands for one.

### ProcLifecycle

One variable per field of the C structures: `attached`, `active`, `threads` and
`pending` are `attached_threads`, `active_threads`, `threads` and
`pending_free`; `list`, `cleanup`, `armed` and `keySet` are the thread-local
state of `core/core.c`; `waiters` is who sleeps on `cond_threads`. A context of
`Ctx` is one attachment, created at most once, so freed memory is never reused
and a stale pointer can be recognised.

`lk_proc` (held by `lfi_proc_free` while it waits) and `lk_clone` (held while the
sandbox's `thread_create` runs) are variables. A section under `lk_threads`, and
a section under `lk_proc` other than that one, contains no blocking step, so it
is one action. Actions follow the code's steps between such sections:

* attach: `Enter` (increment), `LockClone`, `CloneRun` or `CloneFail`, `AttachCtx` or `AttachFail`;
* detach: `Detach` or the destructor's `StartDestructor`, `WalkNext`, `WalkEnd`;
  then `ThreadDestroy`, `Decrement`, and for the last one `DrainWait`,
  `DrainDone`, `LastDetachDestroy`;
* sandbox threads: `SpawnAdd`, `SpawnOk` or `SpawnFail`, `ThreadExit` or `ThreadPause`, `ThreadLeave`;
* `lfi_proc_free`: `FreeCall`, `FreeWait`, `FreeDrained`, `FreeDecide`, `FreeDestroy`;
* `HostExitGroup`, `HostReturn`, `ThreadDone`, and `SpuriousWake` for the condition.

**The embedder's contract.** `Enter`'s guard says that no host thread makes a
first call into a process after `lfi_proc_free` was called on it, that free is
called once, and that the guard holds up to the increment. Nothing in the code enforces this; without it no
counter could help, as the first access is to memory that may be gone. Two more
freedoms are switched by constants, and off in the main runs: `CallbackAttach`
(embedder code called back on a thread of the sandbox attaches another context
or detaches) and `LateCalls` (another TLS destructor of the embedder calls in
while the thread exits).

### ProcExit

A thread is a sandbox context with the host thread that runs it: the main
thread, spawned ones, the clone context, and those attached through it. `pc`
says where it is in its exit: `exit_code` and `terminating` are two atomics,
and an access to each is a step (`ExitGroup`, `Publish`; `Checkpoint`,
`ReadCode`). `ExitHost`, `ExitPaused` and `ExitOnce` are the branches of
`thread_exit` for a thread owned by the host, one that paused, and one of the
sandbox's own; `ExitUnlist`, `ClearStore` and `ClearWake` follow. `Pause` aborts the program for a
thread that paused before and for one owned by the host; `aborted` says who did so and why. `FutexWait`
sleeps if the word still has the value, `FutexTimeout` and `Wake` end the sleep. `requested` is
a ghost: the codes passed to `exit_group`.

### BoxMemory

`entries` is the tracker, `host` the kernel's protection of each page, `text` the
content of each page, `op` the request between marking pages read-only and making them
executable, when the lock is held but sandbox threads still store (`Store`).
Each request of `core/box.c` is an action with all its failures; the path through
the verifier takes two more, `Verified` then `Commit`, or `Reject`. Sets of
entries replace the ordered map: an iteration from `overlap_begin` visits the
entries that overlap. `unchecked` is a ghost variable: pages a `_noverify`
caller answers for.

### Spaces, ProcMemory, MainStack

`Spaces` follows an engine from `lfi_new`: the regions that `boxmap_reserve`
obtains from the host, halving its wish when it is refused (`Asks`), cut to chunks, and
`lfi_box_new` and `lfi_box_free` on top, with each host call that may fail and
the page of runtime calls below a box. The rest of the program maps and unmaps
pages as well. `lfi_new` for no sandboxes reserves nothing (`LfiNew`); `ReserveMost` is the other use
that `core/boxmap.h` offers, as much as there is. `va` says whose a page is, not its rights: after a failed creation
the page of runtime calls stays readable (`core/box.c:210-236`). `Configs` holds the guard sizes of x86-64 and arm64. Where no guard
lies outside the boxes (arm64), freeing a box takes a page of the one that begins
where it ends; `FreeOrder` says that the embedder frees the upper one first.

`ProcMemory` takes brk, mmap, munmap and the stack mapping of a thread as
requests on one box; `given` is the set of those a page was given to and who have not given it back, so taking
a page does not take it from anyone. With `no_aslr` the stack has a fixed place, over whatever is there: `StackFirst` says
that the main thread is made before that. `MainStack`
computes the initial stack downwards as `stack_init` does, rounding and random
offset included; strings are their lengths.

### ElfLoad, ElfSymbols

An image is what its headers say, right or wrong. A cell of memory holds a byte
of a file, named by file and offset, a zero, or a mark (not mapped, beyond the
end of the file). Loading takes one action per segment and may be refused at
each request; the three ways of `opts` (copy, map, remap) and a program with an
interpreter are covered. `ElfSymbols` finds `.dynsym` and its strings with the
arithmetic of the code, modulo the width of an offset, and records each byte it touches.

### Context, CallStack

`frames` is the host stack; `host_sp`, `rsp` and the other variables are words
the assembly saves and restores: `REGS_HOST_SP`, the sandbox's stack pointer,
the invoke info of the thread. An action is one switch: `Run`, `Invoke`, `InvokeNull` and
`Cloned` (the lazy clone), `Callback`, `Syscall`, the returns of each, `AbortRequest`, `CallbackAbort`
and `Exit`. `Arch` chooses between x86-64, whose callback exchanges the two stack pointers in
place, and arm64, which saves them. Nothing in the model ties `host_sp` to the top of `frames`:
that it always leads to the right frame is `ReturnsHome`. An action has no guard that the code lacks: `Exit`
tests `in_ctx_run` only, `AbortRequest` sets a flag whenever host code runs, and a switch that
finds other words than its own goes to `"lost"`.

`Contract` says, apart from the actions, what their callers must keep to because the code checks none of it:

* `EntersIdle`: `lfi_ctx_run`, and a clone, take a context that is not in use;
* `SyscallsAlone`: a system call handler does not invoke the context that called it;
* `ReturnsInvocations`: sandbox code calls `lfi_ret` only where the trampoline has entered it;
* `AbortsInvocations`: an abort is asked for while a callback made by an invocation is on the stack;
* `ExitsRuns`: a context under `lfi_ctx_run` exits from a call out of the run, not from one nested in it;
* `CallbackExits`: on x86-64 nobody exits from a callback; `CallbackAborts`, `DirectOnce`: on arm64
  aborts, and exits from callbacks, take `REGS_HOST_SP` as they find it, which leads
  home unless the callback entered its own context in between, so the callbacks of a
  context either unwind (the contexts of `Direct`) or enter it again.

`AbortsInvocations`, `ExitsRuns`, `CallbackExits` and `CallbackAborts` are at odds with `lfi_core.h` (section 5).

`ContextRefinement` maps this state to `CallStack`, where calls and calls out
are one stack: the position a call out resumes at is `regs.rsp` for the
innermost one of a context, and the word a later trampoline pushed for the others.

### CallbackTable

`register_cb` and `unregister_cb` run under `box->lk`, but sandbox threads enter
without it, so each of their stores is a step: target, then trampoline, and the
reverse on removal. Entering reads the two fields in two steps. Creation takes up to five
resources and may fail at each.

### FileTable, Descriptors, Paths, HostAccess

A section under `fdtable.lk`, or one host call, is an action of `FileTable`: a
system call first takes a reference to what its number means and then works on
it, and other threads' calls fall in between. `Descriptors` is the promise.
`Paths` holds the functions of `cwalk.c` that the engine calls, on sequences of
tokens, and next to them what a path means: a walk over names from the root.
`HostAccess` gives, for each call that reads or writes a buffer, the bytes its
host code touches, on words of a few bits, so that sums and products wrap. The
fallback of `getdents64` takes entries until one does not fit, and may stop at any.

### SboxStack, SboxThreads

`SboxStack` has the stacks of a thread's sandboxes as positions, and a stack of
activities: call contexts with parameters, staged arguments, calls, callbacks.
`SboxThreads` has the sandbox objects: created and destroyed at places that are
used again, thread ids too; `tls` is the pointer a thread keeps to the last
context it used, which is valid only for the same `id_`.

## 3. Runs

Six runs pass; six more each show one disagreement of the code with what is
said of it (section 5).

| Run | Instance | Question and result |
|---|---|---|
| `proc_safety` | 1 process, 2 host threads, 2 sandbox threads, 3 attachments; symmetry; about 281,000 states | safety of the lifecycle and the refinement of `DeferredFree` hold |
| `proc_live` | 2 processes, 1 host thread, 1 sandbox thread, 2 attachments, `FairSpec`; about 202,000 states | a thread that ends is detached everywhere, every free completes |
| `process` | memory: 3 pages, 4 protections (one of them W+X, to be refused), 2 contents, any-fit placement (ASLR), `_noverify` callers; exits: a main, a spawned and an attached thread, the clone context, 1 word, 2 codes; about 279,000 states | W^X with verification, the tracker is the page table the kernel follows; no exit code, joiner or list entry is lost, every join returns |
| `calls` | 2 contexts and 5 frames, on x86-64 and on arm64, where one context's callbacks unwind and the other's call in, with callers that keep to `Contract`; a table of 2 slots, 2 functions, 2 host threads, 1 caller; 2 sandboxes, stacks of 5 words, 4 activities; 2 workers, 2 places, 3 sandboxes over time; about 1.85 million states | switches implement nested calls; slots lead to the right function; parameters do not overlap and what the sandbox wrote into them is copied out; contexts are a thread's own |
| `files` | 2 threads, 2 slots, 4 host descriptors; every path of up to 3 segments from every directory reached; every address and length of 4 bits; about 263,000 states | no file lost or leaked and the table implements `Descriptors`; paths mean what they say; accesses stay in the box |
| `space` | 3 boxes in 24 pages, 3 regions, guards of x86-64 and of arm64 with `FreeOrder`; images of one or two segments over all small sizes, offsets, alignments and flags; odd libraries; a box of 5 pages, with random and with fixed places; a stack of 40 bytes; about 415,000 states | boxes apart and found room; images as their files say; symbols inside the file; the stack well formed; memory kept |
| `proc_callback`, `proc_late_exit` | `CallbackAttach`, `LateCalls` | violated, see 5 |
| `box_query`, `sys_page`, `ctx_exit`, `nested_abort` | 2 pages; arm64 guards, boxes freed in any order; exits from callbacks; arm64 with callbacks that abort | violated, see 5 |

**Parts.** Several components of a run share no variable, in the model because
they share none in the code. `part` chooses in the initial state which one a
behaviour follows, while the others stay in their initial states. Nothing is lost by
that: no step of one could enable or disable a step of another. Two parts are a module again with
another constant: `arm64` of `MCCalls` and `no_aslr` of `MCSpace`. `Broken` in `MCCalls` names the parts of `Contract`
that the callers do not keep to; it is empty in `calls`.

**Bounds.** Contexts and sandbox threads are each created at most once, which
bounds every counter of `ProcLifecycle`. Two host threads and three attachments let one thread hold
two attachments and meet another thread's attach, detach and exit; two sandbox
threads let exits race each other and a failing `pthread_create`. Two processes
on one thread make the cleanup list hold contexts of both, which is where
unlinking can go wrong. Symmetry is used in `proc_safety` only, where threads
and contexts are interchangeable.

* `process`: three pages are the least on which an entry can be cut on both
  sides and a new one merge with two neighbours. One word is enough to be reused
  by a new thread; two codes let two `exit_group` calls disagree.
* `calls`: five frames (`MaxFrames`) hold a run, a call out, an entry into the
  other context, a call out of that and a return into the first. `MaxSp` bounds
  the sandbox stack, `MaxDepth` and `MaxActs` the binding's stacks and open
  activities, `MaxBufs` the parameters of one call, `MaxCalls` the nested calls, `MaxId`
  the sandboxes ever created: a third one is created where the first was. Two slots and two functions
  let a slot be cleared and taken by the other function while it is entered.
* `files`: with two slots, one of them open at the start, the table is full after one
  `openat`, and four host descriptors run out first in some behaviours and last
  in others. `MaxPath` lets some paths fit and some be cut. `MaxIov` bounds the buffers of one `readv`.
  Four bits hold a box with room below, room above and a wrap.
* `space`: bytes per page, page and box sizes are small, but each alignment case
  of the arithmetic appears: a segment that ends inside, at or beyond the end of a
  page or of its file, one that begins on the page where the last ended, and one out
  of range. `MaxOthers` bounds the pages of the rest of the program, `MaxRegions`
  is the code's limit of regions, `Lengths` crosses the limit for a string.

**Deadlock** is not checked: a process ends, a table is released, a load is done,
and the bounds stop what remains. Where something must happen, it is stated as
liveness.

**Fairness.** `FairSpec` has weak fairness on each thread's own steps, on each
sandbox thread leaving and on each `lfi_proc_free`. The operating system
schedules threads; a host thread's start routine is assumed to return and
sandbox threads to leave, because `lfi_proc_free` is documented to wait for
them. New calls, spawns and `SpuriousWake` have no fairness. Weak fairness
suffices for `lk_clone` and `lk_proc` here because each is taken by finitely many
steps of the instance. In `ProcExit`, `Leave(t)` is fair: the steps of the
runtime between the checkpoint and the end of the thread, which wait for nothing.
The sandbox's own code is not: it need not call, and a thread that never comes
to a checkpoint never leaves, as in the code.

Each property also has a mutant: a definition changed the way a slip in the code
would change it, kept next to the original (`SignalNobody`, `MustDeferOffByOne`,
`FlagFirst`, `CopySlotOnly`, ...), under which the run finds the property violated.

## 4. Proofs

Every safety property, action property and refinement that a passing run checks
is a theorem; only the two liveness properties are not. The theorems hold for any number of
processes, threads, attachments, words, codes, slots, pages, boxes, contexts and
sandboxes, for any sizes of stacks, structures and images, and for any guards
that satisfy what follows.

**Assumptions.** Each module states in an `ASSUME` what its constants are: sets
are disjoint from the marks used for "none", sizes are natural, page and chunk
sizes not zero. Those that say more say what the code relies on:

* `LoadAssumption`: the box does not start at address 0, and an image's headers
  hold words; the images themselves may be wrong in any way. `SymbolsAssumption`
  is the same for the section headers of a library.
* `AccessAssumption`: the box ends below the end of a word, and
  `IovMax` buffer records are fewer bytes than a word counts.
* `ThreadsAssumption`: threads are finitely many. `StdAssumption`: the standard files fit in the table and
  are no directories.
* `MapAssumption`: a directory map is a list of pairs of paths. `MCAssumption`, of the
  instance only: its names are names, and its maps are nested (see below).

Some theorems hold for a part of the configurations only, and name it as a hypothesis:

| Hypothesis | Theorems | Why |
|---|---|---|
| `~CallbackAttach`, `~LateCalls` | all of `ProcLifecycle` | the contract of section 2; both runs without it violate it |
| `Contract`, with the parts listed in section 2 | all of `Context` | the code checks none of it; `ctx_exit`, `nested_abort` and section 5 show what else happens |
| `Guarded`: guards at the ends of a region, and inside or behind every box | all of `Spaces` | arm64 and x86-64 (`core.h:212-228`); not so with protection keys and on RISC-V, see 5 |
| `FreeOrder`: no box is freed below one that begins where it ends | all of `Spaces` but `GuardedSpaces` | `sys_page` shows what else happens on arm64 |
| `GuardsBetween`: a guard behind every box | `GuardedSpaces` | x86-64; implies `Guarded` and `FreeOrder`, whatever the embedder does |
| `WholeGuards`: outer guards are whole chunks | `PromisedRoom` | 4 GiB on x86-64, none on arm64; then every box starts at a multiple of its footprint |
| `MapsNested`: each directory on the way to a mapped one is mapped too, earlier, none twice | `PathsResolve`; `RunPathsSound` by `MCAssumption` | `path_resolve` takes the longest match though the path may lie outside that mapping, see 5; the example of `lfi_linux.h:19-22` is nested |
| `StackApart`: with `no_aslr`, the stack at the top ends above the break region | all of `ProcMemory` | the box is 4 GiB, the stack and break region far smaller |
| `StackFirst`: with `no_aslr`, the main stack is mapped where nothing has been given out | `MemoryInvariance`, `MemoryStaysKept` | the mapping is fixed (`thread.c:275-277`), and replaces what it finds |
| `~Reuse` | `OutsCopied` | a call context used twice copies once, see 5 |

**ProcLifecycle.** No property is inductive alone. `IInv`
(`ProcLifecycleProofs`) says, beside the types: `attached[p]` is the number of contexts
counted for `p` and `active[p]` that of spawned threads; which contexts may be
in which state given where the thread is that owns them, and that each has one
owner; that `lk_clone` is held exactly by a thread at `creating`; that
`lfi_proc_free` past its drain, or a last detach past its decision, excludes every
other user, because no attachment can begin any more; and that who waits on the
condition still has a thread to be woken by. `Invariance` is `Spec => []IInv`, one
lemma per action. From it follow `TypeCorrect`,
`CloneMutex`, `NoSleeper`, `ListsSound`, `NoUseAfterFree`, `ExactlyOneReclaimer`,
`DestroysQuiescent` (an action property: from `IInv` and the two actions that
free) and `ExitsDetach`, which needs two more invariants: `Held`, that every
counted attachment is current or listed at some thread, and `Exits`: what an exiting
thread still has to detach is in its walk, and its key is set while its
list is not released.

`Implements` is `Spec => AbsSpec`. Users of a
process in `DeferredFree` are its counted contexts and its spawned threads; a
free is requested once `lfi_proc_free` was called. Every action either joins
one user, removes one, requests, reclaims when there is no user, or changes
nothing the abstract specification can see.

**ProcExit.** `EInv` adds to the four safety properties what the next steps rely
on: a code has been stored by whoever is about to set `terminating`; a sleeper
has a word, and the word is either still set or its owner is about to wake it;
`exited` is set on the way out only; a thread being attached that paused or exited while the runtime still
owned it is on its way to the hand-over. `AttachedLeave` covers every way the host process is aborted. One lemma per part (`Typed`, `CodeStep`, `JoinStep`,
`ListStep`, `AttachedStep`), one step per action under each. From `ExitInvariance` follow `CodesRequested`, `JoinsKept`,
`ListExact` and `AttachedReturn`.

**CallbackTable.** `TInv`: who is in an operation holds `box->lk`; the slot it
writes is not marked in `box->callbacks`, and every other slot is complete or
zero; `init_cb` holds its first n resources; and a call between the two loads
of the entry code still matches its slot, unless that was unregistered. From
`TableInvariance` follow `EntriesStable` and `TablesSound`.

**BoxMemory.** `VerifiedExecution`: `Spec => []ExecVerified`. The strengthening,
`VInv`, adds that the pages of a waiting request are neither writable nor
executable, so what the verifier accepted is what becomes executable.

A second invariant, `MInv`, is about the tracker: entries are disjoint, not
empty and coalesced (`Sound`), the kernel's rights on a page follow the entry
that `Maps` it, also while a request waits, and a mapping that waits was
tracked with the rights it will get. The lemmas behind it say of each operator
of `RangeMap` which pages map to what afterwards, and that it keeps `Sound`.
`Reprotect` folds over the pieces it has to put back; what holds after each
of them is shown by counting the pieces already inserted (`Pieces`) and taking the least number for
which it would fail. From `TrackerInvariance` follow `RangesKept`, `RightsFollowTracker`
and `PageTableImplemented`, the refinement of `PageMap`.

**FileTable.** `FInv`: a call owns a host descriptor from the host's answer to
its last step (`Stages`); owned descriptors are open and no two slots or calls
share one (`Apart`); every open descriptor but the embedder's has an owner
(`NoLeak`); directory marks and flags go with the file behind a slot (`Marked`). From
`FilesInvariance` follow `DescriptorsOwned`, `MarksFollow` and `TableImplements`, the
refinement of `Descriptors`: the file behind a slot, and the file a call works on.

**Paths.** `PathsResolve` compares what `cwk_path_normalize`, `cwk_path_join` and
`path_resolve` compute with a walk over names, for every path, so for folds over
sequences of any length. The induction principle of the library takes an operator, which the
provers cannot instantiate; `AllNumbers` does the same for a set of numbers,
`{n : ...}`, and is applied to positions in a path. What both sides keep is a set of positions:
`Kept(segs, n)`, the names that no `..` among the first n segments takes back,
described by the balance of names and `..` (`Depth`). The code skips and copies segments
one by one, the walk pushes and pops; each lists `Kept` in the order of the path, and a set has one such
list (`Lists`). Spelling a path out and cutting it into segments are inverse to each other. The length of what two
paths have in common grows with the number of names they share from the root,
so with nested maps the longest match is the closest enclosing directory. `CwdInv` adds
that the working directory stays an absolute path. `RunPathsSound` carries the theorem over to the paths of the run.

**Context.** The theorems assume `[][Contract]_vars`, that every step is one the callers may cause.
`CInv` describes the host stack: a call out sits on the entry that
made it, an entry lies under a call out or is the sandbox code that runs,
`lfi_ctx_run` is the lowest entry of its context, a system call left
`REGS_HOST_SP` at the frame below it and nothing enters that context until it returns,
an abort that is asked for has a callback over an invocation to return to (`AbortPending`),
and `inRun` is set while a run frame is there. A step keeps all this if every switch
that unwinds finds its own frame (`LeadsHome`). On x86-64 that follows from `CInv`
(`REGS_HOST_SP` has been put back) and `ExitsRuns`; on arm64 from `DirectKept` as well: under
a callback of a `Direct` context no other entry of that context has been
made since, so the word still is what its entry left (`ContractLeads`, `DirectStep`). `CallsInvariance` proves the two together. Where `REGS_HOST_SP` points is part of none of
the code's checks; that it leads to the innermost entry is `SwitchesReturnHome`, that
a context's own words come back is `SavedWords`, and `SwitchesNest` is the refinement of
`CallStack`, one lemma per switch.

**Spaces.** `SpInv` ties four descriptions of one thing together: the bits of a
region, the places of the boxes in it, the counts of active boxes and what each
page of the host belongs to. A box, with its page of runtime calls below it, and
the next keep their pages apart by the guard inside or between them, so that
only `lfi_box_free` reaches too far, and only where a box begins right above (`BoxFreeStep`). The allocator's first-fit search is
`FirstVacant`: the place found is vacant and no lower one is. From
`SpaceInvariance` follow `BoxesKeepApart` and `OthersStayMapped`. `PromisedRoom`
is a pigeonhole argument on top: boxes begin at multiples of a footprint
(`OnSlots`), each region has room for all that were promised (`Roomy`), so a
region with fewer has a multiple that no box occupies. With `GuardsBetween`, `SpInv` itself implies
that no box begins where another ends (`AnyOrder`), which gives `GuardedSpaces`.

**ProcMemory.** `KInv` adds `Reserved` to `MemoryKept`: what is left of the
break region is tracked and given to nobody but the heap, so neither a
mapping without a fixed address nor a stack lands there. A taker is added to the holders of a page, so that a page has
one holder at most says that no request maps over what another was given. It gives `MemoryStaysKept`; both
assume `StackFirst` of every step.

**ElfLoad.** `LoadInv` follows the loop over program headers: the segments of
the first `seg - 1` headers lie inside the box and below `last`, memory holds
them if the image is well formed, and behind the image loaded last memory is
untouched, which is what makes room for the interpreter and for zeros that are
not written. It gives `ImagesLoaded` and `NoBusErrors`, in all three ways of loading.

**ElfSymbols, HostAccess.** `SymbolsFound`: sections that were accepted lie in the
file in spite of the wrap of offset and size, and an address that is remembered is in
the library and is that of a symbol of that name. `AccessesSound`: each check of an address and length
modulo the word bounds the bytes touched after it, for every system call in the module.

**SboxThreads.** `OwnInv`: ids are never used again; for one id and one thread
there is one context, its entry leads to it while both are there, and what is
cached in a thread leads to an entry as long as it is followed; sandboxes
outlive the calls in them. That a free context exists for each new attachment
is shown by counting. It gives `ContextsKept`.

**SboxStack.** `StackInv`: activities of one sandbox follow one another on its
stack, the first begins at the top, and `tls_current_sandbox` is that of the
innermost call. It gives `StacksSound`; with `OutInv` (`finalize` ran before a context
ends, and copied what was written) `OutsCopied`.

**MainStack.** `StackFits`: the budget of `stack_init` counts each string and
word before it is placed, so the sum of what is written, rounding and offset
included, is within the stack.

**Only model-checked.** `FreeCompletes` and `JoinReturns` are liveness under
fairness, which the prover does not do. TLC also finds the six
violations of section 5; no theorem is about them.

## 5. Where the code and its documentation part

With a run each:

1. *Attaching during the last detach* (`proc_callback`). `detach_ctx` decides to
   destroy under `lk_proc`, waits for the sandbox's threads outside it and does
   not look again. A callback on one of those threads may attach meanwhile:
   `proc_destroy` runs with `attached_threads` at one, which its comment in
   `linux/proc.h:224-226` excludes. The same freedom allows a sandbox thread to
   wait for itself: its detach, run from a callback, waits for `active_threads` to be zero.
2. *Attaching in a late TLS destructor* (`proc_late_exit`). `tstate_armed` stays
   set after `tstate_destructor` ran, so a context attached later in the same
   thread's exit is never detached and its process never freed
   (`linux/proc.h:133-136`). `lfi_linux_detach_thread` called at that time walks
   the freed list that `cleanup_data` still points to.
3. *mprotect over a hole* (`box_query`). `lfi_box_mprotect` gives every page of
   the range its protection and records it for the tracked ones only; an
   untracked page becomes accessible and `lfi_box_mquery` says it is not mapped
   (`core/include/lfi_core.h:205-206`).
4. *The neighbour's page of runtime calls* (`sys_page`). `lfi_box_free` takes the
   page below its box away and the last page of its range with it. Where boxes
   have no guard outside them (arm64) that last page belongs to the box above
   (`core/box.c:100-101`, `:580`), which can call the runtime no more.
5. *Exiting from a callback* (`ctx_exit`). On x86-64 `lfi_callback` swaps the two
   stack pointers, so `lfi_ctx_exit` called there takes the sandbox's for the
   host's; `core/include/lfi_core.h:322-325` allows the call.
6. *Aborting a callback that has called in* (`nested_abort`). On arm64 the abort
   of a callback jumps to `lfi_ret_end` (`core/arch/arm64/callback.S:114-124`), which loads
   `REGS_HOST_SP` (`trampoline.S:254`). The other return path restores that word first
   (`callback.S:145-146`), as x86-64 does (`x64/callback.S:85`). An invocation made
   by the callback has set the word to its own frame (`trampoline.S:214`), which is
   gone by then; `core/include/lfi_core.h:266-267` says that an aborted callback directly returns.

Met while reading, without a run:

* *A call context used twice.* `CallContext::finalize` copies out parameters back
  once; the second call made with the same context leaves them as they were
  (`sbox/lfi.h:576`, `sbox/README.md:101-103`). With `Reuse = TRUE`, `SboxStack` violates `OutCopied`.
* *Exiting from a nested invocation.* `lfi_ctx_exit` (`core/ctx.c:121-128`) tests `in_ctx_run`, which stays set through run,
  callback, `LFI_INVOKE` of the same context and a system call there. An exit in that call passes the test, and
  `lfi_ctx_end` takes the words the trampoline pushed for those of `lfi_ctx_entry`; `core/include/lfi_core.h:325-326`
  says that the exit of a context entered through the trampoline aborts. With `Parts = {"stacks"}` and
  `Broken = {"ExitsRuns"}`, `MCCalls` violates `ReturnsHome`.
* *Aborting a callback of a run.* An abort asked for in a callback directly under `lfi_ctx_run` returns through
  `lfi_ret_end`, which pops what the trampoline pushes and `lfi_ctx_entry` does not. `core/include/lfi_core.h:266-267`
  makes no exception. With `Broken = {"AbortsInvocations"}` the same property is violated. `lfi_ctx_abort_cb` sets a flag
  that the next callback of the context to return finds, whoever asked.
* A spawned thread that leaves by pause (`linux/sys/sys_lfi_pause.c:22-24`) never clears the word of its thread id, so who
  joins it sleeps on; `NoLostJoin` and `JoinReturns` are about threads that exit.
* An mprotect that the host refuses may have changed the first part of the range; the tracker
  then records nothing of it (`core/box.c:512-515`). `Protect` takes a refusal as changing nothing.
* `lfi_box_new` leaves the page of runtime calls readable when a later step fails (`core/box.c:210-236`); the place goes back to
  the allocator, and the next box there maps over it.
* `sbox/lfi.cpp:175-192` dereferences the context of the thread, which is NULL on a worker that has not called in yet;
  `SboxStack` begins with a thread that has one.
* `openat` decides by the path, after the open, whether the file is a directory (`linux/sys/sys_openat.c:30-35`);
  `FileTable` takes the two as one step.
* `fchdir` keeps the path as the caller of `openat` wrote it
  (`linux/sys/sys_openat.c:36`), so a descriptor opened by a relative path means
  another directory after a `chdir`; `FileTable` models it so.
* `path_resolve` takes the mapping that has most in common with the path, even if the
  path is outside it, and the first of equals (`linux/path.c:50-54`). With mappings of
  `/` and `/a/b`, `/a/x` becomes `x` in the host's directory for `/a/b`.
  `linux/include/lfi_linux.h:19-22` has no such case; `PathsResolve` assumes `MapsNested`.
* With protection keys and on RISC-V all guards are empty (`core/core.h:219-235`), so the page of
  runtime calls below a box (`core/box.c:105`) is the last usable page of the box that ends there, and
  below a first box it may lie outside the reservation. With such `Configs`, `Spaces` violates `SpacesSound` and
  `OthersKept`; the theorems have them excluded by `Guarded`.
* Registering a function as a struct callback after it was registered plainly
  returns the plain entry (`core/arch/x64/callback.c:114`).
* `abort_status` is never cleared (`core/ctx.c:151`) and no switch reads it, so `Context` leaves it out; `lfi_cur_ctx`
  (`core/ctx.c:139`) answers for the last context entered.
* Without memory for the string table, symbols keep their size and have no data
  (`linux/elfsym.c:194`); `lfi_proc_new` leaks the box when the working
  directory is refused (`linux/proc.c:51`).
* `readv` and `writev` report an error after a partial transfer, `getdents64`
  in its fallback loses the entries it read and could not fit, and `nanosleep`
  copies out a remainder the host did not write.
* The assertion of `linux/sys/sys_clone.c:31` and `linux/futex_macos.c:93` were
  read and not modelled.

## 6. Not modelled

The main thread (`LFI_THREAD_MAIN`) is the embedder's to join before it frees the
process and holds neither counter, so in `ProcLifecycle` it appears only as the context that starts
things. Weak memory: counters, flags, slots and words are sequentially consistent.
RISC-V: its runtime has no callbacks. Registers other than the stack pointers, the
cached `gs` base, signals and their stacks, protection keys, `opts.no_verify` and `allow_wx`.
The masks of mmap's flags, file offsets, the translation of errors and flags,
and what host calls write into buffers are data the properties do not tell apart.
The sbox type layer is compile-time, and its passthrough backend has no sandbox.
Futex requeue goes to the host, `futex_pthread.c` is a stub. Logging, profiling
(perf maps), the debugger interface, the tools, examples and tests, the verifier
and the rewriter's output keep no state of the runtime. Boxes of one engine are created and freed by one thread:
`lfi_core.h:156` promises no more, so the missing lock of `boxmap` is outside
the model. `PROJECT.json` gives the status of every component.

## 7. Plan

Done: every component of the module table is modelled and checked, and every
safety property, action property and refinement of the passing runs is proved.

Next:

1. Hazards without a property (`PROJECT.json`): the two failure paths of
   `linux/elfsym.c:194` and `linux/proc.c:51`.
2. Runs for the two disagreements of `Context` that section 5 describes without one.
3. `Contract` per callback: on arm64 a callback that has not yet called in may unwind,
   whatever other callbacks of its context do. It needs a history of each callback.
4. `PathsSound` for maps that are not nested, with a meaning for paths outside all of them.
