---------------------------- MODULE CallbackTable ----------------------------
(***************************************************************************)
(* The callback table of one sandbox: core/arch/x64/callback.c and         *)
(* core/arch/arm64/callback.c (init_cb, register_cb, unregister_cb).       *)
(*                                                                         *)
(* Host threads register and unregister functions under box->lk.  Sandbox  *)
(* threads jump through a slot without it: the entry code loads the        *)
(* target, then loads the trampoline and jumps.  The two fields of a slot  *)
(* are written by two atomic stores, so those are separate steps here.     *)
(***************************************************************************)
EXTENDS Integers, FiniteSets

CONSTANTS
    Fn,        \* host functions that may be registered
    NSlots,    \* MAXCALLBACKS
    Host,      \* host threads that change the table
    Caller,    \* threads that run sandbox code
    NoFn,      \* no function, or nobody
    InitSteps  \* how many resources init_cb takes: 3 on x64 (memfd, alias,
               \* box mapping), 5 on arm64 (and mprotect, data mapping)

ASSUME TableAssumption ==
    /\ NSlots \in Nat \ {0} /\ InitSteps \in {3, 5}
    /\ NoFn \notin Fn \cup Host

VARIABLES
    callbacks,   \* box->callbacks: the function of each slot, or NoFn
    target,      \* the slot's target field
    trampoline,  \* its trampoline field: "plain", "struct" or "zero"
    ready,       \* cbinfo.cbentries_box is set
    alias,       \* cbinfo.cbentries_alias is set
    held,        \* steps of init_cb whose resource is held
    lk,          \* holder of box->lk
    op,          \* op[h]: the operation h is in
    call         \* call[t]: how far a sandbox thread is into a slot

tableVars == <<callbacks, target, trampoline, ready, alias, held, lk, op, call>>

Slot == 1..NSlots
Variant == {"plain", "struct"}
Fd == 1       \* the memfd, closed when init_cb returns
AliasMap == 2 \* the host's view of the entries
CodeMap == 3  \* the entries inside the sandbox

NoOp == [at |-> "idle", fn |-> NoFn, v |-> "plain", slot |-> 0]
NoCall == [at |-> "out", slot |-> 0, r10 |-> NoFn, tr |-> "zero", fn |-> NoFn, v |-> "plain", stable |-> FALSE]

TableInit ==
    /\ callbacks = [s \in Slot |-> NoFn]
    /\ target = [s \in Slot |-> NoFn]
    /\ trampoline = [s \in Slot |-> "zero"]
    /\ ready = FALSE /\ alias = FALSE /\ held = {}
    /\ lk = NoFn
    /\ op = [h \in Host |-> NoOp]
    /\ call = [t \in Caller |-> NoCall]

-----------------------------------------------------------------------------
Found(f) == {s \in Slot : callbacks[s] = f}     \* cbfind
FreeSlots == Found(NoFn)
Least(S) == CHOOSE s \in S : \A u \in S : s <= u  \* cbfreeslot

\* A call that has started through a slot whose registration goes away is no
\* longer a call of a registered function.
Unstable(s) ==
    [t \in Caller |-> IF call[t].slot = s THEN [call[t] EXCEPT !.stable = FALSE] ELSE call[t]]

Unlock(h) == lk' = NoFn /\ op' = [op EXCEPT ![h] = NoOp]

\* lfi_box_register_cb and lfi_box_register_cb_struct.
Register(h, f, v) ==
    /\ lk = NoFn /\ op[h].at = "idle"
    /\ lk' = h
    /\ op' = [op EXCEPT ![h] = [at |-> IF ready THEN "find" ELSE "init", fn |-> f, v |-> v, slot |-> 0]]
    /\ UNCHANGED <<callbacks, target, trampoline, ready, alias, held, call>>

\* Mutation: every error label only closes the memfd.
ReleaseFd(n) == IF n <= Fd THEN {} ELSE {Fd}

NextStep == Cardinality(held) + 1

\* What each error label of init_cb releases when the step n fails: err, err1
\* and, on arm64, err2.
Release(n) == IF n <= Fd THEN {} ELSE IF n <= AliasMap THEN {Fd} ELSE
              IF n <= CodeMap THEN {Fd, AliasMap} ELSE 1..(n - 1)

InitStep(h) ==
    /\ op[h].at = "init"
    /\ \/ /\ NextStep <= InitSteps
          /\ held' = held \cup {NextStep}
          /\ alias' = (alias \/ NextStep = AliasMap)
          /\ UNCHANGED <<ready, lk, op>>
       \/ /\ NextStep <= InitSteps
          /\ held' = held \ Release(NextStep)
          /\ alias' = FALSE
          /\ Unlock(h)
          /\ UNCHANGED ready
       \/ /\ NextStep = InitSteps + 1
          /\ ready' = TRUE
          /\ held' = held \ {Fd}
          /\ op' = [op EXCEPT ![h].at = "find"]
          /\ UNCHANGED <<lk, alias>>
    /\ UNCHANGED <<callbacks, target, trampoline, call>>

\* The function has a slot already, or no slot is left: nothing to write.
FindDone(h) ==
    /\ op[h].at = "find"
    /\ Found(op[h].fn) # {} \/ FreeSlots = {}
    /\ Unlock(h)
    /\ UNCHANGED <<callbacks, target, trampoline, ready, alias, held, call>>

\* Mutation: the slot is marked before it is complete.
WriteTargetAndMark(h) ==
    /\ op[h].at = "find" /\ Found(op[h].fn) = {} /\ FreeSlots # {}
    /\ target' = [target EXCEPT ![Least(FreeSlots)] = op[h].fn]
    /\ callbacks' = [callbacks EXCEPT ![Least(FreeSlots)] = op[h].fn]
    /\ op' = [op EXCEPT ![h].at = "trampoline", ![h].slot = Least(FreeSlots)]
    /\ UNCHANGED <<trampoline, ready, alias, held, lk, call>>

WriteTarget(h) ==
    /\ op[h].at = "find" /\ Found(op[h].fn) = {} /\ FreeSlots # {}
    /\ target' = [target EXCEPT ![Least(FreeSlots)] = op[h].fn]
    /\ op' = [op EXCEPT ![h].at = "trampoline", ![h].slot = Least(FreeSlots)]
    /\ UNCHANGED <<callbacks, trampoline, ready, alias, held, lk, call>>

WriteTrampoline(h) ==
    /\ op[h].at = "trampoline"
    /\ trampoline' = [trampoline EXCEPT ![op[h].slot] = op[h].v]
    /\ callbacks' = [callbacks EXCEPT ![op[h].slot] = op[h].fn]
    /\ Unlock(h)
    /\ UNCHANGED <<target, ready, alias, held, call>>

\* lfi_box_unregister_cb; a function without a slot is left alone.
Unregister(h, f) ==
    /\ lk = NoFn /\ op[h].at = "idle"
    /\ \E s \in Found(f) :
          /\ callbacks' = [callbacks EXCEPT ![s] = NoFn]
          /\ op' = [op EXCEPT ![h] = [at |-> "clear", fn |-> f, v |-> "plain", slot |-> s]]
          /\ call' = Unstable(s)
    /\ lk' = h
    /\ UNCHANGED <<target, trampoline, ready, alias, held>>

ClearTarget(h) ==
    /\ op[h].at = "clear"
    /\ target' = [target EXCEPT ![op[h].slot] = NoFn]
    /\ op' = [op EXCEPT ![h].at = "cleared"]
    /\ UNCHANGED <<callbacks, trampoline, ready, alias, held, lk, call>>

ClearTrampoline(h) ==
    /\ op[h].at = "cleared"
    /\ trampoline' = [trampoline EXCEPT ![op[h].slot] = "zero"]
    /\ Unlock(h)
    /\ UNCHANGED <<callbacks, target, ready, alias, held, call>>

-----------------------------------------------------------------------------
(* Sandbox code jumps to an entry, registered or not. *)

LoadTarget(t, s) ==
    /\ ready /\ call[t].at = "out"
    /\ call' = [call EXCEPT ![t] =
                  [at |-> "loaded", slot |-> s, r10 |-> target[s], tr |-> "zero",
                   fn |-> callbacks[s], v |-> trampoline[s], stable |-> callbacks[s] # NoFn]]
    /\ UNCHANGED <<callbacks, target, trampoline, ready, alias, held, lk, op>>

Jump(t) ==
    /\ call[t].at = "loaded"
    /\ call' = [call EXCEPT ![t].at = "in", ![t].tr = trampoline[call[t].slot]]
    /\ UNCHANGED <<callbacks, target, trampoline, ready, alias, held, lk, op>>

Leave(t) ==
    /\ call[t].at = "in"
    /\ call' = [call EXCEPT ![t] = NoCall]
    /\ UNCHANGED <<callbacks, target, trampoline, ready, alias, held, lk, op>>

TableNext ==
    \/ \E h \in Host :
          \/ \E f \in Fn : \/ \E v \in Variant : Register(h, f, v)
                           \/ Unregister(h, f)
          \/ InitStep(h) \/ FindDone(h) \/ WriteTarget(h) \/ WriteTrampoline(h)
          \/ ClearTarget(h) \/ ClearTrampoline(h)
    \/ \E t \in Caller : (\E s \in Slot : LoadTarget(t, s)) \/ Jump(t) \/ Leave(t)

TableSpecification == TableInit /\ [][TableNext]_tableVars

-----------------------------------------------------------------------------
\* A call through a slot that stays registered while the sandbox is between
\* the two loads of the entry code reaches the registered function through
\* the trampoline of that registration, whatever other slots and earlier
\* owners of this one do meanwhile.
StableEntry ==
    \A t \in Caller : call[t].at = "in" /\ call[t].stable
        => call[t].r10 = call[t].fn /\ call[t].tr = call[t].v /\ call[t].tr # "zero"

\* Between operations the allocation marks and the slots agree: no function
\* has two slots, a marked slot is complete, an unmarked one is zero.  An
\* init_cb that failed at any of its steps left nothing behind, so that the
\* next registration can start over; one that succeeded keeps the mappings
\* and not the memfd.
TableSound ==
    lk = NoFn =>
        /\ \A f \in Fn : Cardinality(Found(f)) <= 1
        /\ \A s \in Slot : target[s] = callbacks[s] /\ (trampoline[s] = "zero" <=> callbacks[s] = NoFn)
        /\ held = IF ready THEN 2..InitSteps ELSE {}
        /\ alias = ready
=============================================================================
