---------------------------- MODULE ProcExitProofs ----------------------------
(***************************************************************************)
(* Exit codes, joins, the list of threads and attached threads are right   *)
(* for any number of threads, words and codes.                             *)
(*                                                                         *)
(* The inductive invariant EInv adds to the properties what the next steps *)
(* rely on: the code of an exit_group that is about to raise the flag has  *)
(* been stored, a sleeper has its word, exited is set on the way out only, *)
(* and an attached thread of which the runtime still owns the host thread  *)
(* pauses once and is then on its way to the hand-over.                    *)
(***************************************************************************)
EXTENDS ProcExit, TLAPS

\* What exit_group promises to whoever sees terminating.
CodeStored ==
    /\ terminating \/ (\E t \in Thread : pc[t] = "coded") => exitCode \in requested
    /\ \A t \in Thread : pc[t] = "told" => terminating

\* NoLostJoin, sleeper by sleeper.
WillWake ==
    \A t \in Thread : pc[t] = "asleep" =>
        /\ on[t] \in Word
        /\ mem[on[t]] # 0 \/ \E u \in Thread : ctid[u] = on[t] /\ pc[u] = "wake"

\* ThreadsListed needs to know when exited is not set yet.
ExitMarks ==
    /\ ThreadsListed
    /\ \A t \in Thread : /\ pc[t] = "unborn" => ~exited[t]
                         /\ pc[t] = "remove" => exited[t]

\* A thread attached to a host thread comes here as the runtime's and leaves
\* as the host's.
Attached == Lazy \cup {Cloner}
HandedOver ==
    /\ owner[Cloner] = "host"
    /\ \A t \in Attached : owner[t] # "host" =>
           /\ paused[t] => pc[t] = "out"
           /\ exited[t] => pc[t] \in {"remove", "clear", "wake", "out"}
    /\ AttachedLeave

EInv == ExitTypeOK /\ CodeStored /\ WillWake /\ ExitMarks /\ HandedOver

-----------------------------------------------------------------------------

\* Types.
LEMMA Typed ==
    ASSUME EInv, [ExitNext]_exitVars
    PROVE  ExitTypeOK'
<1> USE ExitAssumption DEF EInv, ExitTypeOK, Where, Thread, Request, Marks, Ids
<1>1. ASSUME NEW t \in Thread, EnterBox(t) PROVE ExitTypeOK'
  BY <1>1 DEF EnterBox, Move
<1>2. ASSUME NEW t \in Thread, ReturnBox(t) PROVE ExitTypeOK'
  BY <1>2 DEF ReturnBox, Move, InCall, Abort
<1>3. ASSUME NEW t \in Thread, Checkpoint(t) PROVE ExitTypeOK'
  BY <1>3 DEF Checkpoint, Move
<1>4. ASSUME NEW t \in Thread, ReadCode(t) PROVE ExitTypeOK'
  BY <1>4 DEF ReadCode, Move
<1>5. ASSUME NEW t \in Thread, ExitCall(t) PROVE ExitTypeOK'
  BY <1>5 DEF ExitCall, Move
<1>6. ASSUME NEW t \in Thread, ExitGroup(t) PROVE ExitTypeOK'
  BY <1>6 DEF ExitGroup, Move, FirstStore
<1>7. ASSUME NEW t \in Thread, Publish(t) PROVE ExitTypeOK'
  BY <1>7 DEF Publish, Move
<1>8. ASSUME NEW t \in Thread, ExitHost(t) PROVE ExitTypeOK'
  BY <1>8 DEF ExitHost, Move
<1>9. ASSUME NEW t \in Thread, ExitPaused(t) PROVE ExitTypeOK'
  BY <1>9 DEF ExitPaused, Abort
<1>10. ASSUME NEW t \in Thread, ExitOnce(t) PROVE ExitTypeOK'
  <2>1. CASE exited[t]
    BY <1>10, <2>1 DEF ExitOnce, Abort
  <2>2. CASE ~exited[t]
    <3>1. pc' = [pc EXCEPT ![t] = "remove"] /\ UNCHANGED <<aborted, Request, arg, owner, paused, listed, Ids>>
      BY <1>10, <2>2 DEF ExitOnce, Move
    <3>2. exited' = [exited EXCEPT ![t] = TRUE]
      BY <1>10, <2>2 DEF ExitOnce
    <3>3. exited' \in [Thread -> BOOLEAN]
      BY <3>2
    <3> QED
      BY <3>1, <3>3
  <2> QED
    BY <2>1, <2>2
<1>11. ASSUME NEW t \in Thread, ExitUnlist(t) PROVE ExitTypeOK'
  BY <1>11 DEF ExitUnlist, Move, Unlisted
<1>12. ASSUME NEW t \in Thread, ClearStore(t) PROVE ExitTypeOK'
  BY <1>12 DEF ClearStore, Move, Zeroed
<1>13. ASSUME NEW t \in Thread, ClearWake(t) PROVE ExitTypeOK'
  BY <1>13 DEF ClearWake, Wake, Joiners, Asleep
<1>14. ASSUME NEW t \in Thread, OtherCall(t) PROVE ExitTypeOK'
  BY <1>14 DEF OtherCall, Move
<1>15. ASSUME NEW t \in Thread, Pause(t) PROVE ExitTypeOK'
  <2>1. paused' = [paused EXCEPT ![t] = TRUE] /\ UNCHANGED <<Request, owner, exited, listed, Ids>>
    BY <1>15 DEF Pause
  <2>2. paused' \in [Thread -> BOOLEAN]
    BY <2>1
  <2>3. CASE paused[t] \/ owner[t] = "host"
    BY <1>15, <2>1, <2>2, <2>3 DEF Pause, Abort
  <2>4. CASE ~(paused[t] \/ owner[t] = "host")
    <3>1. pc' = [pc EXCEPT ![t] = "out"] /\ arg' = [arg EXCEPT ![t] = 0]
      BY <1>15, <2>4 DEF Pause, Move
    <3> QED BY <2>1, <2>2, <3>1
  <2> QED BY <2>3, <2>4
<1>16. ASSUME NEW t \in Thread, NEW w \in Word, SetTidAddress(t, w) PROVE ExitTypeOK'
  BY <1>16 DEF SetTidAddress, Move
<1>17. ASSUME NEW t \in Thread, NEW w \in Word, NEW v \in Thread, FutexWait(t, w, v) PROVE ExitTypeOK'
  BY <1>17 DEF FutexWait, Move
<1>18. ASSUME NEW t \in Thread, FutexTimeout(t) PROVE ExitTypeOK'
  BY <1>18 DEF FutexTimeout, Move
<1>19. ASSUME NEW t \in Thread, NEW w \in Word, FutexWake(t, w) PROVE ExitTypeOK'
  BY <1>19 DEF FutexWake, Asleep
<1>20. ASSUME NEW t \in Thread, NEW v \in Thread, NEW w \in Word, Clone(t, v, w) PROVE ExitTypeOK'
  BY <1>20 DEF Clone, Listed
<1>21. ASSUME NEW t \in Thread, CloneReturn(t) PROVE ExitTypeOK'
  BY <1>21 DEF CloneReturn, Move
<1>22. ASSUME NEW t \in Thread, NEW v \in Thread, NEW w \in Word, CloneFails(t, v, w) PROVE ExitTypeOK'
  BY <1>22 DEF CloneFails, Move
<1>23. ASSUME NEW t \in Thread, SpawnedEnd(t) PROVE ExitTypeOK'
  BY <1>23 DEF SpawnedEnd, Move
<1>24. ASSUME NEW t \in Thread, FakeReturn(t) PROVE ExitTypeOK'
  BY <1>24 DEF FakeReturn, HandOver
<1>25. CASE MainReturn
  BY <1>25 DEF MainReturn, Move
<1>26. CASE UNCHANGED exitVars
  BY <1>26 DEF exitVars
<1> QED
  BY <1>1, <1>2, <1>3, <1>4, <1>5, <1>6, <1>7, <1>8, <1>9, <1>10, <1>11,
     <1>12, <1>13, <1>14, <1>15, <1>16, <1>17, <1>18, <1>19, <1>20, <1>21,
     <1>22, <1>23, <1>24, <1>25, <1>26
  DEF ExitNext, Leave, Call

\* exit_code is stored before terminating, by everyone who raises it.
LEMMA CodeStep ==
    ASSUME EInv, [ExitNext]_exitVars
    PROVE  CodeStored'
<1> USE ExitAssumption DEF EInv, ExitTypeOK, CodeStored, Request, Marks, Ids
<1>1. ASSUME NEW t \in Thread, EnterBox(t) PROVE CodeStored'
  BY <1>1 DEF EnterBox, Move
<1>2. ASSUME NEW t \in Thread, ReturnBox(t) PROVE CodeStored'
  BY <1>2 DEF ReturnBox, Move, InCall, Abort
<1>3. ASSUME NEW t \in Thread, Checkpoint(t) PROVE CodeStored'
  BY <1>3 DEF Checkpoint, Move
<1>4. ASSUME NEW t \in Thread, ReadCode(t) PROVE CodeStored'
  BY <1>4 DEF ReadCode, Move
<1>5. ASSUME NEW t \in Thread, ExitCall(t) PROVE CodeStored'
  BY <1>5 DEF ExitCall, Move
<1>6. ASSUME NEW t \in Thread, ExitGroup(t) PROVE CodeStored'
  BY <1>6 DEF ExitGroup, Move, FirstStore
<1>7. ASSUME NEW t \in Thread, Publish(t) PROVE CodeStored'
  BY <1>7 DEF Publish, Move
<1>8. ASSUME NEW t \in Thread, ExitHost(t) PROVE CodeStored'
  BY <1>8 DEF ExitHost, Move
<1>9. ASSUME NEW t \in Thread, ExitPaused(t) PROVE CodeStored'
  BY <1>9 DEF ExitPaused, Abort
<1>10. ASSUME NEW t \in Thread, ExitOnce(t) PROVE CodeStored'
  BY <1>10 DEF ExitOnce, Move, Abort
<1>11. ASSUME NEW t \in Thread, ExitUnlist(t) PROVE CodeStored'
  BY <1>11 DEF ExitUnlist, Move, Unlisted
<1>12. ASSUME NEW t \in Thread, ClearStore(t) PROVE CodeStored'
  BY <1>12 DEF ClearStore, Move, Zeroed
<1>13. ASSUME NEW t \in Thread, ClearWake(t) PROVE CodeStored'
  BY <1>13 DEF ClearWake, Wake, Joiners, Asleep
<1>14. ASSUME NEW t \in Thread, OtherCall(t) PROVE CodeStored'
  BY <1>14 DEF OtherCall, Move
<1>15. ASSUME NEW t \in Thread, Pause(t) PROVE CodeStored'
  BY <1>15 DEF Pause, Move, Abort
<1>16. ASSUME NEW t \in Thread, NEW w \in Word, SetTidAddress(t, w) PROVE CodeStored'
  BY <1>16 DEF SetTidAddress, Move
<1>17. ASSUME NEW t \in Thread, NEW w \in Word, NEW v \in Thread, FutexWait(t, w, v) PROVE CodeStored'
  BY <1>17 DEF FutexWait, Move
<1>18. ASSUME NEW t \in Thread, FutexTimeout(t) PROVE CodeStored'
  BY <1>18 DEF FutexTimeout, Move
<1>19. ASSUME NEW t \in Thread, NEW w \in Word, FutexWake(t, w) PROVE CodeStored'
  BY <1>19 DEF FutexWake, Asleep
<1>20. ASSUME NEW t \in Thread, NEW v \in Thread, NEW w \in Word, Clone(t, v, w) PROVE CodeStored'
  BY <1>20 DEF Clone, Listed
<1>21. ASSUME NEW t \in Thread, CloneReturn(t) PROVE CodeStored'
  BY <1>21 DEF CloneReturn, Move
<1>22. ASSUME NEW t \in Thread, NEW v \in Thread, NEW w \in Word, CloneFails(t, v, w) PROVE CodeStored'
  BY <1>22 DEF CloneFails, Move
<1>23. ASSUME NEW t \in Thread, SpawnedEnd(t) PROVE CodeStored'
  BY <1>23 DEF SpawnedEnd, Move
<1>24. ASSUME NEW t \in Thread, FakeReturn(t) PROVE CodeStored'
  BY <1>24 DEF FakeReturn, HandOver
<1>25. CASE MainReturn
  BY <1>25 DEF MainReturn, Move
<1>26. CASE UNCHANGED exitVars
  BY <1>26 DEF exitVars
<1> QED
  BY <1>1, <1>2, <1>3, <1>4, <1>5, <1>6, <1>7, <1>8, <1>9, <1>10, <1>11,
     <1>12, <1>13, <1>14, <1>15, <1>16, <1>17, <1>18, <1>19, <1>20, <1>21,
     <1>22, <1>23, <1>24, <1>25, <1>26
  DEF ExitNext, Leave, Call

\* A word is cleared only by a thread that then wakes its sleepers.
LEMMA JoinStep ==
    ASSUME EInv, [ExitNext]_exitVars
    PROVE  WillWake'
<1> USE ExitAssumption DEF EInv, ExitTypeOK, WillWake, Request, Marks, Ids, Thread
<1>1. ASSUME NEW t \in Thread, EnterBox(t) PROVE WillWake'
  BY <1>1 DEF EnterBox, Move
<1>2. ASSUME NEW t \in Thread, ReturnBox(t) PROVE WillWake'
  BY <1>2 DEF ReturnBox, Move, InCall, Abort
<1>3. ASSUME NEW t \in Thread, Checkpoint(t) PROVE WillWake'
  BY <1>3 DEF Checkpoint, Move
<1>4. ASSUME NEW t \in Thread, ReadCode(t) PROVE WillWake'
  BY <1>4 DEF ReadCode, Move
<1>5. ASSUME NEW t \in Thread, ExitCall(t) PROVE WillWake'
  BY <1>5 DEF ExitCall, Move
<1>6. ASSUME NEW t \in Thread, ExitGroup(t) PROVE WillWake'
  BY <1>6 DEF ExitGroup, Move, FirstStore
<1>7. ASSUME NEW t \in Thread, Publish(t) PROVE WillWake'
  BY <1>7 DEF Publish, Move
<1>8. ASSUME NEW t \in Thread, ExitHost(t) PROVE WillWake'
  BY <1>8 DEF ExitHost, Move
<1>9. ASSUME NEW t \in Thread, ExitPaused(t) PROVE WillWake'
  BY <1>9 DEF ExitPaused, Abort
<1>10. ASSUME NEW t \in Thread, ExitOnce(t) PROVE WillWake'
  BY <1>10 DEF ExitOnce, Move, Abort
<1>11. ASSUME NEW t \in Thread, ExitUnlist(t) PROVE WillWake'
  BY <1>11 DEF ExitUnlist, Move, Unlisted
<1>12. ASSUME NEW t \in Thread, ClearStore(t) PROVE WillWake'
  BY <1>12 DEF ClearStore, Move, Zeroed
<1>13. ASSUME NEW t \in Thread, ClearWake(t) PROVE WillWake'
  BY <1>13 DEF ClearWake, Wake, Joiners, Asleep
<1>14. ASSUME NEW t \in Thread, OtherCall(t) PROVE WillWake'
  BY <1>14 DEF OtherCall, Move
<1>15. ASSUME NEW t \in Thread, Pause(t) PROVE WillWake'
  BY <1>15 DEF Pause, Move, Abort
<1>16. ASSUME NEW t \in Thread, NEW w \in Word, SetTidAddress(t, w) PROVE WillWake'
  BY <1>16 DEF SetTidAddress, Move
<1>17. ASSUME NEW t \in Thread, NEW w \in Word, NEW v \in Thread, FutexWait(t, w, v) PROVE WillWake'
  BY <1>17 DEF FutexWait, Move
<1>18. ASSUME NEW t \in Thread, FutexTimeout(t) PROVE WillWake'
  BY <1>18 DEF FutexTimeout, Move
<1>19. ASSUME NEW t \in Thread, NEW w \in Word, FutexWake(t, w) PROVE WillWake'
  BY <1>19 DEF FutexWake, Asleep
<1>20. ASSUME NEW t \in Thread, NEW v \in Thread, NEW w \in Word, Clone(t, v, w) PROVE WillWake'
  BY <1>20 DEF Clone, Listed
<1>21. ASSUME NEW t \in Thread, CloneReturn(t) PROVE WillWake'
  BY <1>21 DEF CloneReturn, Move
<1>22. ASSUME NEW t \in Thread, NEW v \in Thread, NEW w \in Word, CloneFails(t, v, w) PROVE WillWake'
  BY <1>22 DEF CloneFails, Move
<1>23. ASSUME NEW t \in Thread, SpawnedEnd(t) PROVE WillWake'
  BY <1>23 DEF SpawnedEnd, Move
<1>24. ASSUME NEW t \in Thread, FakeReturn(t) PROVE WillWake'
  BY <1>24 DEF FakeReturn, HandOver
<1>25. CASE MainReturn
  BY <1>25 DEF MainReturn, Move
<1>26. CASE UNCHANGED exitVars
  BY <1>26 DEF exitVars
<1> QED
  BY <1>1, <1>2, <1>3, <1>4, <1>5, <1>6, <1>7, <1>8, <1>9, <1>10, <1>11,
     <1>12, <1>13, <1>14, <1>15, <1>16, <1>17, <1>18, <1>19, <1>20, <1>21,
     <1>22, <1>23, <1>24, <1>25, <1>26
  DEF ExitNext, Leave, Call

\* Each thread is listed once and takes itself off once.
LEMMA ListStep ==
    ASSUME EInv, [ExitNext]_exitVars
    PROVE  ExitMarks'
<1> USE ExitAssumption DEF EInv, ExitTypeOK, ExitMarks, ThreadsListed, Request, Marks, Ids, Thread
<1>1. ASSUME NEW t \in Thread, EnterBox(t) PROVE ExitMarks'
  BY <1>1 DEF EnterBox, Move
<1>2. ASSUME NEW t \in Thread, ReturnBox(t) PROVE ExitMarks'
  BY <1>2 DEF ReturnBox, Move, InCall, Abort
<1>3. ASSUME NEW t \in Thread, Checkpoint(t) PROVE ExitMarks'
  BY <1>3 DEF Checkpoint, Move
<1>4. ASSUME NEW t \in Thread, ReadCode(t) PROVE ExitMarks'
  BY <1>4 DEF ReadCode, Move
<1>5. ASSUME NEW t \in Thread, ExitCall(t) PROVE ExitMarks'
  BY <1>5 DEF ExitCall, Move
<1>6. ASSUME NEW t \in Thread, ExitGroup(t) PROVE ExitMarks'
  BY <1>6 DEF ExitGroup, Move, FirstStore
<1>7. ASSUME NEW t \in Thread, Publish(t) PROVE ExitMarks'
  BY <1>7 DEF Publish, Move
<1>8. ASSUME NEW t \in Thread, ExitHost(t) PROVE ExitMarks'
  BY <1>8 DEF ExitHost, Move
<1>9. ASSUME NEW t \in Thread, ExitPaused(t) PROVE ExitMarks'
  BY <1>9 DEF ExitPaused, Abort
<1>10. ASSUME NEW t \in Thread, ExitOnce(t) PROVE ExitMarks'
  BY <1>10 DEF ExitOnce, Move, Abort
<1>11. ASSUME NEW t \in Thread, ExitUnlist(t) PROVE ExitMarks'
  BY <1>11 DEF ExitUnlist, Move, Unlisted
<1>12. ASSUME NEW t \in Thread, ClearStore(t) PROVE ExitMarks'
  BY <1>12 DEF ClearStore, Move, Zeroed
<1>13. ASSUME NEW t \in Thread, ClearWake(t) PROVE ExitMarks'
  BY <1>13 DEF ClearWake, Wake, Joiners, Asleep
<1>14. ASSUME NEW t \in Thread, OtherCall(t) PROVE ExitMarks'
  BY <1>14 DEF OtherCall, Move
<1>15. ASSUME NEW t \in Thread, Pause(t) PROVE ExitMarks'
  BY <1>15 DEF Pause, Move, Abort
<1>16. ASSUME NEW t \in Thread, NEW w \in Word, SetTidAddress(t, w) PROVE ExitMarks'
  BY <1>16 DEF SetTidAddress, Move
<1>17. ASSUME NEW t \in Thread, NEW w \in Word, NEW v \in Thread, FutexWait(t, w, v) PROVE ExitMarks'
  BY <1>17 DEF FutexWait, Move
<1>18. ASSUME NEW t \in Thread, FutexTimeout(t) PROVE ExitMarks'
  BY <1>18 DEF FutexTimeout, Move
<1>19. ASSUME NEW t \in Thread, NEW w \in Word, FutexWake(t, w) PROVE ExitMarks'
  BY <1>19 DEF FutexWake, Asleep
<1>20. ASSUME NEW t \in Thread, NEW v \in Thread, NEW w \in Word, Clone(t, v, w) PROVE ExitMarks'
  BY <1>20 DEF Clone, Listed
<1>21. ASSUME NEW t \in Thread, CloneReturn(t) PROVE ExitMarks'
  BY <1>21 DEF CloneReturn, Move
<1>22. ASSUME NEW t \in Thread, NEW v \in Thread, NEW w \in Word, CloneFails(t, v, w) PROVE ExitMarks'
  BY <1>22 DEF CloneFails, Move
<1>23. ASSUME NEW t \in Thread, SpawnedEnd(t) PROVE ExitMarks'
  BY <1>23 DEF SpawnedEnd, Move
<1>24. ASSUME NEW t \in Thread, FakeReturn(t) PROVE ExitMarks'
  BY <1>24 DEF FakeReturn, HandOver
<1>25. CASE MainReturn
  BY <1>25 DEF MainReturn, Move
<1>26. CASE UNCHANGED exitVars
  BY <1>26 DEF exitVars
<1> QED
  BY <1>1, <1>2, <1>3, <1>4, <1>5, <1>6, <1>7, <1>8, <1>9, <1>10, <1>11,
     <1>12, <1>13, <1>14, <1>15, <1>16, <1>17, <1>18, <1>19, <1>20, <1>21,
     <1>22, <1>23, <1>24, <1>25, <1>26
  DEF ExitNext, Leave, Call

\* An attached thread never runs into the exits of the sandbox's own threads.
LEMMA AttachedStep ==
    ASSUME EInv, [ExitNext]_exitVars
    PROVE  HandedOver'
<1> USE ExitAssumption DEF EInv, ExitTypeOK, HandedOver, AttachedLeave, Attached, Request, Marks, Ids, Thread
<1>1. ASSUME NEW t \in Thread, EnterBox(t) PROVE HandedOver'
  BY <1>1 DEF EnterBox, Move
<1>2. ASSUME NEW t \in Thread, ReturnBox(t) PROVE HandedOver'
  BY <1>2 DEF ReturnBox, Move, InCall, Abort
<1>3. ASSUME NEW t \in Thread, Checkpoint(t) PROVE HandedOver'
  BY <1>3 DEF Checkpoint, Move
<1>4. ASSUME NEW t \in Thread, ReadCode(t) PROVE HandedOver'
  BY <1>4 DEF ReadCode, Move
<1>5. ASSUME NEW t \in Thread, ExitCall(t) PROVE HandedOver'
  BY <1>5 DEF ExitCall, Move
<1>6. ASSUME NEW t \in Thread, ExitGroup(t) PROVE HandedOver'
  BY <1>6 DEF ExitGroup, Move, FirstStore
<1>7. ASSUME NEW t \in Thread, Publish(t) PROVE HandedOver'
  BY <1>7 DEF Publish, Move
<1>8. ASSUME NEW t \in Thread, ExitHost(t) PROVE HandedOver'
  BY <1>8 DEF ExitHost, Move
<1>9. ASSUME NEW t \in Thread, ExitPaused(t) PROVE HandedOver'
  BY <1>9 DEF ExitPaused, Abort
<1>10. ASSUME NEW t \in Thread, ExitOnce(t) PROVE HandedOver'
  BY <1>10 DEF ExitOnce, Move, Abort
<1>11. ASSUME NEW t \in Thread, ExitUnlist(t) PROVE HandedOver'
  BY <1>11 DEF ExitUnlist, Move, Unlisted
<1>12. ASSUME NEW t \in Thread, ClearStore(t) PROVE HandedOver'
  BY <1>12 DEF ClearStore, Move, Zeroed
<1>13. ASSUME NEW t \in Thread, ClearWake(t) PROVE HandedOver'
  BY <1>13 DEF ClearWake, Wake, Joiners, Asleep
<1>14. ASSUME NEW t \in Thread, OtherCall(t) PROVE HandedOver'
  BY <1>14 DEF OtherCall, Move
<1>15. ASSUME NEW t \in Thread, Pause(t) PROVE HandedOver'
  BY <1>15 DEF Pause, Move, Abort
<1>16. ASSUME NEW t \in Thread, NEW w \in Word, SetTidAddress(t, w) PROVE HandedOver'
  BY <1>16 DEF SetTidAddress, Move
<1>17. ASSUME NEW t \in Thread, NEW w \in Word, NEW v \in Thread, FutexWait(t, w, v) PROVE HandedOver'
  BY <1>17 DEF FutexWait, Move
<1>18. ASSUME NEW t \in Thread, FutexTimeout(t) PROVE HandedOver'
  BY <1>18 DEF FutexTimeout, Move
<1>19. ASSUME NEW t \in Thread, NEW w \in Word, FutexWake(t, w) PROVE HandedOver'
  BY <1>19 DEF FutexWake, Asleep
<1>20. ASSUME NEW t \in Thread, NEW v \in Thread, NEW w \in Word, Clone(t, v, w) PROVE HandedOver'
  BY <1>20 DEF Clone, Listed
<1>21. ASSUME NEW t \in Thread, CloneReturn(t) PROVE HandedOver'
  BY <1>21 DEF CloneReturn, Move
<1>22. ASSUME NEW t \in Thread, NEW v \in Thread, NEW w \in Word, CloneFails(t, v, w) PROVE HandedOver'
  BY <1>22 DEF CloneFails, Move
<1>23. ASSUME NEW t \in Thread, SpawnedEnd(t) PROVE HandedOver'
  BY <1>23 DEF SpawnedEnd, Move
<1>24. ASSUME NEW t \in Thread, FakeReturn(t) PROVE HandedOver'
  BY <1>24 DEF FakeReturn, HandOver
<1>25. CASE MainReturn
  BY <1>25 DEF MainReturn, Move
<1>26. CASE UNCHANGED exitVars
  BY <1>26 DEF exitVars
<1> QED
  BY <1>1, <1>2, <1>3, <1>4, <1>5, <1>6, <1>7, <1>8, <1>9, <1>10, <1>11,
     <1>12, <1>13, <1>14, <1>15, <1>16, <1>17, <1>18, <1>19, <1>20, <1>21,
     <1>22, <1>23, <1>24, <1>25, <1>26
  DEF ExitNext, Leave, Call

-----------------------------------------------------------------------------

\* The process starts with its main thread running and nobody else.
LEMMA Begin == ExitInit => EInv
<1> SUFFICES ASSUME ExitInit PROVE EInv
  OBVIOUS
<1> USE ExitAssumption DEF ExitInit, Thread
<1>1. ExitTypeOK
  BY DEF ExitTypeOK, Where
<1>2. CodeStored /\ WillWake
  BY DEF CodeStored, WillWake
<1>3. ExitMarks
  BY DEF ExitMarks, ThreadsListed
<1>4. HandedOver
  BY DEF HandedOver, AttachedLeave, Attached, NoAbort
<1> QED
  BY <1>1, <1>2, <1>3, <1>4 DEF EInv

\* EInv is an invariant of the exits of any process.
THEOREM ExitInvariance == ExitSpec => []EInv
<1>1. EInv /\ [ExitNext]_exitVars => EInv'
  BY Typed, CodeStep, JoinStep, ListStep, AttachedStep DEF EInv
<1> QED
  BY Begin, <1>1, PTL DEF ExitSpec

\* exit_group: a checkpoint and lfi_proc_exited report a code that was passed.
THEOREM CodesRequested == ExitSpec => []CodeRequested
<1>1. EInv => CodeRequested
  BY DEF EInv, ExitTypeOK, CodeStored, CodeRequested, ProcExited
<1> QED
  BY ExitInvariance, <1>1, PTL

\* clear_child_tid: no sleeper on a thread-id word is left behind.
THEOREM JoinsKept == ExitSpec => []NoLostJoin
<1>1. EInv => NoLostJoin
  BY DEF EInv, WillWake, NoLostJoin, Asleep
<1> QED
  BY ExitInvariance, <1>1, PTL

\* proc->threads: what exit, free and threadspawn find there.
THEOREM ListExact == ExitSpec => []ThreadsListed
<1>1. EInv => ThreadsListed
  BY DEF EInv, ExitMarks
<1> QED
  BY ExitInvariance, <1>1, PTL

\* exit, exit_group and the end of the sandbox in an attached thread leave one
\* call; what aborts in such a thread is its own pause, or its attachment.
THEOREM AttachedReturn == ExitSpec => []AttachedLeave
<1>1. EInv => AttachedLeave
  BY DEF EInv, HandedOver
<1> QED
  BY ExitInvariance, <1>1, PTL
=============================================================================
