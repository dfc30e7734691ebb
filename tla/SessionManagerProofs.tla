------------------------ MODULE SessionManagerProofs ------------------------
(***************************************************************************)
(* Theorems about work sessions, for any number of sessions, projects,     *)
(* requests and callers and any bounds: types, and the safety invariants   *)
(* that follow from one inductive invariant.                               *)
(***************************************************************************)
EXTENDS SessionManager, TLAPS

USE DEF vars, store, memory, process, rows, requests, cancels

-----------------------------------------------------------------------------
(* Types.                                                                  *)

\* The types survive every step; a turn fits, as MaxTurns > MaxSends.
LEMMA TypeStep == TypeOK /\ [Next]_vars => TypeOK'
<1> SUFFICES ASSUME TypeOK, [Next]_vars PROVE TypeOK'
  OBVIOUS
<1> USE ConstantsAssumption DEF TypeOK, Status, ExpectsLiveWorker, Waiting, Terminal
<1>1. ASSUME NEW s \in Session, NEW w \in BOOLEAN, NEW p \in Project \cup {NoProject},
             StartLaunched(s, w, p)
      PROVE  TypeOK'
  <2>1. 1 \in 0..MaxTurns
    OBVIOUS
  <2>2. lock' \in [Project -> Session \cup {NoSession}]
    BY <1>1 DEF StartLaunched, Claimed, NeedsLock
  <2> QED
    BY <1>1, <2>1, <2>2 DEF StartLaunched, Insert, Moved
<1>2. ASSUME NEW s \in Session, NEW w \in BOOLEAN, NEW p \in Project \cup {NoProject},
             StartRejected(s, w, p)
      PROVE  TypeOK'
  BY <1>2 DEF StartRejected, Insert, Moved
<1>3. ASSUME NEW s \in Session, NEW w \in BOOLEAN, NEW p \in Project \cup {NoProject},
             StartFailed(s, w, p)
      PROVE  TypeOK'
  BY <1>3 DEF StartFailed, Insert, Moved
<1>4. ASSUME NEW s \in Session, NEW w \in BOOLEAN, NEW p \in Project \cup {NoProject},
             TornStart(s, w, p)
      PROVE  TypeOK'
  BY <1>4 DEF TornStart, Insert, Taken, Claimed, Moved, LoseMemory
<1>5. ASSUME NEW s \in Session,
             SendLive(s)
      PROVE  TypeOK'
  BY <1>5 DEF SendLive, Moved
<1>6. ASSUME NEW s \in Session,
             RecoverBegin(s)
      PROVE  TypeOK'
  BY <1>6 DEF RecoverBegin, NeedsRecovery
<1>7. ASSUME NEW s \in Session,
             RecoverJoin(s)
      PROVE  TypeOK'
  BY <1>7 DEF RecoverJoin, NeedsRecovery
<1>8. ASSUME NEW s \in Session,
             RecoverInline(s)
      PROVE  TypeOK'
  BY <1>8 DEF RecoverInline, NeedsRecovery, Rebuilt, Moved
<1>9. ASSUME NEW s \in Session,
             RecoverDone(s)
      PROVE  TypeOK'
  BY <1>9 DEF RecoverDone, Rebuilt, Moved
<1>10. ASSUME NEW s \in Session,
             RecoverRefused(s)
      PROVE  TypeOK'
  BY <1>10 DEF RecoverRefused, RecoverFails
<1>11. ASSUME NEW s \in Session,
             TurnComplete(s)
      PROVE  TypeOK'
  BY <1>11 DEF TurnComplete, RunsTurn, Settled, Moved
<1>12. ASSUME NEW s \in Session,
             WorkerFails(s)
      PROVE  TypeOK'
  BY <1>12 DEF WorkerFails, Finish, Released, Voided, Unblocked, AsksOf
<1>13. ASSUME NEW s \in Session,
             WorkerEnds(s)
      PROVE  TypeOK'
  BY <1>13 DEF WorkerEnds
<1>14. ASSUME NEW s \in Session,
             ChildExit(s)
      PROVE  TypeOK'
  BY <1>14 DEF ChildExit
<1>15. ASSUME NEW s \in Session,
             Expire(s)
      PROVE  TypeOK'
  BY <1>15 DEF Expire
<1>16. ASSUME NEW s \in Session,
             TornVoid(s)
      PROVE  TypeOK'
  BY <1>16 DEF TornVoid, Voided, LoseMemory
<1>17. ASSUME NEW s \in Session,
             MarkInterrupted(s)
      PROVE  TypeOK'
  BY <1>17 DEF MarkInterrupted, Moved
<1>18. ASSUME NEW s \in Session, NEW need \in Waiting,
             TornAsk(s, need)
      PROVE  TypeOK'
  BY <1>18 DEF TornAsk, Moved, LoseMemory
<1>19. ASSUME NEW s \in Session, NEW r \in Request, NEW need \in Waiting,
             Ask(s, r, need)
      PROVE  TypeOK'
  BY <1>19 DEF Ask, RunsTurn, Moved
<1>34. ASSUME NEW s \in Session, NEW need \in Waiting,
             AskRefused(s, need)
      PROVE  TypeOK'
  BY <1>34 DEF AskRefused
<1>20. ASSUME NEW r \in Request,
             Respond(r)
      PROVE  TypeOK'
  BY <1>20 DEF Respond, BackToWork, Moved
<1>21. ASSUME NEW r \in Request,
             AskTimeout(r)
      PROVE  TypeOK'
  BY <1>21 DEF AskTimeout, TimesOut, Voided, BackToWork, Moved
<1>22. ASSUME NEW r \in Request,
             TornRespond(r)
      PROVE  TypeOK'
  BY <1>22 DEF TornRespond, LoseMemory
<1>23. ASSUME NEW c \in Caller, NEW s \in Session,
             CancelAtOnce(c, s)
      PROVE  TypeOK'
  BY <1>23 DEF CancelAtOnce, CancelReturns, Finish, Released, Voided, Unblocked, AsksOf,
     AlreadyDone
<1>24. ASSUME NEW c \in Caller, NEW s \in Session,
             CancelInterrupt(c, s)
      PROVE  TypeOK'
  BY <1>24 DEF CancelInterrupt
<1>25. ASSUME NEW c \in Caller,
             CancelDispose(c)
      PROVE  TypeOK'
  BY <1>25 DEF CancelDispose, Disposed
<1>26. ASSUME NEW c \in Caller,
             CancelDisposed(c)
      PROVE  TypeOK'
  BY <1>26 DEF CancelDisposed, CancelReturns, Finish, Released, Voided, Unblocked,
     AsksOf, Disposed, AlreadyDone
<1>27. ASSUME NEW c \in Caller,
             CancelFinish(c)
      PROVE  TypeOK'
  BY <1>27 DEF CancelFinish, CancelReturns, Finish, Released, Voided, Unblocked, AsksOf,
     AlreadyDone
<1>28. CASE Reap
  BY <1>28 DEF Reap, Finish, Released, Voided, Unblocked, AsksOf, Disposed, Live
<1>29. CASE Stop
  BY <1>29 DEF Stop, LoseMemory
<1>30. CASE Restart
  BY <1>30 DEF Restart, Released, Orphans
<1>31. CASE VoidInterrupted
  BY <1>31 DEF VoidInterrupted, Voided
<1>32. CASE Listen
  BY <1>32 DEF Listen, AllHandled
<1>33. CASE UNCHANGED vars
  BY <1>33
<1> HIDE DEF TypeOK, Status, ExpectsLiveWorker, Waiting, Terminal
<1> QED
  BY <1>1, <1>2, <1>3, <1>4, <1>5, <1>6, <1>7, <1>8, <1>9, <1>10, <1>11, <1>12, <1>13,
     <1>14, <1>15, <1>16, <1>17, <1>18, <1>19, <1>20, <1>21, <1>22, <1>23, <1>24, <1>25,
     <1>26, <1>27, <1>28, <1>29, <1>30, <1>31, <1>32, <1>33, <1>34 DEF Next

\* Every reachable state is well typed: no handler writes a status, a request state
\* or a queue length that the store and the worker do not know.
THEOREM TypeCorrect == Spec => []TypeOK
<1>1. Init => TypeOK
  BY ConstantsAssumption DEF Init, TypeOK
<1> QED
  BY <1>1, TypeStep, PTL DEF Spec

-----------------------------------------------------------------------------
(* The inductive invariant behind the safety theorems.                     *)

\* Before the port opens nothing is in memory.
MemoryEmpty ==
  phase # "up" =>
    /\ workers = {} /\ waiters = {}
    /\ \A s \in Session : child[s] = "none" /\ recovering[s] = 0

\* Requests are voided late only while starting; a suspended call is about a stored session.
PhasesFit ==
  /\ unvoided # NoSession => phase = "recovering"
  /\ \A c \in Caller : cancelPhase[c] # "idle" =>
       cancelTarget[c] \in Session /\ status[cancelTarget[c]] # "absent"

\* A process without an entry in the map belongs to a finished session.
ProcessesOwned ==
  \A s \in Session : child[s] # "none" => status[s] \in Terminal \/ s \in workers

\* Only a stored session recovers, and nothing runs beside the recovery.
RecoveriesOwned ==
  \A s \in Session : recovering[s] > 0 =>
    status[s] # "absent" /\ s \notin workers /\ child[s] = "none"

\* A lock belongs to an unfinished session of its project.
LocksOwned ==
  \A s \in Session, p \in Project : lock[p] = s =>
    status[s] \in Reapable /\ project[s] = p

\* An unfinished writer holds its lock, unless a kill came before the claim.
LocksHeld ==
  ~TornHandlers =>
    \A s \in Session :
      status[s] \in Reapable /\ NeedsLock(writer[s], project[s]) => lock[project[s]] = s

\* A request shown or waited for was asked by a session that is stored and unfinished.
RequestsOwned ==
  \A r \in Request :
    /\ reqOwner[r] \in Session => status[reqOwner[r]] # "absent"
    /\ reqState[r] = "open" \/ r \in waiters =>
         reqOwner[r] \in Session /\ status[reqOwner[r]] \notin Terminal

IInv ==
  /\ MemoryEmpty /\ PhasesFit /\ StatusIsHonest /\ ProcessesOwned /\ RecoveriesOwned
  /\ LocksOwned /\ LocksHeld /\ RequestsOwned


\* The inductive invariant survives every step.
LEMMA SafetyStep == TypeOK /\ IInv /\ [Next]_vars => IInv'
<1> SUFFICES ASSUME TypeOK, TypeOK', IInv, [Next]_vars PROVE IInv'
  BY TypeStep
<1> USE ConstantsAssumption
    DEF TypeOK, IInv, MemoryEmpty, PhasesFit, StatusIsHonest, ProcessesOwned,
        RecoveriesOwned, LocksOwned, LocksHeld, RequestsOwned, NeedsLock,
        Status, ExpectsLiveWorker, Waiting, Terminal, Reapable, AcceptsInstruction
<1>1. ASSUME NEW s \in Session, NEW w \in BOOLEAN, NEW p \in Project \cup {NoProject},
             StartLaunched(s, w, p)
      PROVE  IInv'
  BY <1>1 DEF StartLaunched, Insert, Taken, Claimed, Moved
<1>2. ASSUME NEW s \in Session, NEW w \in BOOLEAN, NEW p \in Project \cup {NoProject},
             StartRejected(s, w, p)
      PROVE  IInv'
  BY <1>2 DEF StartRejected, Insert, Moved
<1>3. ASSUME NEW s \in Session, NEW w \in BOOLEAN, NEW p \in Project \cup {NoProject},
             StartFailed(s, w, p)
      PROVE  IInv'
  BY <1>3 DEF StartFailed, Insert, Moved
<1>4. ASSUME NEW s \in Session, NEW w \in BOOLEAN, NEW p \in Project \cup {NoProject},
             TornStart(s, w, p)
      PROVE  IInv'
  BY <1>4 DEF TornStart, Insert, Taken, Claimed, Moved, LoseMemory
<1>5. ASSUME NEW s \in Session,
             SendLive(s)
      PROVE  IInv'
  BY <1>5 DEF SendLive, Moved
<1>6. ASSUME NEW s \in Session,
             RecoverBegin(s)
      PROVE  IInv'
  BY <1>6 DEF RecoverBegin, NeedsRecovery
<1>7. ASSUME NEW s \in Session,
             RecoverJoin(s)
      PROVE  IInv'
  BY <1>7 DEF RecoverJoin, NeedsRecovery
<1>8. ASSUME NEW s \in Session,
             RecoverInline(s)
      PROVE  IInv'
  BY <1>8 DEF RecoverInline, NeedsRecovery, Rebuilt, Moved
<1>9. ASSUME NEW s \in Session,
             RecoverDone(s)
      PROVE  IInv'
  BY <1>9 DEF RecoverDone, Rebuilt, Moved
<1>10. ASSUME NEW s \in Session,
             RecoverRefused(s)
      PROVE  IInv'
  BY <1>10 DEF RecoverRefused, RecoverFails
<1>11. ASSUME NEW s \in Session,
             TurnComplete(s)
      PROVE  IInv'
  BY <1>11 DEF TurnComplete, RunsTurn, Settled, Moved
<1>12. ASSUME NEW s \in Session,
             WorkerFails(s)
      PROVE  IInv'
  BY <1>12 DEF WorkerFails, Finish, Released, Voided, Unblocked, AsksOf
<1>13. ASSUME NEW s \in Session,
             WorkerEnds(s)
      PROVE  IInv'
  BY <1>13 DEF WorkerEnds
<1>14. ASSUME NEW s \in Session,
             ChildExit(s)
      PROVE  IInv'
  BY <1>14 DEF ChildExit
<1>15. ASSUME NEW s \in Session,
             Expire(s)
      PROVE  IInv'
  BY <1>15 DEF Expire
<1>16. ASSUME NEW s \in Session,
             TornVoid(s)
      PROVE  IInv'
  BY <1>16 DEF TornVoid, Voided, LoseMemory
<1>17. ASSUME NEW s \in Session,
             MarkInterrupted(s)
      PROVE  IInv'
  BY <1>17 DEF MarkInterrupted, Moved
<1>18. ASSUME NEW s \in Session, NEW need \in Waiting,
             TornAsk(s, need)
      PROVE  IInv'
  BY <1>18 DEF TornAsk, Moved, LoseMemory
<1>19. ASSUME NEW s \in Session, NEW r \in Request, NEW need \in Waiting,
             Ask(s, r, need)
      PROVE  IInv'
  <2>1. status[s] \in Reapable /\ status[s] \notin Terminal /\ s \in workers
    BY <1>19 DEF Ask, RunsTurn, CanTransition, AllowedTransitions
  <2>2. MemoryEmpty' /\ PhasesFit' /\ StatusIsHonest' /\ ProcessesOwned' /\ RecoveriesOwned'
    BY <1>19, <2>1 DEF Ask, Moved
  <2>3. LocksOwned' /\ LocksHeld'
    BY <1>19, <2>1 DEF Ask, Moved
  <2>4. RequestsOwned'
    BY <1>19, <2>1 DEF Ask, Moved
  <2> QED
    BY <2>2, <2>3, <2>4
<1>34. ASSUME NEW s \in Session, NEW need \in Waiting,
             AskRefused(s, need)
      PROVE  IInv'
  BY <1>34 DEF AskRefused
<1>20. ASSUME NEW r \in Request,
             Respond(r)
      PROVE  IInv'
  BY <1>20 DEF Respond, BackToWork, Moved
<1>21. ASSUME NEW r \in Request,
             AskTimeout(r)
      PROVE  IInv'
  BY <1>21 DEF AskTimeout, TimesOut, Voided, BackToWork, Moved
<1>22. ASSUME NEW r \in Request,
             TornRespond(r)
      PROVE  IInv'
  BY <1>22 DEF TornRespond, LoseMemory
<1>23. ASSUME NEW c \in Caller, NEW s \in Session,
             CancelAtOnce(c, s)
      PROVE  IInv'
  BY <1>23 DEF CancelAtOnce, CancelReturns, Finish, Released, Voided, Unblocked, AsksOf,
     AlreadyDone
<1>24. ASSUME NEW c \in Caller, NEW s \in Session,
             CancelInterrupt(c, s)
      PROVE  IInv'
  BY <1>24 DEF CancelInterrupt
<1>25. ASSUME NEW c \in Caller,
             CancelDispose(c)
      PROVE  IInv'
  BY <1>25 DEF CancelDispose, Disposed
<1>26. ASSUME NEW c \in Caller,
             CancelDisposed(c)
      PROVE  IInv'
  BY <1>26 DEF CancelDisposed, CancelReturns, Finish, Released, Voided, Unblocked,
     AsksOf, Disposed, AlreadyDone
<1>27. ASSUME NEW c \in Caller,
             CancelFinish(c)
      PROVE  IInv'
  BY <1>27 DEF CancelFinish, CancelReturns, Finish, Released, Voided, Unblocked, AsksOf,
     AlreadyDone
<1>28. CASE Reap
  BY <1>28 DEF Reap, Finish, Released, Voided, Unblocked, AsksOf, Disposed, Live
<1>29. CASE Stop
  BY <1>29 DEF Stop, LoseMemory
<1>30. CASE Restart
  BY <1>30 DEF Restart, Released, Orphans
<1>31. CASE VoidInterrupted
  BY <1>31 DEF VoidInterrupted, Voided
<1>32. CASE Listen
  BY <1>32 DEF Listen, AllHandled
<1>33. CASE UNCHANGED vars
  BY <1>33
<1> HIDE DEF IInv
<1> QED
  BY <1>1, <1>2, <1>3, <1>4, <1>5, <1>6, <1>7, <1>8, <1>9, <1>10, <1>11, <1>12, <1>13,
     <1>14, <1>15, <1>16, <1>17, <1>18, <1>19, <1>20, <1>21, <1>22, <1>23, <1>24, <1>25,
     <1>26, <1>27, <1>28, <1>29, <1>30, <1>31, <1>32, <1>33, <1>34 DEF Next

\* Every reachable state satisfies the inductive invariant.
LEMMA Invariant == Spec => [](TypeOK /\ IInv)
<1>1. Init => TypeOK /\ IInv
  BY ConstantsAssumption DEF Init, TypeOK, IInv, MemoryEmpty, PhasesFit, StatusIsHonest,
     ProcessesOwned, RecoveriesOwned, LocksOwned, LocksHeld, RequestsOwned, Status,
     ExpectsLiveWorker, Waiting, Terminal, Reapable
<1> QED
  BY <1>1, TypeStep, SafetyStep, PTL DEF Spec

-----------------------------------------------------------------------------
(* The safety theorems.                                                    *)

\* While the port is open, the map of workers and the stored statuses agree.
THEOREM StatusIsHonestTheorem == Spec => []StatusIsHonest
<1>1. IInv => StatusIsHonest
  BY DEF IInv
<1> QED
  BY <1>1, Invariant, PTL

\* A recovery in flight never has a live worker of its session beside it.
THEOREM OneBuildTheorem == Spec => []OneBuildPerSession
<1>1. IInv => OneBuildPerSession
  BY DEF IInv, RecoveriesOwned, OneBuildPerSession
<1> QED
  BY <1>1, Invariant, PTL

\* Unless a kill lands inside startSession, a writer with a worker holds its lock,
\* also after a recovery, which takes none.
THEOREM WriterHoldsLockTheorem ==
  ASSUME ~TornHandlers PROVE Spec => []WriterHoldsLock
<1>1. TypeOK /\ IInv => WriterHoldsLock
  BY DEF TypeOK, IInv, MemoryEmpty, StatusIsHonest, LocksHeld, WriterHoldsLock, Reapable
<1> QED
  BY <1>1, Invariant, PTL

\* Then no two sessions work as writers in one project.
THEOREM OneWriterTheorem ==
  ASSUME ~TornHandlers PROVE Spec => []OneWriterPerProject
<1>1. TypeOK /\ WriterHoldsLock => OneWriterPerProject
  BY DEF TypeOK, WriterHoldsLock, OneWriterPerProject
<1>2. Spec => []WriterHoldsLock
  BY WriterHoldsLockTheorem
<1> QED
  BY <1>1, <1>2, TypeCorrect, PTL

-----------------------------------------------------------------------------
(* Questions.                                                              *)

\* A session shown as waiting stays answerable, or stops waiting.
LEMMA AnswerableStep ==
  TypeOK /\ IInv /\ WaitingIsAnswerable /\ [Next]_vars => WaitingIsAnswerable'
<1> SUFFICES ASSUME TypeOK, TypeOK', IInv, WaitingIsAnswerable, [Next]_vars
             PROVE  WaitingIsAnswerable'
  BY TypeStep
<1> USE ConstantsAssumption
    DEF TypeOK, IInv, MemoryEmpty, PhasesFit, StatusIsHonest, ProcessesOwned,
        RecoveriesOwned, RequestsOwned, WaitingIsAnswerable,
        Status, ExpectsLiveWorker, Waiting, Terminal, Reapable, AcceptsInstruction
<1>1. ASSUME NEW s \in Session, NEW w \in BOOLEAN, NEW p \in Project \cup {NoProject},
             StartLaunched(s, w, p)
      PROVE  WaitingIsAnswerable'
  BY <1>1 DEF StartLaunched, Insert, Taken, Claimed, Moved
<1>2. ASSUME NEW s \in Session, NEW w \in BOOLEAN, NEW p \in Project \cup {NoProject},
             StartRejected(s, w, p)
      PROVE  WaitingIsAnswerable'
  BY <1>2 DEF StartRejected, Insert, Moved
<1>3. ASSUME NEW s \in Session, NEW w \in BOOLEAN, NEW p \in Project \cup {NoProject},
             StartFailed(s, w, p)
      PROVE  WaitingIsAnswerable'
  BY <1>3 DEF StartFailed, Insert, Moved
<1>4. ASSUME NEW s \in Session, NEW w \in BOOLEAN, NEW p \in Project \cup {NoProject},
             TornStart(s, w, p)
      PROVE  WaitingIsAnswerable'
  BY <1>4 DEF TornStart, Insert, Taken, Claimed, Moved, LoseMemory
<1>5. ASSUME NEW s \in Session,
             SendLive(s)
      PROVE  WaitingIsAnswerable'
  BY <1>5 DEF SendLive, Moved
<1>6. ASSUME NEW s \in Session,
             RecoverBegin(s)
      PROVE  WaitingIsAnswerable'
  BY <1>6 DEF RecoverBegin, NeedsRecovery
<1>7. ASSUME NEW s \in Session,
             RecoverJoin(s)
      PROVE  WaitingIsAnswerable'
  BY <1>7 DEF RecoverJoin, NeedsRecovery
<1>8. ASSUME NEW s \in Session,
             RecoverInline(s)
      PROVE  WaitingIsAnswerable'
  BY <1>8 DEF RecoverInline, NeedsRecovery, Rebuilt, Moved
<1>9. ASSUME NEW s \in Session,
             RecoverDone(s)
      PROVE  WaitingIsAnswerable'
  BY <1>9 DEF RecoverDone, Rebuilt, Moved
<1>10. ASSUME NEW s \in Session,
             RecoverRefused(s)
      PROVE  WaitingIsAnswerable'
  BY <1>10 DEF RecoverRefused, RecoverFails
<1>11. ASSUME NEW s \in Session,
             TurnComplete(s)
      PROVE  WaitingIsAnswerable'
  BY <1>11 DEF TurnComplete, RunsTurn, Settled, Moved
<1>12. ASSUME NEW s \in Session,
             WorkerFails(s)
      PROVE  WaitingIsAnswerable'
  BY <1>12 DEF WorkerFails, Finish, Released, Voided, Unblocked, AsksOf
<1>13. ASSUME NEW s \in Session,
             WorkerEnds(s)
      PROVE  WaitingIsAnswerable'
  BY <1>13 DEF WorkerEnds
<1>14. ASSUME NEW s \in Session,
             ChildExit(s)
      PROVE  WaitingIsAnswerable'
  BY <1>14 DEF ChildExit
<1>15. ASSUME NEW s \in Session,
             Expire(s)
      PROVE  WaitingIsAnswerable'
  BY <1>15 DEF Expire
<1>16. ASSUME NEW s \in Session,
             TornVoid(s)
      PROVE  WaitingIsAnswerable'
  BY <1>16 DEF TornVoid, Voided, LoseMemory
<1>17. ASSUME NEW s \in Session,
             MarkInterrupted(s)
      PROVE  WaitingIsAnswerable'
  BY <1>17 DEF MarkInterrupted, Moved
<1>18. ASSUME NEW s \in Session, NEW need \in Waiting,
             TornAsk(s, need)
      PROVE  WaitingIsAnswerable'
  BY <1>18 DEF TornAsk, Moved, LoseMemory
<1>19. ASSUME NEW s \in Session, NEW r \in Request, NEW need \in Waiting,
             Ask(s, r, need)
      PROVE  WaitingIsAnswerable'
  BY <1>19 DEF Ask, RunsTurn, Moved
<1>34. ASSUME NEW s \in Session, NEW need \in Waiting,
             AskRefused(s, need)
      PROVE  WaitingIsAnswerable'
  BY <1>34 DEF AskRefused
<1>20. ASSUME NEW r \in Request,
             Respond(r)
      PROVE  WaitingIsAnswerable'
  BY <1>20 DEF Respond, BackToWork, Moved
<1>21. ASSUME NEW r \in Request,
             AskTimeout(r)
      PROVE  WaitingIsAnswerable'
  BY <1>21 DEF AskTimeout, TimesOut, Voided, BackToWork, Moved
<1>22. ASSUME NEW r \in Request,
             TornRespond(r)
      PROVE  WaitingIsAnswerable'
  BY <1>22 DEF TornRespond, LoseMemory
<1>23. ASSUME NEW c \in Caller, NEW s \in Session,
             CancelAtOnce(c, s)
      PROVE  WaitingIsAnswerable'
  BY <1>23 DEF CancelAtOnce, CancelReturns, Finish, Released, Voided, Unblocked, AsksOf,
     AlreadyDone
<1>24. ASSUME NEW c \in Caller, NEW s \in Session,
             CancelInterrupt(c, s)
      PROVE  WaitingIsAnswerable'
  BY <1>24 DEF CancelInterrupt
<1>25. ASSUME NEW c \in Caller,
             CancelDispose(c)
      PROVE  WaitingIsAnswerable'
  BY <1>25 DEF CancelDispose, Disposed
<1>26. ASSUME NEW c \in Caller,
             CancelDisposed(c)
      PROVE  WaitingIsAnswerable'
  BY <1>26 DEF CancelDisposed, CancelReturns, Finish, Released, Voided, Unblocked,
     AsksOf, Disposed, AlreadyDone
<1>27. ASSUME NEW c \in Caller,
             CancelFinish(c)
      PROVE  WaitingIsAnswerable'
  BY <1>27 DEF CancelFinish, CancelReturns, Finish, Released, Voided, Unblocked, AsksOf,
     AlreadyDone
<1>28. CASE Reap
  BY <1>28 DEF Reap, Finish, Released, Voided, Unblocked, AsksOf, Disposed, Live
<1>29. CASE Stop
  BY <1>29 DEF Stop, LoseMemory
<1>30. CASE Restart
  BY <1>30 DEF Restart, Released, Orphans
<1>31. CASE VoidInterrupted
  BY <1>31 DEF VoidInterrupted, Voided
<1>32. CASE Listen
  BY <1>32 DEF Listen, AllHandled
<1>33. CASE UNCHANGED vars
  BY <1>33
<1> HIDE DEF WaitingIsAnswerable
<1> QED
  BY <1>1, <1>2, <1>3, <1>4, <1>5, <1>6, <1>7, <1>8, <1>9, <1>10, <1>11, <1>12, <1>13,
     <1>14, <1>15, <1>16, <1>17, <1>18, <1>19, <1>20, <1>21, <1>22, <1>23, <1>24, <1>25,
     <1>26, <1>27, <1>28, <1>29, <1>30, <1>31, <1>32, <1>33, <1>34 DEF Next

\* While the port is open, whoever looks at a waiting session finds an open question
\* that its worker is blocked on.
THEOREM WaitingIsAnswerableTheorem == Spec => []WaitingIsAnswerable
<1>1. Init => WaitingIsAnswerable
  BY DEF Init, WaitingIsAnswerable, Waiting
<1> QED
  BY <1>1, Invariant, AnswerableStep, PTL DEF Spec

-----------------------------------------------------------------------------
(* What a step may never do.                                               *)

\* A request leaves "open" once, and never changes hands.
LEMMA SettledOnceStep ==
  ASSUME TypeOK, [Next]_vars, NEW q \in Request, reqState[q] # "unused"
  PROVE  /\ reqOwner'[q] = reqOwner[q]
         /\ reqState[q] # "open" => reqState'[q] = reqState[q]
<1> DEFINE Goal == /\ reqOwner'[q] = reqOwner[q]
                   /\ reqState[q] # "open" => reqState'[q] = reqState[q]
<1> SUFFICES Goal
  OBVIOUS
<1> USE DEF TypeOK
<1>1. ASSUME NEW s \in Session, NEW w \in BOOLEAN, NEW p \in Project \cup {NoProject},
             StartLaunched(s, w, p)
      PROVE  Goal
  BY <1>1 DEF StartLaunched, Insert, Taken, Claimed, Moved
<1>2. ASSUME NEW s \in Session, NEW w \in BOOLEAN, NEW p \in Project \cup {NoProject},
             StartRejected(s, w, p)
      PROVE  Goal
  BY <1>2 DEF StartRejected, Insert, Moved
<1>3. ASSUME NEW s \in Session, NEW w \in BOOLEAN, NEW p \in Project \cup {NoProject},
             StartFailed(s, w, p)
      PROVE  Goal
  BY <1>3 DEF StartFailed, Insert, Moved
<1>4. ASSUME NEW s \in Session, NEW w \in BOOLEAN, NEW p \in Project \cup {NoProject},
             TornStart(s, w, p)
      PROVE  Goal
  BY <1>4 DEF TornStart, Insert, Taken, Claimed, Moved, LoseMemory
<1>5. ASSUME NEW s \in Session,
             SendLive(s)
      PROVE  Goal
  BY <1>5 DEF SendLive, Moved
<1>6. ASSUME NEW s \in Session,
             RecoverBegin(s)
      PROVE  Goal
  BY <1>6 DEF RecoverBegin, NeedsRecovery
<1>7. ASSUME NEW s \in Session,
             RecoverJoin(s)
      PROVE  Goal
  BY <1>7 DEF RecoverJoin, NeedsRecovery
<1>8. ASSUME NEW s \in Session,
             RecoverInline(s)
      PROVE  Goal
  BY <1>8 DEF RecoverInline, NeedsRecovery, Rebuilt, Moved
<1>9. ASSUME NEW s \in Session,
             RecoverDone(s)
      PROVE  Goal
  BY <1>9 DEF RecoverDone, Rebuilt, Moved
<1>10. ASSUME NEW s \in Session,
             RecoverRefused(s)
      PROVE  Goal
  BY <1>10 DEF RecoverRefused, RecoverFails
<1>11. ASSUME NEW s \in Session,
             TurnComplete(s)
      PROVE  Goal
  BY <1>11 DEF TurnComplete, RunsTurn, Settled, Moved
<1>12. ASSUME NEW s \in Session,
             WorkerFails(s)
      PROVE  Goal
  BY <1>12 DEF WorkerFails, Finish, Released, Voided, Unblocked, AsksOf
<1>13. ASSUME NEW s \in Session,
             WorkerEnds(s)
      PROVE  Goal
  BY <1>13 DEF WorkerEnds
<1>14. ASSUME NEW s \in Session,
             ChildExit(s)
      PROVE  Goal
  BY <1>14 DEF ChildExit
<1>15. ASSUME NEW s \in Session,
             Expire(s)
      PROVE  Goal
  BY <1>15 DEF Expire
<1>16. ASSUME NEW s \in Session,
             TornVoid(s)
      PROVE  Goal
  BY <1>16 DEF TornVoid, Voided, LoseMemory
<1>17. ASSUME NEW s \in Session,
             MarkInterrupted(s)
      PROVE  Goal
  BY <1>17 DEF MarkInterrupted, Moved
<1>18. ASSUME NEW s \in Session, NEW need \in Waiting,
             TornAsk(s, need)
      PROVE  Goal
  BY <1>18 DEF TornAsk, Moved, LoseMemory
<1>19. ASSUME NEW s \in Session, NEW r \in Request, NEW need \in Waiting,
             Ask(s, r, need)
      PROVE  Goal
  BY <1>19 DEF Ask, RunsTurn, Moved
<1>34. ASSUME NEW s \in Session, NEW need \in Waiting,
             AskRefused(s, need)
      PROVE  Goal
  BY <1>34 DEF AskRefused
<1>20. ASSUME NEW r \in Request,
             Respond(r)
      PROVE  Goal
  BY <1>20 DEF Respond, BackToWork, Moved
<1>21. ASSUME NEW r \in Request,
             AskTimeout(r)
      PROVE  Goal
  BY <1>21 DEF AskTimeout, TimesOut, Voided, BackToWork, Moved
<1>22. ASSUME NEW r \in Request,
             TornRespond(r)
      PROVE  Goal
  BY <1>22 DEF TornRespond, LoseMemory
<1>23. ASSUME NEW c \in Caller, NEW s \in Session,
             CancelAtOnce(c, s)
      PROVE  Goal
  BY <1>23 DEF CancelAtOnce, CancelReturns, Finish, Released, Voided, Unblocked, AsksOf,
     AlreadyDone
<1>24. ASSUME NEW c \in Caller, NEW s \in Session,
             CancelInterrupt(c, s)
      PROVE  Goal
  BY <1>24 DEF CancelInterrupt
<1>25. ASSUME NEW c \in Caller,
             CancelDispose(c)
      PROVE  Goal
  BY <1>25 DEF CancelDispose, Disposed
<1>26. ASSUME NEW c \in Caller,
             CancelDisposed(c)
      PROVE  Goal
  BY <1>26 DEF CancelDisposed, CancelReturns, Finish, Released, Voided, Unblocked,
     AsksOf, Disposed, AlreadyDone
<1>27. ASSUME NEW c \in Caller,
             CancelFinish(c)
      PROVE  Goal
  BY <1>27 DEF CancelFinish, CancelReturns, Finish, Released, Voided, Unblocked, AsksOf,
     AlreadyDone
<1>28. CASE Reap
  BY <1>28 DEF Reap, Finish, Released, Voided, Unblocked, AsksOf, Disposed, Live
<1>29. CASE Stop
  BY <1>29 DEF Stop, LoseMemory
<1>30. CASE Restart
  BY <1>30 DEF Restart, Released, Orphans
<1>31. CASE VoidInterrupted
  BY <1>31 DEF VoidInterrupted, Voided
<1>32. CASE Listen
  BY <1>32 DEF Listen, AllHandled
<1>33. CASE UNCHANGED vars
  BY <1>33
<1> HIDE DEF Goal, TypeOK
<1> QED
  BY <1>1, <1>2, <1>3, <1>4, <1>5, <1>6, <1>7, <1>8, <1>9, <1>10, <1>11, <1>12, <1>13,
     <1>14, <1>15, <1>16, <1>17, <1>18, <1>19, <1>20, <1>21, <1>22, <1>23, <1>24, <1>25,
     <1>26, <1>27, <1>28, <1>29, <1>30, <1>31, <1>32, <1>33, <1>34 DEF Next

\* No answer is delivered twice or to a void request, no expiry undoes an answer.
THEOREM SettledOnceTheorem == Spec => SettledOnce
<1>1. TypeOK /\ [Next]_vars => [SettlesOnce]_requests
  BY SettledOnceStep DEF SettlesOnce
<1> QED
  BY <1>1, TypeCorrect, PTL DEF Spec, SettledOnce

\* A stored session makes a legal move or none.
LEMMA LegalStep ==
  ASSUME TypeOK, IInv, [Next]_vars, NEW t \in Session, status[t] # "absent"
  PROVE  CanTransition(status[t], status'[t])
<1> DEFINE Goal == CanTransition(status[t], status'[t])
<1> SUFFICES Goal
  OBVIOUS
<1> USE DEF TypeOK, IInv, MemoryEmpty, ProcessesOwned, RecoveriesOwned, RequestsOwned,
        Status, ExpectsLiveWorker, Waiting, Terminal, Reapable, AcceptsInstruction,
        CanTransition, AllowedTransitions
<1>1. ASSUME NEW s \in Session, NEW w \in BOOLEAN, NEW p \in Project \cup {NoProject},
             StartLaunched(s, w, p)
      PROVE  Goal
  BY <1>1 DEF StartLaunched, Insert, Taken, Claimed, Moved
<1>2. ASSUME NEW s \in Session, NEW w \in BOOLEAN, NEW p \in Project \cup {NoProject},
             StartRejected(s, w, p)
      PROVE  Goal
  BY <1>2 DEF StartRejected, Insert, Moved
<1>3. ASSUME NEW s \in Session, NEW w \in BOOLEAN, NEW p \in Project \cup {NoProject},
             StartFailed(s, w, p)
      PROVE  Goal
  BY <1>3 DEF StartFailed, Insert, Moved
<1>4. ASSUME NEW s \in Session, NEW w \in BOOLEAN, NEW p \in Project \cup {NoProject},
             TornStart(s, w, p)
      PROVE  Goal
  BY <1>4 DEF TornStart, Insert, Taken, Claimed, Moved, LoseMemory
<1>5. ASSUME NEW s \in Session,
             SendLive(s)
      PROVE  Goal
  BY <1>5 DEF SendLive, Moved
<1>6. ASSUME NEW s \in Session,
             RecoverBegin(s)
      PROVE  Goal
  BY <1>6 DEF RecoverBegin, NeedsRecovery
<1>7. ASSUME NEW s \in Session,
             RecoverJoin(s)
      PROVE  Goal
  BY <1>7 DEF RecoverJoin, NeedsRecovery
<1>8. ASSUME NEW s \in Session,
             RecoverInline(s)
      PROVE  Goal
  BY <1>8 DEF RecoverInline, NeedsRecovery, Rebuilt, Moved
<1>9. ASSUME NEW s \in Session,
             RecoverDone(s)
      PROVE  Goal
  BY <1>9 DEF RecoverDone, Rebuilt, Moved
<1>10. ASSUME NEW s \in Session,
             RecoverRefused(s)
      PROVE  Goal
  BY <1>10 DEF RecoverRefused, RecoverFails
<1>11. ASSUME NEW s \in Session,
             TurnComplete(s)
      PROVE  Goal
  BY <1>11 DEF TurnComplete, RunsTurn, Settled, Moved
<1>12. ASSUME NEW s \in Session,
             WorkerFails(s)
      PROVE  Goal
  BY <1>12 DEF WorkerFails, Finish, Released, Voided, Unblocked, AsksOf
<1>13. ASSUME NEW s \in Session,
             WorkerEnds(s)
      PROVE  Goal
  BY <1>13 DEF WorkerEnds
<1>14. ASSUME NEW s \in Session,
             ChildExit(s)
      PROVE  Goal
  BY <1>14 DEF ChildExit
<1>15. ASSUME NEW s \in Session,
             Expire(s)
      PROVE  Goal
  BY <1>15 DEF Expire
<1>16. ASSUME NEW s \in Session,
             TornVoid(s)
      PROVE  Goal
  BY <1>16 DEF TornVoid, Voided, LoseMemory
<1>17. ASSUME NEW s \in Session,
             MarkInterrupted(s)
      PROVE  Goal
  BY <1>17 DEF MarkInterrupted, Moved
<1>18. ASSUME NEW s \in Session, NEW need \in Waiting,
             TornAsk(s, need)
      PROVE  Goal
  BY <1>18 DEF TornAsk, Moved, LoseMemory
<1>19. ASSUME NEW s \in Session, NEW r \in Request, NEW need \in Waiting,
             Ask(s, r, need)
      PROVE  Goal
  BY <1>19 DEF Ask, RunsTurn, Moved
<1>34. ASSUME NEW s \in Session, NEW need \in Waiting,
             AskRefused(s, need)
      PROVE  Goal
  BY <1>34 DEF AskRefused
<1>20. ASSUME NEW r \in Request,
             Respond(r)
      PROVE  Goal
  BY <1>20 DEF Respond, BackToWork, Moved
<1>21. ASSUME NEW r \in Request,
             AskTimeout(r)
      PROVE  Goal
  BY <1>21 DEF AskTimeout, TimesOut, Voided, BackToWork, Moved
<1>22. ASSUME NEW r \in Request,
             TornRespond(r)
      PROVE  Goal
  BY <1>22 DEF TornRespond, LoseMemory
<1>23. ASSUME NEW c \in Caller, NEW s \in Session,
             CancelAtOnce(c, s)
      PROVE  Goal
  BY <1>23 DEF CancelAtOnce, CancelReturns, Finish, Released, Voided, Unblocked, AsksOf,
     AlreadyDone
<1>24. ASSUME NEW c \in Caller, NEW s \in Session,
             CancelInterrupt(c, s)
      PROVE  Goal
  BY <1>24 DEF CancelInterrupt
<1>25. ASSUME NEW c \in Caller,
             CancelDispose(c)
      PROVE  Goal
  BY <1>25 DEF CancelDispose, Disposed
<1>26. ASSUME NEW c \in Caller,
             CancelDisposed(c)
      PROVE  Goal
  BY <1>26 DEF CancelDisposed, CancelReturns, Finish, Released, Voided, Unblocked,
     AsksOf, Disposed, AlreadyDone
<1>27. ASSUME NEW c \in Caller,
             CancelFinish(c)
      PROVE  Goal
  BY <1>27 DEF CancelFinish, CancelReturns, Finish, Released, Voided, Unblocked, AsksOf,
     AlreadyDone
<1>28. CASE Reap
  BY <1>28 DEF Reap, Finish, Released, Voided, Unblocked, AsksOf, Disposed, Live
<1>29. CASE Stop
  BY <1>29 DEF Stop, LoseMemory
<1>30. CASE Restart
  BY <1>30 DEF Restart, Released, Orphans
<1>31. CASE VoidInterrupted
  BY <1>31 DEF VoidInterrupted, Voided
<1>32. CASE Listen
  BY <1>32 DEF Listen, AllHandled
<1>33. CASE UNCHANGED vars
  BY <1>33
<1> HIDE DEF Goal, TypeOK
<1> QED
  BY <1>1, <1>2, <1>3, <1>4, <1>5, <1>6, <1>7, <1>8, <1>9, <1>10, <1>11, <1>12, <1>13,
     <1>14, <1>15, <1>16, <1>17, <1>18, <1>19, <1>20, <1>21, <1>22, <1>23, <1>24, <1>25,
     <1>26, <1>27, <1>28, <1>29, <1>30, <1>31, <1>32, <1>33, <1>34 DEF Next

\* No handler but an ask can be refused by setStatus, in any interleaving: what the
\* others write is a legal move already, late reports and cancels included.
THEOREM LegalMovesTheorem == Spec => LegalMoves
<1>1. TypeOK /\ IInv /\ [Next]_vars => [LegalMove]_status
  BY LegalStep DEF LegalMove
<1> QED
  BY <1>1, Invariant, PTL DEF Spec, LegalMoves

-----------------------------------------------------------------------------
(* Calls and questions in flight.                                          *)

\* A client's cancel is about a session exactly while it is suspended.
CallsNamed ==
  \A c \in Caller : cancelPhase[c] = "idle" <=> cancelTarget[c] = NoSession

\* What takes instructions is in the map; a process told to stop belongs to a session
\* that failed, or a cancel waits for it.
DisposalsAwaited ==
  \A s \in Session :
    /\ child[s] \in {"running", "ended"} => s \in workers
    /\ child[s] = "disposed" =>
         \/ status[s] \in Terminal \ {"cancelled"}
         \/ \E c \in Caller : cancelPhase[c] = "disposing" /\ cancelTarget[c] = s

\* One client alone never waits for the process of a session it has cancelled before.
OneCancels ==
  (\A c, d \in Caller : c = d) =>
    \A c \in Caller : cancelPhase[c] = "disposing" => status[cancelTarget[c]] # "cancelled"

\* Every open question has its waiter while the port is open, and before that a session
\* whose turn to be interrupted is still to come.
QuestionsAttended ==
  ~TornHandlers =>
    /\ OpenHasWaiter
    /\ \A r \in Request : reqState[r] = "open" =>
         status[reqOwner[r]] \in ExpectsLiveWorker \/ reqOwner[r] = unvoided

\* A suspended cancel is about a session with its entry, or about a finished one.
CancelsAttached ==
  \A c \in Caller : cancelPhase[c] # "idle" =>
    phase = "up" /\ (cancelTarget[c] \in workers \/ status[cancelTarget[c]] \in Terminal)

CallsInv ==
  CallsNamed /\ DisposalsAwaited /\ OneCancels /\ QuestionsAttended /\ CancelsAttached

\* They hold on through every step, beside the inductive invariant.
LEMMA CallsStep == TypeOK /\ IInv /\ CallsInv /\ [Next]_vars => CallsInv'
<1> SUFFICES ASSUME TypeOK, TypeOK', IInv, IInv', CallsInv, [Next]_vars PROVE CallsInv'
  BY TypeStep, SafetyStep
<1> USE ConstantsAssumption
    DEF TypeOK, IInv, MemoryEmpty, PhasesFit, StatusIsHonest, ProcessesOwned,
        RecoveriesOwned, RequestsOwned, Status, ExpectsLiveWorker, Waiting, Terminal,
        Reapable, AcceptsInstruction, CallsInv, CallsNamed, DisposalsAwaited, OneCancels,
        QuestionsAttended, OpenHasWaiter, CancelsAttached
<1>1. ASSUME NEW s \in Session, NEW w \in BOOLEAN, NEW p \in Project \cup {NoProject},
             StartLaunched(s, w, p)
      PROVE  CallsInv'
  BY <1>1 DEF StartLaunched, Insert, Taken, Claimed, Moved
<1>2. ASSUME NEW s \in Session, NEW w \in BOOLEAN, NEW p \in Project \cup {NoProject},
             StartRejected(s, w, p)
      PROVE  CallsInv'
  BY <1>2 DEF StartRejected, Insert, Moved
<1>3. ASSUME NEW s \in Session, NEW w \in BOOLEAN, NEW p \in Project \cup {NoProject},
             StartFailed(s, w, p)
      PROVE  CallsInv'
  BY <1>3 DEF StartFailed, Insert, Moved
<1>4. ASSUME NEW s \in Session, NEW w \in BOOLEAN, NEW p \in Project \cup {NoProject},
             TornStart(s, w, p)
      PROVE  CallsInv'
  BY <1>4 DEF TornStart, Insert, Taken, Claimed, Moved, LoseMemory
<1>5. ASSUME NEW s \in Session,
             SendLive(s)
      PROVE  CallsInv'
  BY <1>5 DEF SendLive, Moved
<1>6. ASSUME NEW s \in Session,
             RecoverBegin(s)
      PROVE  CallsInv'
  BY <1>6 DEF RecoverBegin, NeedsRecovery
<1>7. ASSUME NEW s \in Session,
             RecoverJoin(s)
      PROVE  CallsInv'
  BY <1>7 DEF RecoverJoin, NeedsRecovery
<1>8. ASSUME NEW s \in Session,
             RecoverInline(s)
      PROVE  CallsInv'
  BY <1>8 DEF RecoverInline, NeedsRecovery, Rebuilt, Moved
<1>9. ASSUME NEW s \in Session,
             RecoverDone(s)
      PROVE  CallsInv'
  BY <1>9 DEF RecoverDone, Rebuilt, Moved
<1>10. ASSUME NEW s \in Session,
             RecoverRefused(s)
      PROVE  CallsInv'
  BY <1>10 DEF RecoverRefused, RecoverFails
<1>11. ASSUME NEW s \in Session,
             TurnComplete(s)
      PROVE  CallsInv'
  BY <1>11 DEF TurnComplete, RunsTurn, Settled, Moved
<1>12. ASSUME NEW s \in Session,
             WorkerFails(s)
      PROVE  CallsInv'
  BY <1>12 DEF WorkerFails, Finish, Released, Voided, Unblocked, AsksOf
<1>13. ASSUME NEW s \in Session,
             WorkerEnds(s)
      PROVE  CallsInv'
  BY <1>13 DEF WorkerEnds
<1>14. ASSUME NEW s \in Session,
             ChildExit(s)
      PROVE  CallsInv'
  BY <1>14 DEF ChildExit
<1>15. ASSUME NEW s \in Session,
             Expire(s)
      PROVE  CallsInv'
  BY <1>15 DEF Expire
<1>16. ASSUME NEW s \in Session,
             TornVoid(s)
      PROVE  CallsInv'
  BY <1>16 DEF TornVoid, Voided, LoseMemory
<1>17. ASSUME NEW s \in Session,
             MarkInterrupted(s)
      PROVE  CallsInv'
  BY <1>17 DEF MarkInterrupted, Moved
<1>18. ASSUME NEW s \in Session, NEW need \in Waiting,
             TornAsk(s, need)
      PROVE  CallsInv'
  BY <1>18 DEF TornAsk, Moved, LoseMemory
<1>19. ASSUME NEW s \in Session, NEW r \in Request, NEW need \in Waiting,
             Ask(s, r, need)
      PROVE  CallsInv'
  <2>2. CallsNamed' /\ DisposalsAwaited' /\ OneCancels'
    BY <1>19 DEF Ask, Moved
  <2>3. QuestionsAttended'
    BY <1>19 DEF Ask, Moved
  <2>4. CancelsAttached'
    BY <1>19, ConstantsAssumption DEF Ask, Moved, CanTransition, AllowedTransitions
  <2> QED
    BY <2>2, <2>3, <2>4
<1>34. ASSUME NEW s \in Session, NEW need \in Waiting,
             AskRefused(s, need)
      PROVE  CallsInv'
  BY <1>34 DEF AskRefused
<1>20. ASSUME NEW r \in Request,
             Respond(r)
      PROVE  CallsInv'
  BY <1>20 DEF Respond, BackToWork, Moved
<1>21. ASSUME NEW r \in Request,
             AskTimeout(r)
      PROVE  CallsInv'
  BY <1>21 DEF AskTimeout, TimesOut, Voided, BackToWork, Moved
<1>22. ASSUME NEW r \in Request,
             TornRespond(r)
      PROVE  CallsInv'
  BY <1>22 DEF TornRespond, LoseMemory
<1>23. ASSUME NEW c \in Caller, NEW s \in Session,
             CancelAtOnce(c, s)
      PROVE  CallsInv'
  BY <1>23 DEF CancelAtOnce, CancelReturns, Finish, Released, Voided, Unblocked, AsksOf,
     AlreadyDone
<1>24. ASSUME NEW c \in Caller, NEW s \in Session,
             CancelInterrupt(c, s)
      PROVE  CallsInv'
  BY <1>24 DEF CancelInterrupt
<1>25. ASSUME NEW c \in Caller,
             CancelDispose(c)
      PROVE  CallsInv'
  BY <1>25 DEF CancelDispose, Disposed
<1>26. ASSUME NEW c \in Caller,
             CancelDisposed(c)
      PROVE  CallsInv'
  <2> HIDE DEF IInv, MemoryEmpty, PhasesFit, StatusIsHonest, ProcessesOwned, RecoveriesOwned,
               RequestsOwned
  <2> USE <1>26 DEF CancelDisposed, CancelReturns, NothingToAwait, Finish
  <2>1. CallsNamed'
    OBVIOUS
  <2>2. DisposalsAwaited'
    BY DEF Disposed, AlreadyDone
  <2>3. OneCancels'
    BY DEF AlreadyDone
  <2>4. QuestionsAttended'
    BY DEF IInv, RequestsOwned, Voided, Unblocked, AsksOf, AlreadyDone
  <2>5. CancelsAttached'
    BY DEF IInv, PhasesFit, AlreadyDone
  <2> QED
    BY <2>1, <2>2, <2>3, <2>4, <2>5
<1>27. ASSUME NEW c \in Caller,
             CancelFinish(c)
      PROVE  CallsInv'
  BY <1>27 DEF CancelFinish, CancelReturns, Finish, Released, Voided, Unblocked, AsksOf,
     AlreadyDone
<1>28. CASE Reap
  <2> HIDE DEF IInv, MemoryEmpty, PhasesFit, StatusIsHonest, ProcessesOwned, RecoveriesOwned,
               RequestsOwned
  <2> USE <1>28 DEF Reap, Finish, Live
  <2>1. CallsNamed'
    OBVIOUS
  <2>2. DisposalsAwaited'
    BY DEF Disposed
  <2>3. OneCancels'
    OBVIOUS
  <2>4. QuestionsAttended'
    BY DEF IInv, RequestsOwned, Voided, Unblocked, AsksOf
  <2>5. CancelsAttached'
    BY DEF IInv, PhasesFit
  <2> QED
    BY <2>1, <2>2, <2>3, <2>4, <2>5
<1>29. CASE Stop
  BY <1>29 DEF Stop, LoseMemory
<1>30. CASE Restart
  BY <1>30 DEF Restart, Released, Orphans
<1>31. CASE VoidInterrupted
  BY <1>31 DEF VoidInterrupted, Voided
<1>32. CASE Listen
  BY <1>32 DEF Listen, AllHandled
<1>33. CASE UNCHANGED vars
  BY <1>33
<1> HIDE DEF CallsInv
<1> QED
  BY <1>1, <1>2, <1>3, <1>4, <1>5, <1>6, <1>7, <1>8, <1>9, <1>10, <1>11, <1>12, <1>13,
     <1>14, <1>15, <1>16, <1>17, <1>18, <1>19, <1>20, <1>21, <1>22, <1>23, <1>24, <1>25,
     <1>26, <1>27, <1>28, <1>29, <1>30, <1>31, <1>32, <1>33, <1>34 DEF Next

\* Every reachable state satisfies them.
LEMMA CallsInvariant == Spec => [](TypeOK /\ IInv /\ CallsInv)
<1>1. Init => CallsInv
  BY ConstantsAssumption DEF Init, CallsInv, CallsNamed, DisposalsAwaited, OneCancels,
     QuestionsAttended, OpenHasWaiter, CancelsAttached
<1> QED
  BY <1>1, Invariant, CallsStep, PTL DEF Spec

\* An answer that respond accepts reaches a worker that is blocked on it, in every
\* interleaving of questions, timers, cancels, failures and restarts, unless a kill lands
\* inside a handler.
THEOREM OpenHasWaiterTheorem ==
  ASSUME ~TornHandlers PROVE Spec => []OpenHasWaiter
<1>1. CallsInv => OpenHasWaiter
  BY DEF CallsInv, QuestionsAttended
<1> QED
  BY <1>1, CallsInvariant, PTL

\* Whatever ends a session (cancel, a failure, the reaper) and whatever was in flight,
\* its locks, questions and map entry go with it, and its process was told to stop.
THEOREM FinishedLeavesNothingTheorem == Spec => []FinishedLeavesNothing
<1>1. TypeOK /\ IInv /\ CallsInv => FinishedLeavesNothing
  <2> SUFFICES ASSUME TypeOK, IInv, CallsInv, NEW s \in Session, status[s] \in Terminal
      PROVE  /\ \A p \in Project : lock[p] # s
             /\ \A r \in Request : reqOwner[r] = s => reqState[r] # "open" /\ r \notin waiters
             /\ s \notin workers /\ child[s] \notin {"running", "ended"}
    BY DEF FinishedLeavesNothing
  <2>1. s \notin workers
    BY DEF TypeOK, IInv, MemoryEmpty, StatusIsHonest, Terminal, ExpectsLiveWorker, Waiting
  <2>2. /\ \A p \in Project : lock[p] # s
        /\ \A r \in Request : reqOwner[r] = s => reqState[r] # "open" /\ r \notin waiters
    BY ConstantsAssumption DEF TypeOK, IInv, MemoryEmpty, LocksOwned, RequestsOwned, Terminal,
       Reapable, ExpectsLiveWorker, Waiting
  <2>3. child[s] \notin {"running", "ended"}
    BY <2>1 DEF CallsInv, DisposalsAwaited
  <2> QED
    BY <2>1, <2>2, <2>3
<1> QED
  BY <1>1, CallsInvariant, PTL

\* However many clients cancel, the process of a cancelled session that has not gone has
\* a cancel call that still waits for it.
THEOREM StoppedIsAwaitedTheorem ==
  Spec => [](\A s \in Session : status[s] = "cancelled" /\ child[s] # "none" =>
               \E c \in Caller : cancelPhase[c] = "disposing" /\ cancelTarget[c] = s)
<1> DEFINE Awaited ==
      \A s \in Session : status[s] = "cancelled" /\ child[s] # "none" =>
        \E c \in Caller : cancelPhase[c] = "disposing" /\ cancelTarget[c] = s
<1>1. TypeOK /\ IInv /\ CallsInv => Awaited
  BY DEF TypeOK, IInv, MemoryEmpty, StatusIsHonest, CallsInv, DisposalsAwaited,
     ExpectsLiveWorker, Waiting
<1> QED
  BY <1>1, CallsInvariant, PTL

\* So with one client, a session reported as cancelled has no process left; with two, the
\* run sessions_two_cancels shows that it may.
THEOREM StoppedMeansGoneTheorem ==
  ASSUME \A c, d \in Caller : c = d PROVE Spec => []StoppedMeansGone
<1>1. TypeOK /\ IInv /\ CallsInv => StoppedMeansGone
  BY DEF TypeOK, IInv, MemoryEmpty, StatusIsHonest, CallsInv, DisposalsAwaited, OneCancels,
     StoppedMeansGone, ExpectsLiveWorker, Waiting
<1> QED
  BY <1>1, CallsInvariant, PTL

\* The entries that a step adds to the map of workers.
LEMMA EntriesMade ==
  ASSUME [Next]_vars, NEW t \in Session, t \notin workers, t \in workers'
  PROVE  \/ status[t] = "absent"
         \/ phase = "up" /\ status[t] \in AcceptsInstruction
         \/ recovering[t] > 0 /\ status[t] \notin Terminal
<1> DEFINE Made == \/ status[t] = "absent"
                   \/ phase = "up" /\ status[t] \in AcceptsInstruction
                   \/ recovering[t] > 0 /\ status[t] \notin Terminal
<1>1. ASSUME NEW s \in Session, NEW w \in BOOLEAN, NEW p \in Project \cup {NoProject},
             \/ StartLaunched(s, w, p) \/ StartRejected(s, w, p) \/ StartFailed(s, w, p)
             \/ TornStart(s, w, p)
      PROVE  Made
  BY <1>1 DEF StartLaunched, StartRejected, StartFailed, TornStart, Insert, LoseMemory
<1>2. ASSUME NEW s \in Session, RecoverInline(s) \/ RecoverDone(s)
      PROVE  Made
  BY <1>2 DEF RecoverInline, NeedsRecovery, RecoverDone, Rebuilt
<1>3. ASSUME NEW s \in Session,
             \/ SendLive(s) \/ RecoverBegin(s) \/ RecoverJoin(s) \/ RecoverRefused(s)
             \/ TurnComplete(s) \/ WorkerFails(s) \/ WorkerEnds(s) \/ ChildExit(s)
             \/ Expire(s) \/ TornVoid(s) \/ MarkInterrupted(s)
      PROVE  FALSE
  BY <1>3 DEF SendLive, RecoverBegin, RecoverJoin, RecoverRefused, RecoverFails,
     TurnComplete, WorkerFails, WorkerEnds, ChildExit, Expire, TornVoid, MarkInterrupted,
     LoseMemory
<1>4. ASSUME NEW s \in Session, NEW need \in Waiting,
             TornAsk(s, need) \/ AskRefused(s, need) \/ \E r \in Request : Ask(s, r, need)
      PROVE  FALSE
  BY <1>4 DEF TornAsk, AskRefused, Ask, LoseMemory
<1>5. ASSUME NEW r \in Request, Respond(r) \/ AskTimeout(r) \/ TornRespond(r)
      PROVE  FALSE
  BY <1>5 DEF Respond, AskTimeout, TornRespond, LoseMemory
<1>6. ASSUME NEW c \in Caller,
             \/ \E s \in Session : CancelAtOnce(c, s) \/ CancelInterrupt(c, s)
             \/ CancelDispose(c) \/ CancelDisposed(c) \/ CancelFinish(c)
      PROVE  FALSE
  BY <1>6 DEF CancelAtOnce, CancelInterrupt, CancelDispose, CancelDisposed, CancelFinish,
     CancelReturns
<1>7. ASSUME Reap \/ Stop \/ Restart \/ VoidInterrupted \/ Listen
      PROVE  FALSE
  BY <1>7 DEF Reap, Stop, LoseMemory, Restart, VoidInterrupted, Listen
<1>8. CASE UNCHANGED vars
  BY <1>8
<1> QED
  BY <1>1, <1>2, <1>3, <1>4, <1>5, <1>6, <1>7, <1>8, Zenon DEF Next

\* While a cancel call is suspended, its session gets no new worker, whatever
\* instructions, failures, recoveries and other cancels come in between: it keeps the entry
\* that the cancel found, or it is finished.
THEOREM StopIsFinalTheorem == Spec => StopIsFinal
<1> DEFINE Final ==
      \A c \in Caller :
        LET s == cancelTarget[c] IN s # NoSession /\ s \notin workers => s \notin workers'
<1>1. TypeOK /\ IInv /\ CallsInv /\ [Next]_vars => [Final]_workers
  <2> SUFFICES ASSUME TypeOK, IInv, CallsInv, [Next]_vars,
                      NEW c \in Caller, cancelTarget[c] # NoSession,
                      cancelTarget[c] \notin workers, cancelTarget[c] \in workers'
               PROVE  FALSE
    OBVIOUS
  <2>1. cancelPhase[c] # "idle" /\ cancelTarget[c] \in Session
    BY DEF CallsInv, CallsNamed, TypeOK
  <2>2. status[cancelTarget[c]] \in Terminal
    BY <2>1 DEF CallsInv, CancelsAttached
  <2> QED
    BY <2>1, <2>2, EntriesMade DEF Terminal, AcceptsInstruction, Waiting
<1> QED
  BY <1>1, CallsInvariant, PTL DEF Spec, StopIsFinal
=============================================================================
