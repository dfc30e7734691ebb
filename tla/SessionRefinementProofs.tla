---------------------- MODULE SessionRefinementProofs ----------------------
(***************************************************************************)
(* The work sessions implement ExclusiveProjects, unless a kill lands      *)
(* inside a turn: a start opens a session with its project, a recovery     *)
(* resumes it, a stop pauses all of them, and only the end of a session    *)
(* frees its project.  Everything else is a stutter.                       *)
(***************************************************************************)
EXTENDS SessionManagerProofs

USE DEF vars, store, memory, process, rows, requests, cancels

\* Before the first session every life is new and every project free.
LEMMA RefinementInit == Init => Abstract!Init
<1> SUFFICES ASSUME Init PROVE Abstract!Init
  OBVIOUS
<1>1. \A s \in Session : Life(s) = "new" /\ Target(s) = NoProject
  BY ConstantsAssumption DEF Init, Life, Target, NeedsLock, Terminal
<1> QED
  BY <1>1 DEF Init, Abstract!Init

-----------------------------------------------------------------------------
(* The abstract steps, read off the statuses, the locks and the map.       *)

SameLives == \A t \in Session : Life(t)' = Life(t)

SameTargets == \A t \in Session : Target(t)' = Target(t)

Stutters == SameLives /\ SameTargets /\ lock' = lock /\ workers' = workers

Opens(s, p) ==
  /\ Life(s) = "new"
  /\ p \in Project => lock[p] = NoSession
  /\ \A t \in Session : Life(t)' = IF t = s THEN "open" ELSE Life(t)
  /\ \A t \in Session : Target(t)' = IF t = s THEN p ELSE Target(t)
  /\ lock' = [q \in Project |-> IF q = p THEN s ELSE lock[q]]
  /\ workers' = workers \cup {s}

Refuses(s, p) ==
  /\ Life(s) = "new"
  /\ \A t \in Session : Life(t)' = IF t = s THEN "closed" ELSE Life(t)
  /\ \A t \in Session : Target(t)' = IF t = s THEN p ELSE Target(t)
  /\ lock' = lock /\ workers' = workers

Resumes(s) ==
  /\ Life(s) = "open"
  /\ SameLives /\ SameTargets /\ lock' = lock
  /\ workers' = workers \cup {s}

Pauses == SameLives /\ SameTargets /\ lock' = lock /\ workers' = {}

Closes(S) ==
  /\ \A t \in S : Life(t) = "open"
  /\ \A t \in Session : Life(t)' = IF t \in S THEN "closed" ELSE Life(t)
  /\ SameTargets
  /\ lock' = Released(S)
  /\ workers' = workers \ S

Effect ==
  \/ Stutters \/ Pauses
  \/ \E s \in Session : Resumes(s)
  \/ \E s \in Session, p \in Project \cup {NoProject} : Opens(s, p) \/ Refuses(s, p)
  \/ \E S \in SUBSET Session : Closes(S)

\* Each of these effects is a step of the abstract specification.
LEMMA EffectIsAbstractStep ==
  TypeOK /\ Effect => [Abstract!Next]_(Abstract!vars)
<1> SUFFICES ASSUME TypeOK, Effect PROVE [Abstract!Next]_(Abstract!vars)
  OBVIOUS
<1> USE DEF SameLives, SameTargets
<1>1. CASE Stutters
  BY <1>1 DEF Stutters, Abstract!vars
<1>2. CASE Pauses
  <2>1. Abstract!Pause
    BY <1>2 DEF Pauses, Abstract!Pause
  <2> QED
    BY <2>1 DEF Abstract!Next
<1>3. ASSUME NEW s \in Session, Resumes(s) PROVE Abstract!Next
  <2>1. Abstract!Resume(s)
    BY <1>3 DEF Resumes, Abstract!Resume
  <2> QED
    BY <2>1 DEF Abstract!Next
<1>4. ASSUME NEW s \in Session, NEW p \in Project \cup {NoProject}, Opens(s, p)
      PROVE  Abstract!Next
  <2>1. Abstract!Open(s, p)
    BY <1>4 DEF Opens, Abstract!Open
  <2> QED
    BY <2>1 DEF Abstract!Next
<1>5. ASSUME NEW s \in Session, NEW p \in Project \cup {NoProject}, Refuses(s, p)
      PROVE  Abstract!Next
  <2>1. Abstract!Refuse(s, p)
    BY <1>5 DEF Refuses, Abstract!Refuse
  <2> QED
    BY <2>1 DEF Abstract!Next
<1>6. ASSUME NEW S \in SUBSET Session, Closes(S) PROVE Abstract!Next
  <2>1. Abstract!Close(S)
    BY <1>6 DEF Closes, Released, Abstract!Close
  <2> QED
    BY <2>1 DEF Abstract!Next
<1> QED
  BY <1>1, <1>2, <1>3, <1>4, <1>5, <1>6 DEF Effect

-----------------------------------------------------------------------------
(* Every step of the code is one of them.                                  *)

\* An update of a function, written point by point.
LEMMA UpdateIsFunction ==
  ASSUME NEW S, NEW f, DOMAIN f = S, NEW x \in S, NEW y,
         f = [z \in S |-> f[z]]
  PROVE  [f EXCEPT ![x] = y] = [z \in S |-> IF z = x THEN y ELSE f[z]]
OBVIOUS

\* Unless a kill lands inside it, every handler has one of these effects.
LEMMA RefinementStep ==
  ASSUME ~TornHandlers, TypeOK, TypeOK', IInv, IInv', [Next]_vars
  PROVE  Effect
<1> USE ConstantsAssumption
    DEF TypeOK, IInv, MemoryEmpty, PhasesFit, StatusIsHonest, ProcessesOwned,
        RecoveriesOwned, LocksOwned, RequestsOwned, NeedsLock,
        Status, ExpectsLiveWorker, Waiting, Terminal, Reapable, AcceptsInstruction
<1>1. ASSUME NEW s \in Session, NEW w \in BOOLEAN, NEW p \in Project \cup {NoProject},
             StartLaunched(s, w, p)
      PROVE  Effect
  <2> DEFINE q == IF NeedsLock(w, p) THEN p ELSE NoProject
  <2>1. Life(s) = "new" /\ (q \in Project => lock[q] = NoSession)
    BY <1>1 DEF StartLaunched, Insert, Taken, Life
  <2>2. \A t \in Session : Life(t)' = IF t = s THEN "open" ELSE Life(t)
    BY <1>1 DEF StartLaunched, Moved, Life
  <2>3. \A t \in Session : Target(t)' = IF t = s THEN q ELSE Target(t)
    BY <1>1 DEF StartLaunched, Insert, Target
  <2>4. lock' = [r \in Project |-> IF r = q THEN s ELSE lock[r]]
    <3>1. CASE NeedsLock(w, p)
      <4>1. p \in Project /\ lock' = [lock EXCEPT ![p] = s]
        BY <1>1, <3>1 DEF StartLaunched, Claimed
      <4>2. q = p
        BY <3>1
      <4>3. DOMAIN lock = Project /\ lock = [z \in Project |-> lock[z]]
        OBVIOUS
      <4> HIDE DEF q, TypeOK, IInv
      <4> QED
        BY <4>1, <4>2, <4>3, UpdateIsFunction
    <3>2. CASE ~NeedsLock(w, p)
      <4>1. q = NoProject /\ lock' = lock
        BY <1>1, <3>2 DEF StartLaunched, Claimed
      <4> HIDE DEF q
      <4> QED
        BY <4>1
    <3> QED
      BY <3>1, <3>2
  <2>5. q \in Project \cup {NoProject} /\ workers' = workers \cup {s}
    BY <1>1 DEF StartLaunched
  <2> HIDE DEF q
  <2>6. Opens(s, q)
    BY <2>1, <2>2, <2>3, <2>4, <2>5 DEF Opens
  <2> QED
    BY <2>5, <2>6 DEF Effect
<1>2. ASSUME NEW s \in Session, NEW w \in BOOLEAN, NEW p \in Project \cup {NoProject},
             StartRejected(s, w, p)
      PROVE  Effect
  <2>1. Refuses(s, IF NeedsLock(w, p) THEN p ELSE NoProject)
    BY <1>2 DEF StartRejected, Insert, Moved, Refuses, Life, Target, SameLives,
       SameTargets
  <2> QED
    BY <2>1 DEF Effect
<1>3. ASSUME NEW s \in Session, NEW w \in BOOLEAN, NEW p \in Project \cup {NoProject},
             StartFailed(s, w, p)
      PROVE  Effect
  <2>1. Refuses(s, IF NeedsLock(w, p) THEN p ELSE NoProject)
    BY <1>3 DEF StartFailed, Insert, Moved, Refuses, Life, Target, SameLives, SameTargets
  <2> QED
    BY <2>1 DEF Effect
<1>4. ASSUME NEW s \in Session, NEW w \in BOOLEAN, NEW p \in Project \cup {NoProject},
             TornStart(s, w, p)
      PROVE  Effect
  BY <1>4 DEF TornStart
<1>5. ASSUME NEW s \in Session,
             SendLive(s)
      PROVE  Effect
  <2>1. Stutters
    BY <1>5 DEF SendLive, Moved, Stutters, Life, Target, SameLives, SameTargets
  <2> QED
    BY <2>1 DEF Effect
<1>6. ASSUME NEW s \in Session,
             RecoverBegin(s)
      PROVE  Effect
  <2>1. Stutters
    BY <1>6 DEF RecoverBegin, NeedsRecovery, Stutters, Life, Target, SameLives,
       SameTargets
  <2> QED
    BY <2>1 DEF Effect
<1>7. ASSUME NEW s \in Session,
             RecoverJoin(s)
      PROVE  Effect
  <2>1. Stutters
    BY <1>7 DEF RecoverJoin, NeedsRecovery, Stutters, Life, Target, SameLives, SameTargets
  <2> QED
    BY <2>1 DEF Effect
<1>8. ASSUME NEW s \in Session,
             RecoverInline(s)
      PROVE  Effect
  <2>1. Resumes(s)
    BY <1>8 DEF RecoverInline, NeedsRecovery, Rebuilt, Moved, Resumes, Life, Target,
       SameLives, SameTargets
  <2> QED
    BY <2>1 DEF Effect
<1>9. ASSUME NEW s \in Session,
             RecoverDone(s)
      PROVE  Effect
  <2>1. Resumes(s)
    BY <1>9 DEF RecoverDone, Rebuilt, Moved, Resumes, Life, Target, SameLives, SameTargets
  <2> QED
    BY <2>1 DEF Effect
<1>10. ASSUME NEW s \in Session,
             RecoverRefused(s)
      PROVE  Effect
  <2>1. Stutters
    BY <1>10 DEF RecoverRefused, RecoverFails, Stutters, Life, Target, SameLives,
       SameTargets
  <2> QED
    BY <2>1 DEF Effect
<1>11. ASSUME NEW s \in Session,
             TurnComplete(s)
      PROVE  Effect
  <2>1. Stutters
    BY <1>11 DEF TurnComplete, RunsTurn, Settled, Moved, Stutters, Life, Target,
       SameLives, SameTargets
  <2> QED
    BY <2>1 DEF Effect
<1>12. ASSUME NEW s \in Session,
             WorkerFails(s)
      PROVE  Effect
  <2>1. Closes({s})
    BY <1>12 DEF WorkerFails, Finish, Closes, Life, Target, SameLives, SameTargets
  <2> QED
    BY <2>1 DEF Effect
<1>13. ASSUME NEW s \in Session,
             WorkerEnds(s)
      PROVE  Effect
  <2>1. Stutters
    BY <1>13 DEF WorkerEnds, Stutters, Life, Target, SameLives, SameTargets
  <2> QED
    BY <2>1 DEF Effect
<1>14. ASSUME NEW s \in Session,
             ChildExit(s)
      PROVE  Effect
  <2>1. Stutters
    BY <1>14 DEF ChildExit, Stutters, Life, Target, SameLives, SameTargets
  <2> QED
    BY <2>1 DEF Effect
<1>15. ASSUME NEW s \in Session,
             Expire(s)
      PROVE  Effect
  <2>1. Stutters
    BY <1>15 DEF Expire, Stutters, Life, Target, SameLives, SameTargets
  <2> QED
    BY <2>1 DEF Effect
<1>16. ASSUME NEW s \in Session,
             TornVoid(s)
      PROVE  Effect
  <2>1. Pauses
    BY <1>16 DEF TornVoid, LoseMemory, Pauses, Life, Target, SameLives, SameTargets
  <2> QED
    BY <2>1 DEF Effect
<1>17. ASSUME NEW s \in Session,
             MarkInterrupted(s)
      PROVE  Effect
  <2>1. Stutters
    BY <1>17 DEF MarkInterrupted, Moved, Stutters, Life, Target, SameLives, SameTargets
  <2> QED
    BY <2>1 DEF Effect
<1>18. ASSUME NEW s \in Session, NEW need \in Waiting,
             TornAsk(s, need)
      PROVE  Effect
  <2>1. Pauses
    BY <1>18 DEF TornAsk, Moved, LoseMemory, Pauses, Life, Target, SameLives, SameTargets
  <2> QED
    BY <2>1 DEF Effect
<1>19. ASSUME NEW s \in Session, NEW r \in Request, NEW need \in Waiting,
             Ask(s, r, need)
      PROVE  Effect
  <2>1. Stutters
    BY <1>19 DEF Ask, RunsTurn, Moved, CanTransition, AllowedTransitions, Stutters, Life,
       Target, SameLives, SameTargets
  <2> QED
    BY <2>1 DEF Effect
<1>34. ASSUME NEW s \in Session, NEW need \in Waiting,
             AskRefused(s, need)
      PROVE  Effect
  <2>1. Stutters
    BY <1>34 DEF AskRefused, Stutters, Life, Target, SameLives, SameTargets
  <2> QED
    BY <2>1 DEF Effect
<1>20. ASSUME NEW r \in Request,
             Respond(r)
      PROVE  Effect
  <2>1. Stutters
    BY <1>20 DEF Respond, BackToWork, Moved, Stutters, Life, Target, SameLives,
       SameTargets
  <2> QED
    BY <2>1 DEF Effect
<1>21. ASSUME NEW r \in Request,
             AskTimeout(r)
      PROVE  Effect
  <2>1. Stutters
    BY <1>21 DEF AskTimeout, TimesOut, BackToWork, Moved, Stutters, Life, Target,
       SameLives, SameTargets
  <2> QED
    BY <2>1 DEF Effect
<1>22. ASSUME NEW r \in Request,
             TornRespond(r)
      PROVE  Effect
  <2>1. Pauses
    BY <1>22 DEF TornRespond, LoseMemory, Pauses, Life, Target, SameLives, SameTargets
  <2> QED
    BY <2>1 DEF Effect
<1>23. ASSUME NEW c \in Caller, NEW s \in Session,
             CancelAtOnce(c, s)
      PROVE  Effect
  <2>1. s \in Session /\ status[s] # "absent"
    BY <1>23 DEF CancelAtOnce
  <2>2. CASE status[s] \in Terminal
    <3>1. Stutters
      BY <1>23, <2>1, <2>2 DEF CancelAtOnce, CancelReturns, Finish, Released,
         AlreadyDone, Stutters, Life, Target, SameLives, SameTargets
    <3> QED
      BY <3>1 DEF Effect
  <2>3. CASE status[s] \notin Terminal
    <3>1. Closes({s})
      BY <1>23, <2>1, <2>3 DEF CancelAtOnce, CancelReturns, Finish, AlreadyDone, Closes,
         Life, Target, SameLives, SameTargets
    <3> QED
      BY <2>1, <3>1 DEF Effect
  <2> QED
    BY <2>2, <2>3
<1>24. ASSUME NEW c \in Caller, NEW s \in Session,
             CancelInterrupt(c, s)
      PROVE  Effect
  <2>1. Stutters
    BY <1>24 DEF CancelInterrupt, Stutters, Life, Target, SameLives, SameTargets
  <2> QED
    BY <2>1 DEF Effect
<1>25. ASSUME NEW c \in Caller,
             CancelDispose(c)
      PROVE  Effect
  <2>1. Stutters
    BY <1>25 DEF CancelDispose, Disposed, Stutters, Life, Target, SameLives, SameTargets
  <2> QED
    BY <2>1 DEF Effect
<1>26. ASSUME NEW c \in Caller,
             CancelDisposed(c)
      PROVE  Effect
  <2>1. cancelTarget[c] \in Session /\ status[cancelTarget[c]] # "absent"
    BY <1>26 DEF CancelDisposed
  <2>2. CASE status[cancelTarget[c]] \in Terminal
    <3>1. Stutters
      BY <1>26, <2>1, <2>2 DEF CancelDisposed, CancelReturns, Finish, Released, Disposed,
         AlreadyDone, Stutters, Life, Target, SameLives, SameTargets
    <3> QED
      BY <3>1 DEF Effect
  <2>3. CASE status[cancelTarget[c]] \notin Terminal
    <3>1. Closes({cancelTarget[c]})
      BY <1>26, <2>1, <2>3 DEF CancelDisposed, CancelReturns, Finish, Disposed,
         AlreadyDone, Closes, Life, Target, SameLives, SameTargets
    <3> QED
      BY <2>1, <3>1 DEF Effect
  <2> QED
    BY <2>2, <2>3
<1>27. ASSUME NEW c \in Caller,
             CancelFinish(c)
      PROVE  Effect
  <2>1. cancelTarget[c] \in Session /\ status[cancelTarget[c]] # "absent"
    BY <1>27 DEF CancelFinish
  <2>2. CASE status[cancelTarget[c]] \in Terminal
    <3>1. Stutters
      BY <1>27, <2>1, <2>2 DEF CancelFinish, CancelReturns, Finish, Released,
         AlreadyDone, Stutters, Life, Target, SameLives, SameTargets
    <3> QED
      BY <3>1 DEF Effect
  <2>3. CASE status[cancelTarget[c]] \notin Terminal
    <3>1. Closes({cancelTarget[c]})
      BY <1>27, <2>1, <2>3 DEF CancelFinish, CancelReturns, Finish, AlreadyDone, Closes,
         Life, Target, SameLives, SameTargets
    <3> QED
      BY <2>1, <3>1 DEF Effect
  <2> QED
    BY <2>2, <2>3
<1>28. CASE Reap
  <2>1. Closes({s \in Live : expired[s]})
    BY <1>28 DEF Reap, Finish, Disposed, Live, Closes, Life, Target, SameLives,
       SameTargets
  <2>2. {s \in Live : expired[s]} \in SUBSET Session
    BY DEF Live
  <2> QED
    BY <2>1, <2>2 DEF Effect
<1>29. CASE Stop
  <2>1. Pauses
    BY <1>29 DEF Stop, LoseMemory, Pauses, Life, Target, SameLives, SameTargets
  <2> QED
    BY <2>1 DEF Effect
<1>30. CASE Restart
  <2>1. Stutters
    BY <1>30 DEF Restart, Released, Orphans, Stutters, Life, Target, SameLives,
       SameTargets
  <2> QED
    BY <2>1 DEF Effect
<1>31. CASE VoidInterrupted
  <2>1. Stutters
    BY <1>31 DEF VoidInterrupted, Stutters, Life, Target, SameLives, SameTargets
  <2> QED
    BY <2>1 DEF Effect
<1>32. CASE Listen
  <2>1. Stutters
    BY <1>32 DEF Listen, AllHandled, Stutters, Life, Target, SameLives, SameTargets
  <2> QED
    BY <2>1 DEF Effect
<1>33. CASE UNCHANGED vars
  <2>1. Stutters
    BY <1>33 DEF Stutters, Life, Target, SameLives, SameTargets
  <2> QED
    BY <2>1 DEF Effect
<1> HIDE DEF TypeOK, IInv
<1> QED
  BY <1>1, <1>2, <1>3, <1>4, <1>5, <1>6, <1>7, <1>8, <1>9, <1>10, <1>11, <1>12, <1>13,
     <1>14, <1>15, <1>16, <1>17, <1>18, <1>19, <1>20, <1>21, <1>22, <1>23, <1>24, <1>25,
     <1>26, <1>27, <1>28, <1>29, <1>30, <1>31, <1>32, <1>33, <1>34 DEF Next

\* Every behaviour of the sessions is one of the abstract specification: a project
\* passes from a writer to the next only through the end of the first.
THEOREM RefinementTheorem ==
  ASSUME ~TornHandlers PROVE Spec => ImplementsExclusiveProjects
<1>1. TypeOK /\ IInv /\ TypeOK' /\ IInv' /\ [Next]_vars => [Abstract!Next]_(Abstract!vars)
  BY RefinementStep, EffectIsAbstractStep
<1> QED
  BY RefinementInit, <1>1, Invariant, PTL DEF Spec, ImplementsExclusiveProjects,
     Abstract!Spec
=============================================================================
