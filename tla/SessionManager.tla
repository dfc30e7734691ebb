--------------------------- MODULE SessionManager ---------------------------
(***************************************************************************)
(* Work sessions: the SessionManager with the store, the write locks, the  *)
(* pending-request broker and the worker processes it drives, across       *)
(* cancellations, worker failures, timeouts and restarts.                  *)
(*                                                                         *)
(* The orchestrator is one Node process.  A handler runs to its next await *)
(* without being interrupted, so an action is one such turn; what other    *)
(* handlers may do at an await is what the other actions do between two    *)
(* actions of the same call.  The database survives a stop, everything     *)
(* else does not.  Database statements commit one by one, so a kill may    *)
(* land between two statements of one turn: the Torn... actions, present   *)
(* when TornHandlers is TRUE.                                              *)
(***************************************************************************)
EXTENDS SessionStateMachine, Naturals, FiniteSets

CONSTANTS
  Session,       \* session ids that may be created
  Project,       \* project ids
  Request,       \* ids of questions and approvals that may be asked
  Caller,        \* clients that may have a cancel call in flight
  NoSession,     \* "no session" in a lock, a request or a call
  NoProject,     \* a session started without a project
  EnforceLock,   \* claude.enforceProjectWriteLock
  MaxAsks,       \* questions one worker may have open at the same time
  MaxSends,      \* bound: instructions waiting for one recovery
  MaxTurns,      \* bound: instructions queued in one worker
  MaxStops,      \* bound: stops of the process in a behaviour
  TornHandlers   \* may a kill land between two statements of one turn?

ASSUME ConstantsAssumption ==
  /\ NoSession \notin Session
  /\ NoProject \notin Project
  /\ EnforceLock \in BOOLEAN
  /\ TornHandlers \in BOOLEAN
  /\ MaxAsks \in Nat
  /\ MaxSends \in Nat \ {0}
  /\ MaxTurns \in Nat
  /\ MaxTurns > MaxSends
  /\ MaxStops \in Nat

VARIABLES
  \* work_sessions
  status,        \* the status of each session, "absent" before it is created
  writer,        \* write_capable: started in mode "work"
  project,       \* project_id
  expired,       \* past the lifetime cap, counted from started_at or created_at
  \* project_write_locks
  lock,          \* the session that holds each project
  \* pending_requests
  reqState,      \* "unused", "open", "answered" or "voided"
  reqOwner,      \* the session that asked
  \* in memory
  workers,       \* SessionManager.workers: the sessions with an entry
  child,         \* the worker of each session and its process (see TypeOK)
  turns,         \* instructions in the worker: the running turn and the queue
  waiters,       \* PendingRequestBroker.waiters
  recovering,    \* calls sharing SessionManager.recoveries, 0 when none is in flight
  cancelPhase,   \* where each client's cancel call is suspended
  cancelTarget,  \* and the session it is for
  \* the process
  phase,         \* "down", "recovering" (recoverOnStartup) or "up"
  unvoided,      \* recoverOnStartup: marked interrupted, requests not yet voided
  stops          \* how often the process has stopped

rows     == <<writer, project>>
requests == <<reqState, reqOwner>>
cancels  == <<cancelPhase, cancelTarget>>
store    == <<status, rows, expired, lock, requests>>
memory   == <<workers, child, turns, waiters, recovering, cancels>>
process  == <<phase, unvoided, stops>>
vars     == <<store, memory, process>>

-----------------------------------------------------------------------------
(* Helpers: the effects that several handlers share.                       *)

NeedsLock(w, p) == w /\ p # NoProject /\ EnforceLock

\* Fault: the sweep forgets the interrupted sessions, which keep their lock.
LiveExceptInterrupted == {s \in Session : status[s] \in ExpectsLiveWorker}

Live == {s \in Session : status[s] \in Reapable}

AsksOf(S) == {r \in waiters : reqOwner[r] \in S}

\* The status of s after setStatus(s, next), for a legal move.
Moved(s, next) == [status EXCEPT ![s] = next]

\* Fault: the lock outlives its session.
ReleasedNever(S) == [p \in Project |-> lock[p]]

\* setStatus to a terminal status deletes the locks of the sessions in S ...
Released(S) == [p \in Project |-> IF lock[p] \in S THEN NoSession ELSE lock[p]]

\* Fault: the questions stay open.
VoidedNever(S) == reqState

\* Fault: answered requests are voided too.
VoidedAnswered(S) ==
  [r \in Request |-> IF reqOwner[r] \in S THEN "voided" ELSE reqState[r]]

\* ... and voids their open requests, as voidOpenRequests does.
Voided(S) ==
  [r \in Request |-> IF reqState[r] = "open" /\ reqOwner[r] \in S
                     THEN "voided" ELSE reqState[r]]

\* Fault: the worker of a failed session is dropped without dispose.
DisposedNever(S) == child

\* dispose: a running process is told to stop; one that has gone needs nothing.
Disposed(S) ==
  [s \in Session |-> CASE s \in S /\ child[s] = "running" -> "disposed"
                       [] s \in S /\ child[s] = "ended"   -> "none"
                       [] OTHER                           -> child[s]]

\* Fault: the status goes on saying that the session waits.
BackToWorkNever(s) == status

\* An answered or expired question puts a waiting session back to work.
BackToWork(s) == IF status[s] \in Waiting THEN Moved(s, "working") ELSE status

\* Fault: a late report revives a finished session.
SettledLate(s, next) == Moved(s, next)

\* A finished session is not moved by what comes late.
Settled(s, next) == IF status[s] \in Terminal THEN status ELSE Moved(s, next)

\* abandonSession rejects whoever waits for the sessions in S.
Unblocked(S) == waiters \ AsksOf(S)

\* Sessions in S reach the terminal status next: lock, requests and waiters go.
Finish(S, next) ==
  /\ status'   = [s \in Session |-> IF s \in S THEN next ELSE status[s]]
  /\ lock'     = Released(S)
  /\ reqState' = Voided(S)
  /\ waiters'  = Unblocked(S)
  /\ UNCHANGED <<rows, expired, reqOwner, recovering>>

Init ==
  /\ status  = [s \in Session |-> "absent"]
  /\ writer  = [s \in Session |-> FALSE]
  /\ project = [s \in Session |-> NoProject]
  /\ expired = [s \in Session |-> FALSE]
  /\ lock     = [p \in Project |-> NoSession]
  /\ reqState = [r \in Request |-> "unused"]
  /\ reqOwner = [r \in Request |-> NoSession]
  /\ workers = {}
  /\ child   = [s \in Session |-> "none"]
  /\ turns   = [s \in Session |-> 0]
  /\ waiters = {}
  /\ recovering   = [s \in Session |-> 0]
  /\ cancelPhase  = [c \in Caller |-> "idle"]
  /\ cancelTarget = [c \in Caller |-> NoSession]
  /\ phase = "up" /\ unvoided = NoSession /\ stops = 0

-----------------------------------------------------------------------------
(* startSession, from the insert of the row to the answer: one turn.       *)

Insert(s, w, p) ==
  /\ phase = "up"
  /\ status[s] = "absent"
  /\ writer'  = [writer EXCEPT ![s] = w]
  /\ project' = [project EXCEPT ![s] = p]

\* Fault: nobody looks whether the project is taken.
TakenNever(w, p) == FALSE

Taken(w, p) == NeedsLock(w, p) /\ lock[p] # NoSession

Claimed(s, w, p) == IF NeedsLock(w, p) THEN [lock EXCEPT ![p] = s] ELSE lock

StartLaunched(s, w, p) ==
  /\ Insert(s, w, p)
  /\ ~Taken(w, p)
  /\ status'  = Moved(s, "working")
  /\ lock'    = Claimed(s, w, p)
  /\ workers' = workers \cup {s}
  /\ child'   = [child EXCEPT ![s] = "running"]
  /\ turns'   = [turns EXCEPT ![s] = 1]
  /\ UNCHANGED <<expired, requests, waiters, recovering, cancels, process>>

\* PROJECT_BUSY: the new row goes straight to cancelled.
StartRejected(s, w, p) ==
  /\ Insert(s, w, p)
  /\ Taken(w, p)
  /\ status' = Moved(s, "cancelled")
  /\ UNCHANGED <<expired, lock, requests, memory, process>>

\* worker.start throws: failSession takes the lock and the worker back.
StartFailed(s, w, p) ==
  /\ Insert(s, w, p)
  /\ ~Taken(w, p)
  /\ status' = Moved(s, "failed")
  /\ UNCHANGED <<expired, lock, requests, memory, process>>

-----------------------------------------------------------------------------
(* sendInstruction, and the recovery of a worker it may need.              *)

\* The worker is in the map and not disposed: the instruction is queued.
SendLive(s) ==
  /\ phase = "up"
  /\ status[s] \in AcceptsInstruction
  /\ s \in workers
  /\ child[s] \in {"running", "ended"}
  /\ turns[s] < MaxTurns
  /\ turns'  = [turns EXCEPT ![s] = @ + 1]
  /\ status' = Moved(s, "working")
  /\ UNCHANGED <<rows, expired, lock, requests, workers, child, waiters,
                 recovering, cancels, process>>

\* Fault: a recovery is started beside a live worker.
NeedsRecoveryAlways(s) ==
  /\ phase = "up"
  /\ status[s] \in AcceptsInstruction

NeedsRecovery(s) ==
  /\ phase = "up"
  /\ status[s] \in AcceptsInstruction
  /\ s \notin workers

\* The first caller builds; recoverWorker checks the cap, then awaits the project.
RecoverBegin(s) ==
  /\ NeedsRecovery(s)
  /\ recovering[s] = 0
  /\ ~expired[s]
  /\ project[s] # NoProject
  /\ recovering' = [recovering EXCEPT ![s] = 1]
  /\ UNCHANGED <<store, workers, child, turns, waiters, cancels, process>>

\* A later caller shares the recovery in flight.
RecoverJoin(s) ==
  /\ NeedsRecovery(s)
  /\ recovering[s] \in 1..(MaxSends - 1)
  /\ recovering' = [recovering EXCEPT ![s] = @ + 1]
  /\ UNCHANGED <<store, workers, child, turns, waiters, cancels, process>>

\* A new worker gets the resume prompt, then the instruction of each of n callers.
Rebuilt(s, n) ==
  /\ workers' = workers \cup {s}
  /\ child'   = [child EXCEPT ![s] = "running"]
  /\ turns'   = [turns EXCEPT ![s] = n + 1]
  /\ status'  = Moved(s, "working")
  /\ recovering' = [recovering EXCEPT ![s] = 0]
  /\ UNCHANGED <<rows, expired, lock, requests, waiters, cancels, process>>

\* A session without a project awaits nothing: one turn.
RecoverInline(s) ==
  /\ NeedsRecovery(s)
  /\ ~expired[s]
  /\ project[s] = NoProject
  /\ Rebuilt(s, 1)

\* After the await the status is read again; a finished session gets no worker.
RecoverDone(s) ==
  /\ recovering[s] > 0
  /\ status[s] \notin Terminal
  /\ Rebuilt(s, recovering[s])

RecoverFails(s) ==
  /\ recovering[s] > 0
  /\ recovering' = [recovering EXCEPT ![s] = 0]
  /\ UNCHANGED <<store, workers, child, turns, waiters, cancels, process>>

\* The session finished meanwhile, or worker.start threw: every caller gets the error.
RecoverRefused(s) == RecoverFails(s)

-----------------------------------------------------------------------------
(* Questions and approvals: the worker's callbacks, the broker, respond.   *)

\* Fault: a worker reports results for no turn.
RunsTurnAlways(s) == child[s] \in {"running", "disposed"}

\* Also a worker that has been told to stop may still report.
RunsTurn(s) == child[s] \in {"running", "disposed"} /\ turns[s] > 0

\* askUser and requestApproval: the status first, then the stored question.
Ask(s, r, need) ==
  /\ phase = "up"
  /\ RunsTurn(s)
  /\ Cardinality(AsksOf({s})) < MaxAsks
  /\ CanTransition(status[s], need)
  /\ reqState[r] = "unused"
  /\ status'   = Moved(s, need)
  /\ reqState' = [reqState EXCEPT ![r] = "open"]
  /\ reqOwner' = [reqOwner EXCEPT ![r] = s]
  /\ waiters'  = waiters \cup {r}
  /\ UNCHANGED <<rows, expired, lock, workers, child, turns, recovering, cancels,
                 process>>

\* An ask beside an unanswered one, or after the session has moved on: setStatus
\* refuses the move, the tool is denied before anything is stored.
AskRefused(s, need) ==
  /\ phase = "up"
  /\ RunsTurn(s)
  /\ ~CanTransition(status[s], need)
  /\ UNCHANGED vars

\* respond, by request id or to the oldest open request of the session.
Respond(r) ==
  /\ phase = "up"
  /\ reqState[r] = "open"
  /\ reqState' = [reqState EXCEPT ![r] = "answered"]
  /\ waiters'  = waiters \ {r}
  /\ status'   = BackToWork(reqOwner[r])
  /\ UNCHANGED <<rows, expired, lock, reqOwner, workers, child, turns, recovering,
                 cancels, process>>

TimesOut(r) == r \in waiters

\* The timer of one ask voids every open request of its session.
AskTimeout(r) ==
  /\ TimesOut(r)
  /\ reqState' = Voided({reqOwner[r]})
  /\ waiters'  = waiters \ {r}
  /\ status'   = BackToWork(reqOwner[r])
  /\ UNCHANGED <<rows, expired, lock, reqOwner, workers, child, turns, recovering,
                 cancels, process>>

-----------------------------------------------------------------------------
(* What a worker reports, also when it has been told to stop.              *)

InterruptRequested(s) == \E c \in Caller : cancelTarget[c] = s

\* A result message ends one turn, not the session; queued instructions follow.
TurnComplete(s) ==
  /\ RunsTurn(s)
  /\ AsksOf({s}) = {} \/ InterruptRequested(s)
  /\ turns'  = [turns EXCEPT ![s] = @ - 1]
  /\ status' = Settled(s, "idle")
  /\ UNCHANGED <<rows, expired, lock, requests, workers, child, waiters, recovering,
                 cancels, process>>

\* onError, from a process that has died or one that has yet to be stopped.
WorkerFails(s) ==
  /\ child[s] \in {"running", "disposed"}
  /\ status[s] \notin Terminal
  /\ Finish({s}, "failed")
  /\ workers' = workers \ {s}
  /\ \E left \in {"disposed", "none"} : child' = [child EXCEPT ![s] = left]
  /\ UNCHANGED <<turns, cancels, process>>

\* The message stream ends without an error: nothing is reported.
WorkerEnds(s) ==
  /\ child[s] = "running"
  /\ child' = [child EXCEPT ![s] = "ended"]
  /\ UNCHANGED <<store, workers, turns, waiters, recovering, cancels, process>>

\* A process told to stop has gone.
ChildExit(s) ==
  /\ child[s] = "disposed"
  /\ child' = [child EXCEPT ![s] = "none"]
  /\ turns' = [turns EXCEPT ![s] = 0]
  /\ UNCHANGED <<store, workers, waiters, recovering, cancels, process>>

-----------------------------------------------------------------------------
(* cancel: interrupt the worker, dispose of it, then finish the session.   *)

AlreadyDone(s) == status[s] \in Terminal

\* The end of a call: a session that finished meanwhile keeps its status.
CancelReturns(c, s) ==
  /\ workers' = workers \ {s}
  /\ cancelPhase'  = [cancelPhase EXCEPT ![c] = "idle"]
  /\ cancelTarget' = [cancelTarget EXCEPT ![c] = NoSession]
  /\ Finish({s}, IF AlreadyDone(s) THEN status[s] ELSE "cancelled")
  /\ UNCHANGED process

\* No worker in the map, nothing to await.
CancelAtOnce(c, s) ==
  /\ phase = "up"
  /\ cancelPhase[c] = "idle"
  /\ status[s] # "absent" /\ ~AlreadyDone(s)
  /\ s \notin workers
  /\ CancelReturns(c, s)
  /\ UNCHANGED <<child, turns>>

\* Fault: the map entry goes before the worker has been stopped.
CancelInterruptDropsFirst(c, s) ==
  /\ phase = "up"
  /\ cancelPhase[c] = "idle"
  /\ status[s] # "absent" /\ ~AlreadyDone(s)
  /\ s \in workers
  /\ workers' = workers \ {s}
  /\ cancelPhase'  = [cancelPhase EXCEPT ![c] = "interrupting"]
  /\ cancelTarget' = [cancelTarget EXCEPT ![c] = s]
  /\ UNCHANGED <<store, child, turns, waiters, recovering, process>>

\* worker.interrupt(), which is bounded: it always returns.
CancelInterrupt(c, s) ==
  /\ phase = "up"
  /\ cancelPhase[c] = "idle"
  /\ status[s] # "absent" /\ ~AlreadyDone(s)
  /\ s \in workers
  /\ cancelPhase'  = [cancelPhase EXCEPT ![c] = "interrupting"]
  /\ cancelTarget' = [cancelTarget EXCEPT ![c] = s]
  /\ UNCHANGED <<store, workers, child, turns, waiters, recovering, process>>

\* Fault: dispose is not awaited.
CancelDisposeUnawaited(c) ==
  LET s == cancelTarget[c] IN
  /\ cancelPhase[c] = "interrupting"
  /\ child[s] = "running"
  /\ child' = Disposed({s})
  /\ CancelReturns(c, s)
  /\ UNCHANGED turns

\* worker.dispose() of a running worker waits for its process.
CancelDispose(c) ==
  LET s == cancelTarget[c] IN
  /\ cancelPhase[c] = "interrupting"
  /\ child[s] = "running"
  /\ child' = Disposed({s})
  /\ cancelPhase' = [cancelPhase EXCEPT ![c] = "disposing"]
  /\ UNCHANGED <<store, workers, turns, waiters, recovering, cancelTarget, process>>

\* Fault: dispose waits for a stream that has already ended.
NothingToAwaitExceptEnded(s) == child[s] \in {"disposed", "none"}

NothingToAwait(s) == child[s] # "running"

\* One that was disposed of before, or whose stream has ended, returns at once.
CancelDisposed(c) ==
  LET s == cancelTarget[c] IN
  /\ cancelPhase[c] = "interrupting"
  /\ NothingToAwait(s)
  /\ child' = Disposed({s})
  /\ CancelReturns(c, s)
  /\ UNCHANGED turns

CancelFinish(c) ==
  LET s == cancelTarget[c] IN
  /\ cancelPhase[c] = "disposing"
  /\ child[s] = "none"
  /\ CancelReturns(c, s)
  /\ UNCHANGED <<child, turns>>

-----------------------------------------------------------------------------
(* The lifetime cap and the reaper.                                        *)

Expire(s) ==
  /\ status[s] \in Status \ Terminal
  /\ ~expired[s]
  /\ expired' = [expired EXCEPT ![s] = TRUE]
  /\ UNCHANGED <<status, rows, lock, requests, memory, process>>

\* One sweep fails every session past its cap.
Reap ==
  LET S == {s \in Live : expired[s]} IN
  /\ phase = "up"
  /\ S # {}
  /\ Finish(S, "failed")
  /\ workers' = workers \ S
  /\ child' = Disposed(S)
  /\ UNCHANGED <<turns, cancels, process>>

-----------------------------------------------------------------------------
(* The process stops and starts again.                                     *)

\* Everything in memory is lost, and the worker processes go with the service.
LoseMemory ==
  /\ workers' = {}
  /\ child'   = [s \in Session |-> "none"]
  /\ turns'   = [s \in Session |-> 0]
  /\ waiters' = {}
  /\ recovering'   = [s \in Session |-> 0]
  /\ cancelPhase'  = [c \in Caller |-> "idle"]
  /\ cancelTarget' = [c \in Caller |-> NoSession]
  /\ phase' = "down" /\ unvoided' = NoSession
  /\ stops < MaxStops /\ stops' = stops + 1

\* A shutdown, or a kill between two turns: the statuses stay as they are.
Stop ==
  /\ phase # "down"
  /\ unvoided = NoSession \/ TornHandlers
  /\ LoseMemory
  /\ UNCHANGED store

\* A kill inside startSession: the row is there, with its lock or without.
TornStart(s, w, p) ==
  /\ TornHandlers
  /\ Insert(s, w, p)
  /\ status' = Moved(s, "starting")
  /\ \/ lock' = lock
     \/ ~Taken(w, p) /\ lock' = Claimed(s, w, p)
  /\ LoseMemory
  /\ UNCHANGED <<expired, requests>>

\* A kill inside askUser: the status says waiting, the question is not stored.
TornAsk(s, need) ==
  /\ TornHandlers
  /\ phase = "up"
  /\ child[s] \in {"running", "disposed"}
  /\ status[s] \in Status /\ CanTransition(status[s], need)
  /\ status' = Moved(s, need)
  /\ LoseMemory
  /\ UNCHANGED <<rows, expired, lock, requests>>

\* A kill inside respond: the answer is stored, the status still says waiting.
TornRespond(r) ==
  /\ TornHandlers
  /\ phase = "up"
  /\ reqState[r] = "open"
  /\ reqState' = [reqState EXCEPT ![r] = "answered"]
  /\ LoseMemory
  /\ UNCHANGED <<status, rows, expired, lock, reqOwner>>

\* A kill inside cancel or a timeout: the requests are void, the status unchanged.
TornVoid(s) ==
  /\ TornHandlers
  /\ phase = "up"
  /\ \E r \in Request : reqState[r] = "open" /\ reqOwner[r] = s
  /\ reqState' = Voided({s})
  /\ LoseMemory
  /\ UNCHANGED <<status, rows, expired, lock, reqOwner>>

\* Fault: a session without a worker counts as gone.
OrphansUnattended == Session \ workers

Orphans == {s \in Session : status[s] \in Terminal}

\* recoverOnStartup begins by releasing the locks of finished sessions.
Restart ==
  /\ phase = "down"
  /\ phase' = "recovering"
  /\ lock' = Released(Orphans)
  /\ UNCHANGED <<status, rows, expired, requests, memory, unvoided, stops>>

\* For each session that believed it was running: first its status ...
MarkInterrupted(s) ==
  /\ phase = "recovering"
  /\ unvoided = NoSession
  /\ status[s] \in ExpectsLiveWorker
  /\ status' = Moved(s, "interrupted")
  /\ unvoided' = s
  /\ UNCHANGED <<rows, expired, lock, requests, memory, phase, stops>>

\* ... then, in a statement of its own, its open requests.
VoidInterrupted ==
  /\ unvoided # NoSession
  /\ reqState' = Voided({unvoided})
  /\ unvoided' = NoSession
  /\ UNCHANGED <<status, rows, expired, lock, reqOwner, memory, phase, stops>>

\* Fault: the idle sessions are overlooked.
AllHandledButIdle ==
  \A s \in Session : status[s] \notin ExpectsLiveWorker \ {"idle"}

AllHandled == \A s \in Session : status[s] \notin ExpectsLiveWorker

\* The port opens only after every session has been handled.
Listen ==
  /\ phase = "recovering"
  /\ unvoided = NoSession
  /\ AllHandled
  /\ phase' = "up"
  /\ UNCHANGED <<store, memory, unvoided, stops>>

Next ==
  \/ \E s \in Session, w \in BOOLEAN, p \in Project \cup {NoProject} :
       \/ StartLaunched(s, w, p) \/ StartRejected(s, w, p) \/ StartFailed(s, w, p)
       \/ TornStart(s, w, p)
  \/ \E s \in Session :
       \/ SendLive(s) \/ RecoverBegin(s) \/ RecoverJoin(s) \/ RecoverInline(s)
       \/ RecoverDone(s) \/ RecoverRefused(s)
       \/ TurnComplete(s) \/ WorkerFails(s) \/ WorkerEnds(s) \/ ChildExit(s)
       \/ Expire(s) \/ TornVoid(s) \/ MarkInterrupted(s)
  \/ \E s \in Session, need \in Waiting :
       \/ TornAsk(s, need) \/ AskRefused(s, need)
       \/ \E r \in Request : Ask(s, r, need)
  \/ \E r \in Request : Respond(r) \/ AskTimeout(r) \/ TornRespond(r)
  \/ \E c \in Caller :
       \/ \E s \in Session : CancelAtOnce(c, s) \/ CancelInterrupt(c, s)
       \/ CancelDispose(c) \/ CancelDisposed(c) \/ CancelFinish(c)
  \/ Reap \/ Stop \/ Restart \/ VoidInterrupted \/ Listen

Spec == Init /\ [][Next]_vars

-----------------------------------------------------------------------------
(* Type invariant.                                                         *)

TypeOK ==
  /\ status   \in [Session -> Status \cup {"absent"}]
  /\ writer   \in [Session -> BOOLEAN]
  /\ project  \in [Session -> Project \cup {NoProject}]
  /\ expired  \in [Session -> BOOLEAN]
  /\ lock     \in [Project -> Session \cup {NoSession}]
  /\ reqState \in [Request -> {"unused", "open", "answered", "voided"}]
  /\ reqOwner \in [Request -> Session \cup {NoSession}]
  /\ workers  \in SUBSET Session
  \* none: no worker, or one that was disposed of and has gone
  \* running: takes instructions; ended: so it seems, but nobody reads them
  \* disposed: told to stop, still finishing what it was doing
  /\ child    \in [Session -> {"none", "running", "ended", "disposed"}]
  /\ turns    \in [Session -> 0..MaxTurns]
  /\ waiters  \in SUBSET Request
  /\ recovering   \in [Session -> 0..MaxSends]
  /\ cancelPhase  \in [Caller -> {"idle", "interrupting", "disposing"}]
  /\ cancelTarget \in [Caller -> Session \cup {NoSession}]
  /\ phase    \in {"down", "recovering", "up"}
  /\ unvoided \in Session \cup {NoSession}
  /\ stops    \in 0..MaxStops

-----------------------------------------------------------------------------
(* Safety.                                                                 *)

\* A finished session holds no project, shows no open question, has no entry in
\* the worker map, blocks nobody and has no process that was not told to stop, which
\* nobody could reach any more, whichever of cancel, a failure, the reaper or a
\* recovery in flight came first (setStatus, failSession, cancel).
FinishedLeavesNothing ==
  \A s \in Session : status[s] \in Terminal =>
    /\ \A p \in Project : lock[p] # s
    /\ \A r \in Request : reqOwner[r] = s => reqState[r] # "open" /\ r \notin waiters
    /\ s \notin workers
    /\ child[s] \notin {"running", "ended"}

\* While the server is up, a status that claims a worker has one in the map, and
\* only those do: "that is the honest state" of recoverOnStartup.
StatusIsHonest ==
  phase = "up" =>
    \A s \in Session : s \in workers <=> status[s] \in ExpectsLiveWorker

\* A recovery in flight never has a live worker beside it: the calls for one
\* session share one build (workerFor).
OneBuildPerSession ==
  \A s \in Session : recovering[s] > 0 => s \notin workers /\ child[s] = "none"

\* A session that can write to a project and has a worker holds its lock, through
\* turns, stops and recoveries (tryAcquireProjectWriteLock; recoverWorker takes none).
WriterHoldsLock ==
  \A s \in workers : NeedsLock(writer[s], project[s]) => lock[project[s]] = s

\* Two sessions never work as writers in one project: "One write-capable session
\* per project is enforced" (README.md).
OneWriterPerProject ==
  \A s, t \in workers :
    /\ NeedsLock(writer[s], project[s]) /\ NeedsLock(writer[t], project[t])
    /\ project[s] = project[t]
    => s = t

\* A session shown as waiting has an open question that somebody waits on, so
\* respond has something to deliver (clearUnansweredStatus).
WaitingIsAnswerable ==
  phase = "up" =>
    \A s \in Session : status[s] \in Waiting =>
      \E r \in waiters : reqOwner[r] = s /\ reqState[r] = "open"

\* An open question has a worker blocked on it, so an accepted answer arrives:
\* "a request nobody is waiting on has to be treated as unanswerable".
OpenHasWaiter ==
  phase = "up" => \A r \in Request : reqState[r] = "open" => r \in waiters

\* A worker blocked on a question is blocked on one that can still be answered: ask is
\* to "block until answered, denied, or timed out" (pendingRequestBroker.ts).
WaiterHasOpen == \A r \in waiters : reqState[r] = "open"

\* idle: "a turn finished and the worker is alive, waiting for the next instruction".
IdleMeansWaiting ==
  \A s \in Session : status[s] = "idle" /\ phase = "up" => turns[s] = 0

\* A session reported as cancelled has no process left: dispose is awaited "so the
\* child exits before this resolves".
StoppedMeansGone ==
  \A s \in Session : status[s] = "cancelled" => child[s] = "none"

-----------------------------------------------------------------------------
(* Action properties.                                                      *)

LegalMove ==
  \A s \in Session : status[s] # "absent" => CanTransition(status[s], status'[s])

\* A stored session moves only along the table, and a finished one never again.  Only
\* an ask can be refused by setStatus (AskRefused): every other handler sets the
\* status here without looking at the table, so a report, a cancel, a timer or a
\* recovery that comes late would show as an illegal move.
LegalMoves == [][LegalMove]_status

SettlesOnce ==
  \A r \in Request : reqState[r] # "unused" =>
    /\ reqOwner'[r] = reqOwner[r]
    /\ reqState[r] # "open" => reqState'[r] = reqState[r]

\* An answered or void request stays so, and keeps the session that asked it.
SettledOnce == [][SettlesOnce]_requests

\* While a cancel call for a session is suspended, no instruction gets the session a
\* new worker: cancel would drop it from the map when it goes on, without having
\* stopped it (cancel, workerFor).
StopIsFinal ==
  [][\A c \in Caller :
       LET s == cancelTarget[c] IN s # NoSession /\ s \notin workers => s \notin workers'
    ]_workers

-----------------------------------------------------------------------------
(* What the sessions promise about projects.                               *)

Life(s) == CASE status[s] = "absent"     -> "new"
             [] status[s] \in Terminal   -> "closed"
             [] OTHER                    -> "open"

Target(s) == IF NeedsLock(writer[s], project[s]) THEN project[s] ELSE NoProject

Abstract == INSTANCE ExclusiveProjects WITH
  life   <- [s \in Session |-> Life(s)],
  target <- [s \in Session |-> Target(s)],
  owner  <- lock,
  acting <- workers

\* Every behaviour is one of the abstract specification.
ImplementsExclusiveProjects == Abstract!Spec

-----------------------------------------------------------------------------
(* Liveness.                                                               *)

\* What goes on by itself: the reaper's interval, the exit of a process that was told
\* to stop, the continuation of a cancel, and a start that has begun.
Fairness ==
  /\ WF_vars(Reap) /\ WF_vars(Restart) /\ WF_vars(VoidInterrupted) /\ WF_vars(Listen)
  /\ \A s \in Session : WF_vars(ChildExit(s)) /\ WF_vars(MarkInterrupted(s))
  /\ \A c \in Caller : WF_vars(CancelDispose(c) \/ CancelDisposed(c) \/ CancelFinish(c))

FairSpec == Spec /\ Fairness

\* No session outlives its cap, whatever its worker does or fails to do and however
\* it was interrupted: so none pins its project forever (reapExpiredSessions).
ExpiredSessionEnds ==
  \A s \in Session : expired[s] ~> status[s] \in Terminal

\* A cancel call returns.
EveryCancelReturns == \A c \in Caller : cancelPhase[c] # "idle" ~> cancelPhase[c] = "idle"
=============================================================================
