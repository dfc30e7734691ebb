---------------------------- MODULE CodexWorker -----------------------------
(***************************************************************************)
(* A Codex work session: one child process per instruction, the next one   *)
(* spawned when the last one has closed.  The n-th instruction accepted is *)
(* n, and so is the child that works on it.  The children live outside     *)
(* this process: they end when they like, leave descendants that hold      *)
(* their pipes, and may ignore SIGTERM.                                    *)
(*                                                                         *)
(* The event that settles a turn and the continuation of drain are two     *)
(* steps: other continuations of the same tick may run between them.       *)
(***************************************************************************)
EXTENDS Naturals, Sequences

CONSTANTS
  MaxInstr,      \* bound: instructions accepted in a behaviour
  Interrupter,   \* calls of interrupt, each made at most once
  Disposer       \* calls of dispose

ASSUME CodexAssumption ==
  /\ MaxInstr \in Nat
  /\ Interrupter \cap Disposer = {}

Instr   == 1..MaxInstr
Stopper == Interrupter \cup Disposer
None    == 0

VARIABLES
  cxAccepted,    \* how many instructions start and send took
  queue,         \* pendingInstructions
  drain,         \* "idle"; "turn" while runTurn awaits its child; "settled" after it
  current,       \* the instruction of the turn
  proc,          \* the child of each instruction: "none", "unspawned" until its
                 \* error event, "alive", "done" or "broken" by exit code,
                 \* "killed" by a signal, "closed" when its close event came
  pipes,         \* descendants of a child that hold its pipes
  streamError,   \* the turn's events reported an error or were too long
  verdict,       \* how the turn's child ended: "pending", "good", "bad"
  interrupted, disposed,
  stopper,       \* the calls of interrupt and dispose
  reported,      \* history: the instructions onTurnComplete was called for
  errors         \* history: how often onError was called

codexVars == <<cxAccepted, queue, drain, current, proc, pipes, streamError, verdict,
               interrupted, disposed, stopper, reported, errors>>

turn  == <<drain, current, proc, pipes, streamError, verdict>>
stops == <<interrupted, disposed, stopper>>

CodexInit ==
  /\ cxAccepted = 0
  /\ queue = <<>>
  /\ drain = "idle"
  /\ current = None
  /\ proc  = [i \in Instr |-> "none"]
  /\ pipes = [i \in Instr |-> FALSE]
  /\ streamError = FALSE
  /\ verdict = "pending"
  /\ interrupted = FALSE /\ disposed = FALSE
  /\ stopper = [c \in Stopper |-> "idle"]
  /\ reported = <<>>
  /\ errors = 0

-----------------------------------------------------------------------------
(* The turns.                                                              *)

MayRun(q) == ~disposed /\ ~interrupted /\ q # <<>>

\* The head of drain's loop, and runTurn up to its await: the next of q is spawned,
\* or the loop ends.
RunNext(q) ==
  IF MayRun(q)
  THEN /\ queue' = Tail(q)
       /\ drain' = "turn"
       /\ current' = Head(q)
       /\ \E p \in {"alive", "unspawned"} : proc' = [proc EXCEPT ![Head(q)] = p]
       /\ streamError' = FALSE /\ verdict' = "pending"
       /\ UNCHANGED pipes
  ELSE /\ queue' = q
       /\ drain' = "idle"
       /\ UNCHANGED <<current, proc, pipes, streamError, verdict>>

\* Fault: drain does not look whether it is running already.
FreeAlways == TRUE

\* drain returns at once when it is running.
Free == drain = "idle"

\* start for the first instruction, send for the others; start does not look at
\* disposed, but its drain does.
Accept ==
  /\ cxAccepted < MaxInstr
  /\ ~disposed \/ cxAccepted = 0
  /\ cxAccepted' = cxAccepted + 1
  /\ IF Free THEN RunNext(Append(queue, cxAccepted'))
             ELSE queue' = Append(queue, cxAccepted') /\ UNCHANGED turn
  /\ UNCHANGED <<stops, reported, errors>>

\* consumeEvent sees turn.failed or error, or a line is too long.
StreamFails ==
  /\ drain = "turn" /\ proc[current] \in {"alive", "done", "broken", "killed"}
  /\ streamError' = TRUE
  /\ UNCHANGED <<cxAccepted, queue, drain, current, proc, pipes, verdict, stops, reported, errors>>

\* The child exits, and may leave descendants that hold its pipes.
Exit(i) ==
  /\ proc[i] = "alive"
  /\ \E p \in {"done", "broken"}, held \in BOOLEAN :
       /\ proc'  = [proc EXCEPT ![i] = p]
       /\ pipes' = [pipes EXCEPT ![i] = held]
  /\ UNCHANGED <<cxAccepted, queue, drain, current, streamError, verdict, stops, reported, errors>>

ReleasePipes(i) ==
  /\ pipes[i]
  /\ pipes' = [pipes EXCEPT ![i] = FALSE]
  /\ UNCHANGED <<cxAccepted, queue, drain, current, proc, streamError, verdict, stops, reported, errors>>

\* The error event of a spawn that failed, or the close event: the promise that
\* runTurn awaits settles.
Settle(i) ==
  /\ \/ proc[i] = "unspawned"
     \/ proc[i] \in {"done", "broken", "killed"} /\ ~pipes[i]
  /\ proc' = [proc EXCEPT ![i] = "closed"]
  /\ IF drain = "turn" /\ current = i
     THEN drain' = "settled" /\ verdict' = IF proc[i] = "done" THEN "good" ELSE "bad"
     ELSE UNCHANGED <<drain, verdict>>
  /\ UNCHANGED <<cxAccepted, queue, current, pipes, streamError, stops, reported, errors>>

\* Fault: the stop is looked at only before the turn.
SucceededAnyway == verdict = "good" /\ ~streamError

Stopped   == disposed \/ interrupted
Succeeded == ~Stopped /\ SucceededAnyway

\* The rest of runTurn and of the loop's body, and the head of the loop again.
Continue ==
  /\ drain = "settled"
  /\ \/ /\ Succeeded
        /\ reported' = Append(reported, current)
        /\ RunNext(queue)
        /\ UNCHANGED errors
     \/ /\ ~Succeeded
        /\ errors' = IF Stopped THEN errors ELSE errors + 1
        /\ queue' = <<>>
        /\ drain' = "idle"
        /\ UNCHANGED <<current, proc, pipes, streamError, verdict, reported>>
  /\ UNCHANGED <<cxAccepted, stops>>

-----------------------------------------------------------------------------
(* interrupt and dispose.                                                  *)

\* exitCode is null: it stays so for a child that a signal killed.
NoExitCode(i) == proc[i] \in {"unspawned", "alive", "killed"}

\* this.child is there and has no exit code.
HasChild == current # None /\ NoExitCode(current)

\* The synchronous part of interrupt: SIGTERM is sent to the group.
Interrupt(c) ==
  /\ interrupted' = TRUE
  /\ queue' = <<>>
  /\ stopper' = [stopper EXCEPT ![c] = IF HasChild THEN "waiting" ELSE "returned"]

CallInterrupt(c) ==
  /\ stopper[c] = "idle"
  /\ Interrupt(c)
  /\ UNCHANGED <<cxAccepted, turn, disposed, reported, errors>>

CallDispose(c) ==
  /\ stopper[c] = "idle"
  /\ disposed' = TRUE
  /\ IF disposed THEN stopper' = [stopper EXCEPT ![c] = "returned"] /\ UNCHANGED <<queue, interrupted>>
                 ELSE Interrupt(c)
  /\ UNCHANGED <<cxAccepted, turn, reported, errors>>

\* What SIGTERM was sent to may obey it, descendants included.
ObeyTerm(i) ==
  /\ proc[i] = "alive"
  /\ \E c \in Stopper : stopper[c] = "waiting"
  /\ proc' = [proc EXCEPT ![i] = "killed"]
  /\ \E held \in BOOLEAN : pipes' = [pipes EXCEPT ![i] = held]
  /\ UNCHANGED <<cxAccepted, queue, drain, current, streamError, verdict, stops, reported, errors>>

CloseSeen(c) ==
  /\ stopper[c] = "waiting"
  /\ proc[current] = "closed"
  /\ stopper' = [stopper EXCEPT ![c] = "returned"]
  /\ UNCHANGED <<cxAccepted, queue, turn, interrupted, disposed, reported, errors>>

\* Fault: after the grace the child is left alone.
GraceOverKillsNot(c) ==
  /\ stopper[c] = "waiting"
  /\ stopper' = [stopper EXCEPT ![c] = "returned"]
  /\ UNCHANGED <<cxAccepted, queue, turn, interrupted, disposed, reported, errors>>

\* Five seconds are over: SIGKILL to the group of a child without an exit code.
GraceOver(c) ==
  /\ stopper[c] = "waiting"
  /\ stopper' = [stopper EXCEPT ![c] = "returned"]
  /\ IF proc[current] \in {"alive", "killed"}
     THEN /\ proc'  = [proc EXCEPT ![current] = "killed"]
          /\ pipes' = [pipes EXCEPT ![current] = FALSE]
     ELSE UNCHANGED <<proc, pipes>>
  /\ UNCHANGED <<cxAccepted, queue, drain, current, streamError, verdict, interrupted, disposed, reported, errors>>

ChildStep ==
  \/ StreamFails
  \/ \E i \in Instr : Exit(i) \/ ReleasePipes(i) \/ ObeyTerm(i)

CodexNext ==
  \/ Accept
  \/ \E i \in Instr : Settle(i)
  \/ Continue
  \/ \E c \in Interrupter : CallInterrupt(c)
  \/ \E c \in Disposer : CallDispose(c)
  \/ \E c \in Stopper : CloseSeen(c) \/ GraceOver(c)
  \/ ChildStep

\* Node runs every event and timer that is due.  A child that nobody stopped ends
\* one day, and what holds its pipes with it; a child that was told to stop need not.
CodexFairness ==
  /\ WF_codexVars(\E i \in Instr : Settle(i))
  /\ WF_codexVars(\E i \in Instr : ReleasePipes(i) \/ (Exit(i) /\ ~Stopped))
  /\ WF_codexVars(Continue)
  /\ WF_codexVars(\E c \in Stopper : CloseSeen(c) \/ GraceOver(c))

CodexSpec == CodexInit /\ [][CodexNext]_codexVars /\ CodexFairness

-----------------------------------------------------------------------------
CodexTypeOK ==
  /\ cxAccepted \in 0..MaxInstr
  /\ queue \in Seq(Instr)
  /\ drain \in {"idle", "turn", "settled"}
  /\ current \in Instr \cup {None}
  /\ proc \in [Instr -> {"none", "unspawned", "alive", "done", "broken", "killed", "closed"}]
  /\ pipes \in [Instr -> BOOLEAN]
  /\ streamError \in BOOLEAN
  /\ verdict \in {"pending", "good", "bad"}
  /\ interrupted \in BOOLEAN /\ disposed \in BOOLEAN
  /\ stopper \in [Stopper -> {"idle", "waiting", "returned"}]
  /\ reported \in Seq(Instr)
  /\ errors \in Nat

\* A child that has not closed is the one of the turn that drain awaits: there is
\* never a second one in the same thread and working directory, however sends,
\* interrupts and ends of turns interleave (worker.ts:40, "serializes prompts").
OneChildAtATime ==
  \A i \in Instr : proc[i] \notin {"none", "closed"} => drain = "turn" /\ current = i

\* A Codex session is a TurnQueue: see there what this promises the manager.
Turns == INSTANCE TurnQueue WITH
  MaxTurns  <- MaxInstr,
  accepted  <- cxAccepted,
  begun     <- cxAccepted - Len(queue),
  working   <- drain # "idle",
  completed <- {reported[n] : n \in 1..Len(reported)},
  failed    <- errors > 0,
  stopped   <- Stopped

ImplementsTurnQueue == Turns!TurnSpec

\* Every call of interrupt or dispose returns, and from then on no child is left
\* for good, whatever it does with SIGTERM (worker.ts:102).
StopEndsChild ==
  (\E c \in Stopper : stopper[c] # "idle") ~>
    /\ \A c \in Stopper : stopper[c] # "waiting"
    /\ \A i \in Instr : proc[i] \in {"none", "closed"}
=============================================================================
