----------------------------- MODULE TurnQueue ------------------------------
(***************************************************************************)
(* What a work session relies on in a worker that runs one turn at a time: *)
(* instructions are worked on one by one in the order they were accepted,  *)
(* none waits while nothing is worked on, each is reported at most once,   *)
(* and a worker that was stopped reports nothing more.                     *)
(***************************************************************************)
EXTENDS Naturals

CONSTANT MaxTurns  \* bound: instructions accepted in a behaviour

VARIABLES
  accepted,   \* how many instructions were accepted
  begun,      \* how many of them no longer wait
  working,    \* the last one begun is being worked on
  completed,  \* the ones reported as done
  failed,     \* the worker reported an error
  stopped

turnVars == <<accepted, begun, working, completed, failed, stopped>>

TurnInit ==
  /\ accepted = 0 /\ begun = 0
  /\ working = FALSE
  /\ completed = {}
  /\ failed = FALSE
  /\ stopped = FALSE

Submit ==
  /\ accepted < MaxTurns
  /\ accepted' = accepted + 1
  /\ IF working \/ stopped THEN UNCHANGED <<begun, working>>
                           ELSE begun' = accepted' /\ working' = TRUE
  /\ UNCHANGED <<completed, failed, stopped>>

Complete ==
  /\ working /\ ~stopped
  /\ completed' = completed \cup {begun}
  /\ IF begun < accepted THEN begun' = begun + 1 /\ UNCHANGED working
                         ELSE working' = FALSE /\ UNCHANGED begun
  /\ UNCHANGED <<accepted, failed, stopped>>

\* A failed turn takes the instructions behind it with it.
Fail ==
  /\ working /\ ~stopped
  /\ failed' = TRUE
  /\ begun' = accepted /\ working' = FALSE
  /\ UNCHANGED <<accepted, completed, stopped>>

Stop ==
  /\ stopped' = TRUE
  /\ begun' = accepted
  /\ UNCHANGED <<accepted, working, completed, failed>>

WindDown ==
  /\ working /\ stopped
  /\ begun' = accepted /\ working' = FALSE
  /\ UNCHANGED <<accepted, completed, failed, stopped>>

TurnNext == Submit \/ Complete \/ Fail \/ Stop \/ WindDown

TurnSpec == TurnInit /\ [][TurnNext]_turnVars
=============================================================================
