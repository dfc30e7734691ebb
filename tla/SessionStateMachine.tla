------------------------ MODULE SessionStateMachine ------------------------
(***************************************************************************)
(* The status of a work session and the table of its legal moves           *)
(* (src/services/sessions/stateMachine.ts, src/types/sessions.ts).         *)
(* Pure: every module about sessions extends it.                           *)
(***************************************************************************)

Terminal == {"completed", "failed", "cancelled"}

Waiting == {"needs_input", "awaiting_approval"}

\* A session in one of these should have a live worker; listResumable selects them.
ExpectsLiveWorker == {"starting", "working", "idle"} \cup Waiting

Status == ExpectsLiveWorker \cup {"interrupted"} \cup Terminal

\* Anything that is not in the table is refused by assertTransition.
AllowedTransitions(from) ==
  CASE from = "starting"    -> {"working", "idle", "failed", "cancelled", "interrupted"}
    [] from \in {"working", "idle"} ->
         ({"working", "idle"} \ {from}) \cup Waiting \cup Terminal \cup {"interrupted"}
    [] from \in Waiting     -> {"working", "idle", "failed", "cancelled", "interrupted"}
    [] from = "interrupted" -> {"working", "idle", "failed", "cancelled"}
    [] OTHER                -> {}

\* Staying put is always allowed, in a terminal status too.
CanTransition(from, to) == from = to \/ to \in AllowedTransitions(from)

AcceptsInstruction == {"working", "idle", "interrupted"} \cup Waiting

\* The sweep of the reaper: listResumable plus the interrupted sessions.
Reapable == ExpectsLiveWorker \cup {"interrupted"}
=============================================================================
