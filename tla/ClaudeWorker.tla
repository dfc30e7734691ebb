---------------------------- MODULE ClaudeWorker ----------------------------
(***************************************************************************)
(* A Claude work session: one conversation with the Agent SDK, fed through *)
(* the input queue, its tool calls decided one by one, its messages read   *)
(* until the stream is over.  The SDK and the process behind it are        *)
(* outside: the actions under "the SDK" say what they may do.              *)
(***************************************************************************)
EXTENDS PermissionPolicy, Sequences

CONSTANTS
  MaxSent,       \* bound: instructions pushed in a behaviour
  ToolUse,       \* tool_use ids
  CallOf,        \* the calls that are tried, a set of Call
  NoCall,        \* the call of a use that was not proposed
  ClaudeInterrupter, ClaudeDisposer   \* calls of interrupt and dispose

ASSUME ClaudeAssumption ==
  /\ MaxSent \in Nat
  /\ CallOf \subseteq Call
  /\ \A call \in CallOf : call.tool \in {"read", "control", "own"} => ~call.changes
  /\ NoCall \notin Call
  /\ ClaudeInterrupter \cap ClaudeDisposer = {}

ClaudeStopper == ClaudeInterrupter \cup ClaudeDisposer
NoItem == 0
NoUse  == [call |-> NoCall, at |-> "free"]
NoTest == [outcome |-> "absent"]

VARIABLES
  mode,          \* "none" before start, then "work", "plan" or "inspect"
  sent,          \* how many instructions were pushed
  buffer,        \* the queue's buffer
  reader,        \* its one iterator: "away" with the SDK, "waiting" for a push,
                 \* "handed" an item or the end it has not yet taken, "ended"
  handed,        \* what a waiting reader was handed: an item, or NoItem for the end
  taken,         \* history: the instructions the SDK got
  inputClosed,
  stream,        \* the SDK's messages: "none", "open", "over"
  aborted, claudeDisposed,
  claudeStop,    \* the calls of interrupt and dispose: "idle", "waiting", "returned"
  use,           \* every tool use: its call, and how far it has got
  inFlight,      \* inFlightTools
  approved,      \* history: the uses a user approved
  tests          \* accumulator.tests, with the use it was taken from

input       == <<sent, buffer, reader, handed, taken, inputClosed>>
ending      == <<stream, aborted, claudeDisposed, claudeStop>>
tools       == <<use, inFlight, approved, tests>>
claudeVars  == <<mode, input, ending, tools>>

ClaudeInit ==
  /\ mode = "none"
  /\ sent = 0 /\ buffer = <<>> /\ reader = "away" /\ handed = NoItem /\ taken = <<>>
  /\ inputClosed = FALSE
  /\ stream = "none" /\ aborted = FALSE /\ claudeDisposed = FALSE
  /\ claudeStop = [c \in ClaudeStopper |-> "idle"]
  /\ use = [t \in ToolUse |-> NoUse]
  /\ inFlight = {} /\ approved = {}
  /\ tests = NoTest

-----------------------------------------------------------------------------
(* The input queue and its two users.                                      *)

\* Fault: an item goes to the buffer, whoever waits.
PushToBuffer ==
  /\ sent' = sent + 1
  /\ IF inputClosed THEN UNCHANGED buffer ELSE buffer' = Append(buffer, sent')
  /\ UNCHANGED <<reader, handed>>

\* push of the next instruction.
Push ==
  /\ sent' = sent + 1
  /\ IF ~inputClosed /\ reader = "waiting"
     THEN reader' = "handed" /\ handed' = sent' /\ UNCHANGED buffer
     ELSE /\ buffer' = IF inputClosed THEN buffer ELSE Append(buffer, sent')
          /\ UNCHANGED <<reader, handed>>

ClaudeStart ==
  /\ mode = "none"
  /\ sent < MaxSent /\ ~claudeDisposed
  /\ mode' \in {"work", "plan", "inspect"}
  /\ stream' = "open"
  /\ Push
  /\ UNCHANGED <<taken, inputClosed, aborted, claudeDisposed, claudeStop, tools>>

ClaudeSend ==
  /\ mode # "none" /\ sent < MaxSent /\ ~claudeDisposed
  /\ Push
  /\ UNCHANGED <<mode, taken, inputClosed, ending, tools>>

\* The SDK calls next: the iterator runs to its next yield, return or await.
PullNext ==
  /\ stream = "open" /\ reader = "away"
  /\ \/ /\ buffer # <<>>
        /\ buffer' = Tail(buffer)
        /\ taken' = Append(taken, Head(buffer))
        /\ UNCHANGED reader
     \/ /\ buffer = <<>>
        /\ reader' = IF inputClosed THEN "ended" ELSE "waiting"
        /\ UNCHANGED <<buffer, taken>>
  /\ UNCHANGED <<mode, sent, handed, inputClosed, ending, tools>>

\* The iterator goes on after its await.
TakeHanded ==
  /\ reader = "handed"
  /\ IF handed = NoItem
     THEN reader' = "ended" /\ UNCHANGED taken
     ELSE reader' = "away" /\ taken' = Append(taken, handed)
  /\ handed' = NoItem
  /\ UNCHANGED <<mode, sent, buffer, inputClosed, ending, tools>>

\* close.
CloseInput ==
  /\ inputClosed' = TRUE
  /\ reader' = IF reader = "waiting" THEN "handed" ELSE reader

-----------------------------------------------------------------------------
(* interrupt and dispose.                                                  *)

ClaudeInterrupt(c) ==
  /\ claudeStop[c] = "idle"
  /\ claudeStop' = [claudeStop EXCEPT ![c] = IF mode = "none" THEN "returned" ELSE "waiting"]
  /\ UNCHANGED <<mode, input, stream, aborted, claudeDisposed, tools>>

\* The SDK has acknowledged the interrupt.
InterruptHeard(c) ==
  /\ claudeStop[c] = "waiting"
  /\ claudeStop' = [claudeStop EXCEPT ![c] = "returned"]
  /\ UNCHANGED <<mode, input, stream, aborted, claudeDisposed, tools>>

\* Fault: only a refused interrupt aborts; one that is never answered is waited for.
InterruptWaits(c) ==
  /\ claudeStop[c] = "waiting" /\ stream = "over"
  /\ claudeStop' = [claudeStop EXCEPT ![c] = "returned"]
  /\ aborted' = TRUE
  /\ UNCHANGED <<mode, input, stream, claudeDisposed, tools>>

\* It failed, or five seconds went by without an answer.
InterruptAborts(c) ==
  /\ claudeStop[c] = "waiting"
  /\ claudeStop' = [claudeStop EXCEPT ![c] = "returned"]
  /\ aborted' = TRUE
  /\ UNCHANGED <<mode, input, stream, claudeDisposed, tools>>

ClaudeDispose(c) ==
  /\ claudeStop[c] = "idle"
  /\ IF claudeDisposed
     THEN /\ claudeStop' = [claudeStop EXCEPT ![c] = "returned"]
          /\ UNCHANGED <<inputClosed, reader, aborted, claudeDisposed>>
     ELSE /\ claudeDisposed' = TRUE
          /\ CloseInput
          /\ aborted' = TRUE
          /\ claudeStop' = [claudeStop EXCEPT ![c] = IF mode = "none" THEN "returned" ELSE "waiting"]
  /\ UNCHANGED <<mode, sent, buffer, handed, taken, stream, tools>>

\* consumePromise settles when the stream is over.
DisposeReturns(c) ==
  /\ claudeStop[c] = "waiting" /\ stream = "over"
  /\ claudeStop' = [claudeStop EXCEPT ![c] = "returned"]
  /\ UNCHANGED <<mode, input, stream, aborted, claudeDisposed, tools>>

\* The messages end, by themselves or because of the abort.
StreamEnds ==
  /\ stream = "open"
  /\ stream' = "over"
  /\ UNCHANGED <<mode, input, aborted, claudeDisposed, claudeStop, tools>>

-----------------------------------------------------------------------------
(* Tool calls.  A use is free, proposed, asking (the user), allowed,       *)
(* denied, running, and then good or bad by its exit status, cut off or    *)
(* moved to the background without one.                                    *)

At(t, from, to) ==
  /\ use[t].at = from
  /\ use' = [use EXCEPT ![t].at = to]

\* handleAssistant: the message that announces the call.
Propose(t) ==
  /\ stream = "open" /\ use[t].at = "free"
  /\ \E call \in CallOf : use' = [use EXCEPT ![t] = [call |-> call, at |-> "proposed"]]
  /\ inFlight' = inFlight \cup {t}
  /\ UNCHANGED <<mode, input, ending, approved, tests>>

\* canUseTool: handleToolPermission up to its await.
Permit(t) ==
  /\ use[t].at = "proposed"
  /\ At(t, "proposed", CASE Decision(use[t].call, mode = "work") = "allow" -> "allowed"
                         [] Decision(use[t].call, mode = "work") = "deny"  -> "denied"
                         [] OTHER                                          -> "asking")
  /\ UNCHANGED <<mode, input, ending, inFlight, approved, tests>>

\* The user approves; or declines, or the request times out or is abandoned.
Answered(t) ==
  /\ \/ At(t, "asking", "allowed") /\ approved' = approved \cup {t}
     \/ At(t, "asking", "denied") /\ UNCHANGED approved
  /\ UNCHANGED <<mode, input, ending, inFlight, tests>>

\* The SDK runs what was allowed.
RunTool(t) ==
  /\ stream = "open"
  /\ \/ At(t, "allowed", "running")
     \/ \E end \in {"good", "bad", "cut", "background"} : At(t, "running", end)
  /\ UNCHANGED <<mode, input, ending, inFlight, approved, tests>>

Over == {"denied", "good", "bad", "cut", "background"}

\* The result is an error for a call that was denied, cut off or exited badly; no
\* exit status found in it counts as 1, and as 0 when it is no error.
TestOutcome(at) == IF at \in {"good", "background"} THEN "passed" ELSE "failed"

\* handleToolResult.
Result(t) ==
  /\ stream = "open" /\ t \in inFlight /\ use[t].at \in Over
  /\ inFlight' = inFlight \ {t}
  /\ tests' = IF use[t].call.tool = "bash" /\ use[t].call.test
              THEN [outcome |-> TestOutcome(use[t].at), of |-> t] ELSE tests
  /\ UNCHANGED <<mode, input, ending, use, approved>>

ToolStep ==
  \E t \in ToolUse : Propose(t) \/ Permit(t) \/ Answered(t) \/ RunTool(t) \/ Result(t)

StreamStep ==
  \/ ClaudeSend
  \/ PullNext \/ TakeHanded
  \/ \E c \in ClaudeInterrupter : ClaudeInterrupt(c) \/ InterruptHeard(c) \/ InterruptAborts(c)
  \/ \E c \in ClaudeDisposer : ClaudeDispose(c) \/ DisposeReturns(c)
  \/ StreamEnds

ClaudeNext == ClaudeStart \/ StreamStep \/ ToolStep

\* The grace of an interrupt is a timer; an aborted SDK ends its messages.  Nothing
\* says that the SDK reads or hears an interrupt.
ClaudeFairness ==
  /\ WF_claudeVars(\E c \in ClaudeInterrupter : InterruptAborts(c))
  /\ WF_claudeVars(\E c \in ClaudeDisposer : DisposeReturns(c))
  /\ WF_claudeVars(StreamEnds /\ aborted)

ClaudeSpec == ClaudeInit /\ [][ClaudeNext]_claudeVars /\ ClaudeFairness

-----------------------------------------------------------------------------
ClaudeTypeOK ==
  /\ mode \in {"none", "work", "plan", "inspect"}
  /\ sent \in 0..MaxSent
  /\ buffer \in Seq(1..MaxSent)
  /\ reader \in {"away", "waiting", "handed", "ended"}
  /\ handed \in 0..MaxSent
  /\ taken \in Seq(1..MaxSent)
  /\ inputClosed \in BOOLEAN /\ aborted \in BOOLEAN /\ claudeDisposed \in BOOLEAN
  /\ stream \in {"none", "open", "over"}
  /\ claudeStop \in [ClaudeStopper -> {"idle", "waiting", "returned"}]
  /\ \A t \in ToolUse :
       \/ use[t] = NoUse
       \/ /\ use[t].call \in Call
          /\ use[t].at \in Over \cup {"proposed", "asking", "allowed", "running"}
  /\ inFlight \subseteq ToolUse /\ approved \subseteq ToolUse
  /\ tests \in {NoTest} \cup [outcome : {"passed", "failed"}, of : ToolUse]

\* However pushes, reads and a close interleave, the SDK gets every instruction once
\* and in order, nobody waits beside a full buffer or a closed queue, and a queue that
\* was closed ends only when it is empty (asyncQueue.ts:23, "after draining").
InputInOrder ==
  /\ taken \o (IF handed = NoItem THEN <<>> ELSE <<handed>>) \o buffer = [n \in 1..sent |-> n]
  /\ reader = "waiting" => buffer = <<>> /\ ~inputClosed
  /\ reader = "ended" => buffer = <<>> /\ inputClosed

Ran(t) == use[t].at \in {"running", "good", "bad", "cut", "background"}

\* Where a call reaches when it opens its paths; of a command, those that are checked:
\* what is below a benign prefix is not (permissions.ts:353).
Reaches(call) == {p.real : p \in {q \in call.paths : call.tool # "bash" \/ q.kind # "benign"}}

\* The file tools are held to their bounds whatever anybody approves: in a session that
\* was not started to work none of them changes anything, none opens a sensitive or
\* denied place, and none leaves the project, or the readable paths, that the
\* configuration does not let leave it (permissions.ts:475, paths.ts:127).
FileToolsKeepTo(call) ==
  /\ mode # "work" => ~call.changes
  /\ call.tool \in {"read", "write"} =>
       /\ \A p \in call.paths : p.kind # "sensitive"
       /\ "denied" \notin Reaches(call)
       /\ call.tool = "write" /\ ~OutsideWrite => Reaches(call) \subseteq {"project"}
       /\ call.tool = "read" /\ ~OutsideRead => Reaches(call) \subseteq {"project", "readable"}

\* A command is held to what its text shows, which is less: in such a session each of
\* its segments starts as an inspection, no path in it is sensitive by name, and what it
\* names outside of the permitted places the user approved in that very call
\* (permissions.ts:342).  An inspection whose output goes into a file is an inspection all
\* the same (permissions.ts:168), and what a deny rule refuses can be approved (357) or
\* lies below a benign prefix (353): a command is not held to call.changes, nor to "denied".
CommandShows(call, agreed) ==
  /\ mode # "work" => call.segments \subseteq {"READ_ONLY"}
  /\ ~call.climbs /\ \A p \in call.paths : p.kind # "sensitive"
  /\ ~OutsideRead => Reaches(call) \subseteq {"project", "readable"} \/ agreed

\* However calls are proposed, asked about, answered and run, none runs beyond these
\* bounds.
CallsAreSanctioned ==
  \A t \in ToolUse : Ran(t) =>
    IF use[t].call.tool = "bash" THEN CommandShows(use[t].call, t \in approved)
                                 ELSE FileToolsKeepTo(use[t].call)

\* Every interrupt and every disposal returns, though the SDK never answers, and
\* after a disposal the stream is over (worker.ts:205, "not a stop if it can wait forever").
EveryStopReturns ==
  (\E c \in ClaudeStopper : claudeStop[c] = "waiting")
    ~> \A c \in ClaudeStopper : claudeStop[c] # "waiting"

\* The test summary of a session comes from a test command that was seen to exit
\* (types/sessions.ts:138, "Absent when no test command actually ran").
TestsOnlyIfRan == tests # NoTest => Ran(tests.of)
=============================================================================
