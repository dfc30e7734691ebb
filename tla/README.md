# Verification of claude-mcp-orchestrator

TLA+ specifications, TLC models and TLAPS proofs for the orchestrator in `src/`: one Node
process that lets an assistant start, steer and stop coding sessions (Claude Code or Codex),
answer their questions, and look at the projects, machines and boards around them.

Paths below are relative to the repository's code directory, `src/src/`.

## Inventory of the system

| Part | State | Operations | What is hard | What makes it correct |
|---|---|---|---|---|
| Session state machine (`services/sessions/stateMachine.ts`, `types/sessions.ts`) | none | the table of legal moves, predicates on statuses | nothing by itself | only an ask is ever refused a move |
| Session manager (`services/sessions/manager.ts`) | map of workers, recoveries in flight | startSession, sendInstruction, respond, cancel, worker callbacks, reaper, recoverOnStartup, shutdown | awaits in recovery and in cancel, late reports of workers, restarts | statuses tell the truth, finished sessions leave nothing behind, one writer per project |
| Session store (`services/sessions/sessionStore.ts`) | `work_sessions`, `project_write_locks`, `pending_requests`, progress, artifacts | create, setStatus, locks, requests | a kill between two statements of one handler | locks and requests fit the statuses |
| Pending request broker (`services/sessions/pendingRequestBroker.ts`) | promises and timers of open questions | ask, answer, abandonSession | an answer racing the timer, sibling questions, restarts | who waits can be answered, who answers reaches somebody |
| Claude worker (`services/claude/worker.ts`, `asyncQueue.ts`) | input queue, abort signal, tool calls in flight, test summary | start, send, interrupt, dispose, tool permission, consume | pushes against a waiting reader, an SDK that never answers, results of calls that never ran | instructions arrive once and in order, every stop returns, a file tool keeps to what mode and switches allow, a command to what its text shows |
| Permission policy and paths (`security/permissions.ts`, `paths.ts`) | none | classifyToolCall, FilesystemScope | an order of early returns, symlinks | an inspecting session lets no tool change a file, nor a command that does not look like an inspection |
| Codex worker (`services/codex/worker.ts`) | pending instructions, one child per turn, draining | start, send, interrupt, dispose, drain | instructions queued while a turn ends, children that ignore SIGTERM | one turn at a time and in order, nothing left behind |
| Start and stop (`index.ts`, `app.ts`) | - | recover, listen, shutdown | order of recovery and listening | no request sees an unrecovered session |
| OAuth server and store (`security/oauth/`) | codes, tokens and their rotation chain, throttles | register, consent, token, refresh, revoke, prune | replays, retries, stops between two inserts, a changed token lifetime | codes once, chains revoked whole or reported cut, retries that take nothing away |
| Keys, principals, scopes (`board-keys.ts`, `principal.ts`, `scopes.ts`, `server/auth.ts`) | `board_keys` | create, revoke, authenticate | several kinds of credential in one namespace, a script beside the server | no credential opens more than was agreed to |
| Agentcoord and board clients (`services/board/*client.ts`) | leader and epoch, down cache | call with failover | lost replies, changing leaders, overlapping calls | a write is sent to a second node only if the first never had it |
| Board services and tools (`services/board/*service.ts`, `tools/*board*.ts`) | confirmed credentials, swarms, rate limiter windows | the tools, each a course of checks and operations | credentials exchanged and swarms ending in the middle of a request | operations carry the right credential and stay in reachable projects |
| Project registry, capability cache, memory health, machines, system status | a cache and a read in flight each | list, get | overlapping reads, forced ones, failures | nobody is served what is older than asked for, or waits for what is over |
| Context assembler (`context/assembler.ts`) | section cache | assemble, capabilities | deadlines, bounded pool, cache reuse, rounding | always answers, sections never cut for a smaller budget |
| HTTP and MCP surface, tools, redaction, config, logging, database, providers of context | little | routing, patterns and formatting | - | - |

The session parts share one turn-based process: the manager calls the store (synchronous
SQLite statements, each its own transaction), the workers call the manager back
(`onTurnComplete`, `onError`, `askUser`, `requestApproval`), the broker's promises connect
`respond` with the tool call that waits in the worker, and the reaper runs on an interval.
The workers see only their callbacks; the board tools see the client through one `call`;
authentication stands in front of every tool. Everything but the database is lost in a stop.

## Modules

| Module | What it is |
|---|---|
| `SessionStateMachine` | the statuses and the table of moves, as sets and one operator |
| `SessionManager` | manager, store, locks, broker and workers, as one state machine: they share every handler |
| `ExclusiveProjects` | abstract: a writing session owns its project from start to end |
| `CodexWorker` | a Codex session: drain, the child of a turn, interrupt and dispose |
| `TurnQueue` | abstract: what a session relies on in a worker that runs one turn at a time |
| `PermissionPolicy` | a tool call's class and what the policy says of it (pure operators) |
| `ClaudeWorker` | a Claude session: input queue, interrupt and dispose, tool calls; extends `PermissionPolicy` |
| `AccessScopes` | scopes: parsing, options on the consent page, the tools of each (pure operators) |
| `OAuthTokens` | refresh chains and their access tokens; extended by `OAuthServer` (consents, codes, throttles, restarts) |
| `OAuthClient` | a client of that server, which may lose an answer and asks again (external) |
| `AccessDoor` | deployments, board keys, authentication at both doors; extends `OAuthServer` and `AccessScopes` |
| `BoardClient` | both clients of the coordination services, on a cluster that changes its leader |
| `BoardServices` | both services above them: courses of operations, credentials, swarms, limits |
| `CachedReads` | the five caches of slow reads |
| `ContextAssembler` | the assembler, its pool, deadlines, cache and fitting |
| `MCSessionManager`, `MCAccess`, `MCComponents` | the instances for TLC |
| `SessionManagerProofs`, `SessionRefinementProofs`, `ExclusiveProjectsProofs` | theorems about sessions |
| `WorkerProofs` | theorems about `ClaudeWorker` and `CodexWorker` |
| `AccessProofs` | theorems about `OAuthTokens`, `OAuthServer` and `AccessDoor` |
| `BoardProofs` | theorems about `BoardClient` and `BoardServices` |
| `CacheProofs` | theorems about `CachedReads` and `ContextAssembler` |
| `ComponentsProofs` | that the sum in `MCComponents` implements each of its components |

An action is one turn of the event loop, from an entry point or a continuation to the next
await, in every module.

### `SessionManager`

`startSession` from the insert of the row to its answer is one action (with its
outcomes `StartLaunched`, `StartRejected`, `StartFailed`), a recovery is `RecoverBegin` (up to
the await of the project), `RecoverJoin` (a caller that finds it in flight) and `RecoverDone` or
`RecoverRefused` (after the await), and a cancel is `CancelInterrupt` (await interrupt),
`CancelDispose` (await dispose) and `CancelFinish`, with the shorter ways through it as actions
of their own. The callbacks of a worker are `Ask` (or `AskRefused`, when the session is in no status
to wait: setStatus throws and nothing is stored), `TurnComplete`, `WorkerFails`, and
`WorkerEnds` for a message stream that ends silently; the process it drives is `child`:

- `running`: it takes instructions;
- `ended`: its stream is over but the worker was not disposed of, so instructions are still
  accepted and nobody reads them;
- `disposed`: told to stop, may still report and ask until `ChildExit`;
- `none`: gone, or never there.

`turns` counts the running turn and the queued instructions. `Finish` is what every end of a
session shares: setStatus deletes its locks, its open requests are voided, its waiters
rejected. Rows are never deleted, so `absent` means "not created yet".

A stop (`Stop`) loses the memory and keeps the database; `Restart`, `MarkInterrupted`,
`VoidInterrupted` and `Listen` are recoverOnStartup statement by statement, before the port
opens. With `TornHandlers` a kill may also land between two statements of a running handler:
`TornStart`, `TornAsk`, `TornRespond`, `TornVoid`, and a `Stop` in the middle of
recoverOnStartup. Handlers whose statements lead, when cut, to a state that some other action
already reaches have no torn action of their own.

### `CodexWorker` and `TurnQueue`

The n-th instruction accepted is n, and so is its child. `Accept` is start or send with the
synchronous part of drain; `RunNext` is the head of drain's loop and runTurn up to its await;
`Settle` is the event that settles a turn, and `Continue` the rest of the loop, a step later,
because other continuations of the tick may run in between. Outside are the children: they exit
by themselves (`Exit`), leave descendants that hold their pipes so that `close` does not come
(`pipes`), fail to spawn, and obey SIGTERM or not (`ObeyTerm`). `CallInterrupt` and
`CallDispose` are the synchronous parts of a stop, `CloseSeen` and `GraceOver` how it returns.
A child that a signal ended has no exit code for the worker, so a second stop waits for it too.

`TurnQueue` promises what the manager relies on: instructions begin in order, none waits while
nothing is worked on, each is reported at most once, a failed turn and a stop drop those that
wait, and a stopped worker reports nothing. `CodexWorker` maps onto it by the length of its
queue, `drain` and the history of reports.

### `ClaudeWorker` and `PermissionPolicy`

`Push`, `CloseInput`, `PullNext` and `TakeHanded` are the input queue and the two sides of its
iterator; `handed` is the item a pending read was resolved with but has not taken. Interrupt
and dispose share `claudeStop`, with the grace of `settledWithin` as `InterruptAborts`. The SDK
is outside: it reads or does not, acknowledges an interrupt or does not, ends its messages by
itself or after the abort.

A tool use goes from `Propose` (the assistant's message) over `Permit` (the permission
callback up to its await) and `Answered` to `RunTool` and `Result`. `Permit` asks
`PermissionPolicy` about a record of what the classifier tells apart: the kind of the tool, the
class each segment of a command gets, its paths by where their names and their real places lie,
what is named in it, and, beside all that, whether it changes anything (`changes`), which the
classifier does not see. How texts are split and matched is not modelled. The model takes
every call to come before the permission callback; settings of the SDK may let tools through
without it, and that is outside of this code.

### `AccessScopes`, `OAuthTokens`, `OAuthServer`, `AccessDoor`

Tokens are named by the order in which refresh tokens are minted, and the access token minted with
one has its number. `IssueTokenPair`, `Refresh`, `Replay`, `RevokeRefresh`, `RevokeAccess` and
`PruneTokens` are the store. Each start reads the configuration anew, and `lifetime` may be
another one then (`Reconfigure`): so rows of one chain need not expire in order, a link in the
middle may be swept first, and the walk of a theft verdict may be cut there (`Truncated`), which
the server logs. Whoever holds a plaintext token may present it at any time, so no action asks who
does. A token request cut by a kill between its two inserts is `TornRedeem` and `TornRotation`,
followed by the next start with its sweep (`LoseMemory`, `Swept`). A consent goes from `Authorize`
over `Deny` or `Approve` to `Redeem`; a request with another client, redirect URI or verifier is
`right = FALSE`, and it burns the code. `clock` counts ticks, and every lifetime is a number of
them; the throttle reads the clock twice (`Check` at `clock`, `Record` at `t`), and `guesses` is
the history of wrong passwords by the time they were made at. There is one address for each
throttle. With a `Grace` of 0 every replay is a theft; with more, one after the grace.

`picked` is what the owner chose on the consent page, apart from `granted`, what the code grants.

`OAuthClient` puts one client beside the server: the answer that carries a refresh token may not
reach it (`Answer`), and it presents the token it holds again (`Retry`).

`AccessDoor` adds what the server starts with (`SafeDeployment`), the keys a script creates and
revokes in the same database, and `Admitted`: the principals a credential is admitted as.
`revokeClientTokens` and `listClients` have no caller and are left out.

### `BoardClient`

`backend` chooses the client: they share the loop and differ in what they make of a reply
(`Agentcoord`, `Board`). A call (`bcall`) holds the locals of its loop, its queue and its set
`tried` as one queue without repetition; each time a busy node is asked again the attempt is
`Counted`; an answer is a kind, an epoch, a hint and, as history, the epoch it was executed in.
`Execute` and `NotExecuted` are the network and the nodes: a request may be executed and its reply
lost, fail after it was executed, or be answered by something that cannot be read (`strange`).
`Elect` and `StepDown` change the leader, and a deposed one goes on for a while. The hour after
which the leader is forgotten and the seconds of the down cache end at any time; the pause before
a busy node is asked again is part of the time the request takes. A success does not clear the
down cache, and the `signal` parameter has no caller.

### `BoardServices`

A tool is a course: the checks and operations it does, in order (`AgentcoordCourse`,
`BoardCourse`). Each operation reads the credential file (`ReadToken`), takes from the limit
and, if the credential is not the one last confirmed, asks whose it is (`Admit`, `Verify`), is
served by the cluster (`Serve`) and received (`Received`), or fails (`Refused`). The cached list
of swarms is read again inside `Check` when it is old. Outside, the owner exchanges files
(`TokenExchanged`), swarms end and begin, and jobs change hands. The seven tools of the older
service are courses of their own. Windows and the minute of the swarm list end at any time. The
refresh of the swarm list is not shared: of two that overlap, the older answer may be kept, as
in the code. The `enabled` flag and `allowVisionSwarms` off are not modelled.

### `CachedReads`

One module for five caches that differ in two points: whether callers share a running read
(`Shares`) and whether they may insist on a new one (`Insists`). A read is named by the caller
that began it, and `past` notes, when a call is made, the reads it must not be answered with.
`Clear` is the `.finally` of the registry and of the memory provider, which clears whichever
read is registered by now; entries expire at any time.

### `ContextAssembler`

A text is its length. A request has its locals and, for each provider, a phase and a result:
`Begin` takes the next provider from the cache, finds it not applicable or probes it, `Probed`
and `Fetched` are its answers, `TimesOut` the deadline that all of it shares. `made` is the
budget a section was made for. `FitSection`, `GapNotice` and `Compose` are the fitting, with the
rounding of `estimateTokens`; separators count where the code counts
them, and `breaks` counts them all.

### Mutated forms

An operator commented `Fault:` before a definition is that definition with a plausible bug in
it. No specification uses it; it shows that a property sees the difference.

## Checked with TLC

| Run | Instance | Shows |
|---|---|---|
| `sessions` | 2 sessions, 1 project, 1 question, 1 cancelling client, 1 stop, turns atomic | locks, statuses, questions and processes agree in every interleaving; refinement of `ExclusiveProjects` |
| `sessions_torn` | 1 session, 2 questions at once, 2 cancelling clients, 2 stops, torn turns, fairness | what a finished, waiting or cancelled session promises survives kills between two statements; sessions past their cap end and cancels return |
| `access` | 2 consents, 2 clients, 3 refresh tokens, 2 keys of one name, a clock of 5, kills inside a token request, a lifetime of 1 or 3 at each start, all safe deployments | chains, replays, cut walks, retries, codes, throttle, and what every credential opens |
| `components` | one of the other components in each behaviour, see below | turns, input, tool calls, writes, epochs, credentials, reads, sections and their budget; refinement of `TurnQueue`; stops, calls and requests return |
| `sessions_idle` | violation | a session is shown idle while instructions are queued |
| `sessions_two_writers` | violation | a kill inside startSession leads to two writers in one project |
| `sessions_lost_void` | violation | a kill inside recoverOnStartup leaves an open question nobody waits on |
| `sessions_two_cancels` | violation | a second cancel reports the session stopped while its process lives |
| `sessions_siblings` | violation | the timer of one question voids another whose worker still waits |
| `lost_reply` | violation | a client that lost the answer to a refresh does not get the token by asking again |
| `worker_tests` | violation | a refused test command is reported as tests that failed |
| `board_garbled_reply` | violation | a write answered by a reply that cannot be read is executed twice |

`components` is a sum: `part` is chosen at the start, that part moves, and the others stay as
they began, so its state space is the sum of theirs. They share no state in the code either.

### Bounds

Sessions: two are what a lock needs to be contended, and a session is not affected by a
third one except through a lock. `MaxSends = 2` lets a second caller share a recovery,
`MaxTurns = 3` holds the resume prompt and both instructions. One stop is enough to lose the
memory in every state; two let a kill land inside the recovery from the first. `MaxAsks` is 2 in
`sessions_torn` and `sessions_siblings`, and 1 elsewhere: a sibling changes only what becomes of
questions, and that a worker may be left with one nobody can answer is shown by itself.

Access: three links are a chain with a middle, and a replay of the first one has descendants of
two kinds; a clock of 5 passes every lifetime (access 1, grace 1, pending and code 1, window 2,
refresh 1 or 3, so that a link minted under the shorter one is swept before the link in front of
it). The constraint `Small` explores long chains with one consent, and two consents, two clients
or the keys with shorter ones, as nothing but the throttle and the clock relates them; the
lifetime changes while one client follows one chain that it does not revoke, for four ticks, in
which a walk can be cut; the name of a key is also the name of a client.

Codex worker: three instructions are one that runs and two that wait; an interrupt and two disposals
overlap. Claude worker: three instructions, an interrupt and two disposals; one tool use, with
every call of at most two segments and one path. Board client: a write and a read, repeated,
on two nodes and two epochs with one retry: the second node is where a write must not go. A hint
to a leader changes no order with two nodes. Board services: two requests of four, by two
identities of one agent whose file may hold either credential or none; one map slot for two
identities and two operations each minute, so both limits are reached. Reads: three callers, an
old read, a forced one and one that may join. Assembler: two requests, two
providers with different behaviour, two budgets, one slot in the pool and one in the cache.

Sessions, requests, instructions and calls are used up in every behaviour, so the runs set
`CHECK_DEADLOCK FALSE`.

### Fairness

Fairness is on what goes on by itself, and in the specification of the component that needs it.

- `SessionManager` (`FairSpec`, only in `sessions_torn`): the reaper's interval, the exit of a
  process that was told to stop (the SDK's abort), the continuation of a suspended cancel, and the
  steps of a start that has begun. None on clients, on the timers of questions, on recoveries, on
  models finishing a turn, or on a session reaching its cap.
- `CodexWorker`: due events and timers; a child that nobody stopped ends one day, and what holds
  its pipes with it. None on a child that was told to stop: the grace ends it.
- `ClaudeWorker`: the grace of an interrupt, and that an aborted SDK ends its messages, which is
  what the worker's `await` relies on. None on the SDK reading or acknowledging anything.
- `BoardClient`: a request is answered or times out, and what came back is read.
- `ContextAssembler`: the pool goes on and deadlines fire. None on providers.

### What the violations mean

1. `IdleMeansWaiting`: `finishTurn` stores `idle` after each result message, also when more
   instructions are queued; a recovery always queues two.
2. `OneWriterPerProject`: the row is inserted before the lock is claimed (the comment above it
   says the opposite) and `recoverWorker` claims none. It takes a kill between the two
   statements; `OneWriterTheorem` proves that nothing less will do.
3. `OpenHasWaiter`: `recoverOnStartup` marks a session interrupted and voids its requests in
   two statements, and the next start looks only at sessions that are not yet interrupted.
4. `StoppedMeansGone`: `dispose` returns at once when called a second time, so a second cancel
   does not wait for the process and frees the project while it lives. With one cancelling
   client the property holds (run `sessions`).
5. `TestsOnlyIfRan`: `handleToolResult` takes an error result without an exit status for exit
   status 1. The result of a call that was denied is such an error.
6. `WriteNeverRepeated`: a reply that is none of the expected kinds makes `call` go on to the
   next node, for a write too. `WriteAppliedOnce` says that this is the only way: it holds for
   every write that got no such reply.
7. `WaiterHasOpen`: the timer of one `ask` voids every open request of its session. A worker may
   make two tool calls at once; the row of the second is void then, an answer to it is refused,
   and its promise stays pending until its own timer. `WaitingIsAnswerable` says that the status
   does not invite such an answer.
8. `RetryRecovers`: within the grace a repeated refresh revokes nothing, but it is refused all the
   same. When the answer that carried the successor was lost, the successor stays live and nobody
   has it; the client goes back through consent. `RetryIsHarmless` is what does hold: the newest
   token of the chain keeps working for whoever received it.

Where a property says less than a text of the repository, and why:

- A command is held to what its text shows (`CallsAreSanctioned`). An inspection whose output goes
  into a file is `READ_ONLY` (`permissions.ts:168`) although "a read-only session refuses anything
  that is not a read" (475), unless the SDK's own plan mode refuses it; a path of a command that
  is denied can be approved (357), and below a benign prefix it is not looked at (353), although
  "deny rules are absolute" (`paths.ts:127`). The file tools keep to both.
- The budget of a context does not hold to the letter: titles and lines are estimated one by one
  without the breaks between them, and sections are added without the blank lines that join them,
  so `estimatedTokens` may exceed `budgetTokens`. `FitsButForBreaks` says that this is all.
- A theft verdict may leave a live successor when the token lifetime was made shorter before
  (`store.ts:380`). `TheftEndsChain` excepts the walks that were reported cut, and
  `CutOnlyIfShortened` says that there are no others.

Observed, and contradicted by no text: after a forced refresh of the registry an older scan may
end last, and then its result is what the cache holds.

## Proved with TLAPS

The theorems hold for any values of the constants that the named assumption of each module
allows. The assumptions say that sentinels are no ids and bounds are naturals, and little more.

Sessions, from `ConstantsAssumption` (a worker's queue holds more than the instructions of one
recovery):

- `TypeCorrect`: types, one step per action.
- `IInv`, the inductive invariant. None of the properties is inductive alone. A finished
  session leaves nothing only because a process without a map entry belongs to a finished
  session (`ProcessesOwned`), so that a late report cannot revive one; that in turn needs
  statuses and map to agree (`StatusIsHonest`), nothing in memory before the port opens
  (`MemoryEmpty`), recoveries only for stored sessions without a worker (`RecoveriesOwned`),
  and locks and requests that belong to unfinished sessions (`LocksOwned`, `RequestsOwned`).
  `LocksHeld` is the converse for locks; it needs that no kill lands inside startSession.
- From it: `StatusIsHonestTheorem`, `OneBuildTheorem`, and, assuming `~TornHandlers`,
  `WriterHoldsLockTheorem` and `OneWriterTheorem`.
- `WaitingIsAnswerableTheorem` (inductive relative to `IInv`), `SettledOnceTheorem`,
  `LegalMovesTheorem`, `StopIsFinalTheorem`: a suspended cancel keeps the map entry it found, or
  its session is finished, and either keeps a recovery away.
- `CallsInv`, about calls and questions in flight: what takes instructions is in the map, and a
  process told to stop belongs to a failed or completed session or a cancel waits for it
  (`DisposalsAwaited`, which is what `StoppedIsAwaitedTheorem` states for any number of clients);
  one client alone never waits for a session it cancelled before (`OneCancels`); an open question
  has its waiter or is in the session that recoverOnStartup voids next (`QuestionsAttended`).
- From both: `FinishedLeavesNothingTheorem`. That no process of a finished session was left
  running is `DisposalsAwaited`, the rest is `IInv`.
- From `CallsInv`: `StoppedMeansGoneTheorem`, assuming there is one cancelling client;
  `OpenHasWaiterTheorem`, assuming `~TornHandlers`. Neither hypothesis can be dropped: the runs
  `sessions_two_cancels` and `sessions_lost_void` show it.
- `RefinementTheorem`: assuming `~TornHandlers`, `SessionManager` implements
  `ExclusiveProjects`. Each action is read as an effect on lives, targets, locks and the map
  (`Effect`), and each effect is an abstract step (`EffectIsAbstractStep`).
- `AbstractOwnership`, `AbstractExclusive`: the abstract specification alone keeps its
  promise, assuming that its sentinels are no ids (`SentinelsDistinct`).

Codex, from `CodexAssumption`:

- `CodexTypes`, with `TurnHasInstr`: a turn is always about an instruction.
- `OneChildTheorem`: the property is inductive with the types; drain spawns only from "idle" or
  "settled", and both mean that every earlier child has closed.
- `CodexImplementsTurnQueue`. The mapping takes what has begun from the length of the queue, so
  the proof needs that the queue holds the instructions accepted last, in order
  (`QueueIsTheRest`), and that the turn is about the one before them and nothing waits while
  nothing runs (`TurnIsNext`). `AcceptSubmits`, `ContinueSettles` and `StopperStops` are the
  steps that `TurnQueue` sees.

Claude, from `ClaudeAssumption` and `PermissionAssumption`:

- `InputTheorem`. What was taken, the item in the reader's hand and the buffer, in a row, are the
  numbers of the instructions sent (`InputInv`). An item is handed over only to a reader that
  waits beside an empty buffer, which is why none overtakes another.
- `SanctionTheorem`. What was let through was allowed by the policy under the mode the session
  runs in, or was not denied and the user agreed (`Sanctioned`); a denial comes before any question
  to the user, so lemmas about `Decision` say what no approval can undo. A write outside of the
  project is governed by `OutsideWrite` alone: the policy looks at `OutsideRead` only for calls
  that read. For a command the theorem speaks of its text, and not of what it does.
- `ClaudeTypes`.

Authorization server and doors, from `TokenAssumption`, `ServerAssumption` and `DoorAssumption`
(`AccessProofs`). The theorems about tokens are over `OAuthSpec`; `AccessImplementsServer` says
that `AccessSpec`, the server behind its doors, implements it, so they hold there too. Kills
inside a token request are included.

- `OneLiveRefreshTheorem` and `OneChainTheorem`, by `ChainInv`: a chain has one link that is not
  revoked, expired or not, minted links and only those have a consent, and a consent whose code
  may still be redeemed has no link.
- `TheftEndsChainTheorem` and `CutOnlyIfShortenedTheorem`. Each link of a chain was replaced by the
  next one (`Lines`), so every set that is closed under the walk and holds a link holds all later
  ones (`Walks`): a walk that meets no missing row has reached them all, and what was replayed then
  stays without a live successor (`TheftLasts`), for any changes of the lifetime. As long as the
  lifetime was not shortened, links are minted, expire and are swept in one order (`InOrder`, the
  conditional half of `Expiries`), so no walk meets a missing row. The mutant of
  `CutOnlyIfShortened` is a sweep that deletes revoked rows early.
- `RetryIsHarmlessTheorem`, by `Keeps`: the last link of a chain that no late replay hit and that
  was not revoked is live until it expires.
- `GuessesTheorem`. `Tallied` splits the recent wrong passwords into those before the window of
  the throttle's entry, those within it and those after its last record, and bounds each; the
  clock may move between the two reads of it.
- `OAuthTypes` and `AccessTypes`. The types need that a consent page always has an option.
- `CallsAreCoveredTheorem`. What a code grants was among the options its page showed and is what
  the owner chose there (`Consents`), and a token row says what the consent of its chain says
  (`Deeds`).
- `IdentityTheorem`, from `Names` (two active keys have two names): no two holders write to the
  board as one session, though a client may be named like a key.

Board client, from `BoardAssumption`: `WriteAppliedOnceTheorem` and `NoStepBackTheorem`.
`BoardInv` says that a write that is still to be sent was not executed, and that one that was
executed got a reply after which it is not sent again (`Unrepeated`); and that a call asks for
an epoch as high as what was heard when it began, and so was what executed it (`Floored`).
`BoardTypes` adds where calls go and how often a busy node is asked (`Routes`): nothing in the
assignments bounds the count, only that it is raised and looked at before each try.

- `NoNodeTwiceTheorem`. What a call has still to ask has no node twice and not the one it asks now
  (`Fresh`), and putting a leader in front keeps both (lemmas on `MovedUp`).
- `AsksRunOutTheorem`. `Left` is a natural number for which every further request pays: going
  on to the next node gives up a whole round, and asking a busy one again one try. It is the safety
  half of `CallReturns`, for any number of nodes and any limit; the other half is that each
  request ends, which is fairness.

Board services, from `ServiceAssumption`, which says that the values for "no project" and
"nobody" are no ids, and that the rate is positive as the configuration demands:

- `CredentialTheorem`. `CredentialInv` says that what was confirmed for an agent belongs to that
  agent and that a request holds what it read until it has sent the operation (`Carries`):
  exchanging the file in between does no harm.
- `WorkTheorem`. What the cached list says was so once (`Noted`), and each request is at one of
  the points of its course, with what it has learned on the way there (`OnCourse`): where the
  job it takes lies was looked up in a project within reach, and the job it reports on was seen
  in its agent's list.
- `ServiceTypes`, with the bounds of the rate limiter (`LimiterInv`).

Caches, from `ReadsAssumption` and `AssemblerAssumption`:

- `AnswerIsFreshTheorem`, from the read that callers may join still running (`JoinsARunningRead`),
  and `WaitsForARunningReadTheorem`: a read that ends is handed to everybody who waits for it, in
  the same step, whichever read is registered by then.
- `NeverServedUpTheorem`. `AllFit`: a section was made for at least the budget of its request,
  and health is asked for only by requests that fit nothing.
- `EveryoneReportedTheorem`. Where health is asked for, every provider waits in the queue, is being
  asked or was heard (`Heard`), so when the queue is empty and nobody is asked all were. That
  `Order` is a sequence is part of `AssemblerAssumption`.
- `AssemblerTypes`, with the bounds of the pool and of the section cache. `PoolInv` adds that only
  requests for context fetch, so only sections made for a budget are kept.

The sum (`ComponentsProofs`): `ComponentsImplementEach` says that `ComponentsSpec` implements the
specification of each component, with its fairness, so the run `components` checks the
specifications that the theorems are about. `ComponentsTypes` follows from it and from
`CodexTypes`, `ClaudeTypes`, `BoardTypes`, `ServiceTypes`, `ReadsTypesInvariant` and
`AssemblerTypes`.

`NoNodeTwice`, `AsksRunOut` and `EveryoneReported` are stated beside their proofs, and no run checks
them.

Only model-checked is liveness: `ExpiredSessionEnds`, `EveryCancelReturns`, `StopEndsChild`,
`EveryStopReturns`, `CallReturns` and `AssemblyReturns`
(fairness and ENABLED are out of the prover's reach). The violation runs refute what they state
and need no proof. What `FitSection` and `Compose` compute for every section is induction over
data and is not proved either: `FitsButForBreaks` is only model-checked.

## Abstractions

Where a module says less than the code it stands for, beyond what the sections above name:

- `sendInstruction` to a live worker, and the end of a recovery, are one step each. In the code a
  few microtasks lie in between (`manager.ts:293`, `manager.ts:658`), in which only promises that
  were already settled can go on.
- `LoseMemory` and `Stop` lose everything at once; a graceful shutdown disposes of the workers and
  awaits them first (`manager.ts:1012`).
- The policy decides by the defaults of the configuration (`config/schema.ts:131`), which an owner
  may change for every class.
- An expired section leaves the cache of the assembler at once; in the code it stays, out of use,
  and counts toward the 200 until it is overwritten or evicted (`assembler.ts:361`).
- `allowVisionSwarms` is on: off, fewer projects are within reach (`agentcoord-service.ts:160`).

## Not modelled

- Texts: summaries, steps, notes, progress events and artifacts of sessions. Nothing reads them
  back for a decision.
- How a text is split and matched: the patterns of permissions and redaction, the fuzzy matching
  of projects, validation of single arguments. They are functions on strings without state, for
  which the tests beside them are the better tool. Their outcome is an input of the models.
- The child's command line in the Codex worker, and with it the resumption of a thread.
- The providers of context but for what the assembler and the health cache see, the adapters to
  memory, machines and system status but for their caches, and routing and formatting at the
  HTTP and MCP surface: they turn one call into another and keep nothing.
- Configuration, logging, schema and migrations: they run once, before anything else does.
- Code without a caller: the key-value cache, `invalidate` of the registry and of the machines,
  `fail` of the input queue, `revokeClientTokens` and `listClients`.
- How long the process of a failed session lives on: `failSession` does not wait for it, so it may
  be there in a freed project for as long as the abort takes (`manager.ts:911`). The model has
  such processes, `FinishedLeavesNothing` says that they were told to stop, and no property forbids them.
