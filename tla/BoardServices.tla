--------------------------- MODULE BoardServices ----------------------------
(***************************************************************************)
(* The coordination tools on their way to a cluster: which operations a    *)
(* tool sends and in which order, the checks between them, the credential  *)
(* read and confirmed for each one, the cached list of swarms and the rate *)
(* limits.  Requests overlap; the owner may exchange a credential file, a  *)
(* swarm end and a job change hands at any time.                           *)
(*                                                                         *)
(* The transport is BoardClient's matter: here an operation is served and  *)
(* answered, or it fails.                                                  *)
(***************************************************************************)
EXTENDS Naturals, Sequences, FiniteSets, Functions

CONSTANTS
  BoardRequest,        \* the requests: who calls which tool, for which project and job
  MaxRequests,         \* bound: requests made, each at most once
  BoardSession,        \* principal.board.sessionId
  AgentOf,             \* identities: session -> the agent configured for it
  Token, OwnerOf,      \* credentials, and the agent each of them belongs to
  NoToken,
  AllowedProject,      \* board.agentcoord.projects
  OtherProject,        \* the projects of the cluster that are not listed
  Job, ProjectOf,      \* jobs, and the project of each
  RatePerMinute,       \* readsPerMinute, writesPerMinute
  MaxKeys              \* MAX_KEYS

Agent     == Range(AgentOf)
Project   == AllowedProject \cup OtherProject
NoProject == "none"
Nobody    == "nobody"

\* The seven tools both services have; heartbeat and finish also without a project.
CodeTool ==
  {"board", "postTask", "claim", "release", "heartbeat", "heartbeatAll", "message", "finish", "finishAll"}

\* The tools only one of them has.
WorkTool == {"attention", "ack", "read", "projectList", "projectShow", "jobTake", "jobUpdate", "myJobs"}

BoardTool == CodeTool \cup WorkTool

ASSUME ServiceAssumption ==
  /\ DOMAIN AgentOf \subseteq BoardSession
  /\ DOMAIN OwnerOf = Token /\ NoToken \notin Token
  /\ ProjectOf \in [Job -> AllowedProject \cup OtherProject]
  /\ AllowedProject \cap OtherProject = {}
  /\ RatePerMinute \in Nat \ {0} /\ {MaxKeys, MaxRequests} \subseteq Nat
  /\ NoProject \notin Project /\ Nobody \notin Range(OwnerOf)
  /\ BoardRequest \subseteq [who : BoardSession, tool : BoardTool, project : Project, job : Job]

VARIABLES
  service,     \* which of the two services this is
  tokenFile,   \* the credential file of every agent
  verified,    \* agent -> the credential last confirmed to be that agent
  swarms,      \* whether the vision swarms were read, and which there were
  windows,     \* the two limiters: session -> count
  req,         \* every request: its locals, and how far it has got
  live,        \* external: the vision swarms there are
  holder,      \* external: the agent that works on a job
  wasLive,     \* history: the projects that ever were a vision swarm
  wasHolder    \* history: who ever worked on which job

serviceVars ==
  <<service, tokenFile, verified, swarms, windows, req, live, holder, wasLive, wasHolder>>

NotCalled == [at |-> "idle", project |-> NoProject, 
           todo |-> <<>>, token |-> NoToken, answer |-> {}]

ServiceInit ==
  /\ service \in {"agentcoord", "board"}
  /\ tokenFile \in [Agent -> Token \cup {NoToken}]
  /\ verified = [a \in Agent |-> NoToken]
  /\ swarms = [names |-> {}, read |-> FALSE]
  /\ windows = [kind \in {"read", "write"} |-> [s \in {} |-> 0]]
  /\ req = [r \in BoardRequest |-> NotCalled]
  /\ live \in SUBSET OtherProject
  /\ holder = [j \in Job |-> Nobody]
  /\ wasLive = live
  /\ wasHolder = {}

-----------------------------------------------------------------------------
(* The tools.                                                              *)

\* Fault: a job is taken by its number alone.
TakeByNumber == <<"reach", "job_take">>

\* jobTake looks the job up in the plan of a project that is reachable.
TakeInPlan == <<"reach", "project_show", "inPlan", "job_take">>

\* What a tool does, in order: "reach" refuses a project that is not reachable, "seek"
\* reads what is and refuses nothing, "claims" refuses a claim outside of the project,
\* "mine" and "inPlan" refuse a job that the answer before does not list; the rest are
\* the operations that are sent.
CodeCourse(tool) ==
  CASE tool = "board"                    -> <<"reach", "file_board">>
    [] tool \in {"postTask", "claim"}    -> <<"reach", "claims", "file_claim">>
    [] tool = "release"                  -> <<"reach", "claims", "file_release">>
    [] tool = "heartbeat"                -> <<"reach", "heartbeat">>
    [] tool = "heartbeatAll"             -> <<"heartbeat">>
    [] tool = "message"                  -> <<"reach", "send">>
    [] tool = "finish"                   -> <<"reach", "file_finish">>
    [] OTHER                             -> <<"file_finish">>

WorkCourse(tool) ==
  CASE tool \in {"attention", "ack", "read"} -> <<tool>>
    [] tool = "projectList"              -> <<"project_list">>
    [] tool = "projectShow"              -> <<"reach", "project_show">>
    [] tool = "jobTake"                  -> TakeInPlan
    [] tool = "jobUpdate"                -> <<"my_jobs", "mine", "reach", "job_update">>
    [] OTHER                             -> <<"my_jobs", "seek">>

AgentcoordCourse(tool) == IF tool \in CodeTool THEN CodeCourse(tool) ELSE WorkCourse(tool)

BoardCourse(tool) ==
  CASE tool = "board"                    -> <<"reach", "snapshot">>
    [] tool = "postTask"                 -> <<"reach", "claims", "post_task">>
    [] tool \in {"claim", "release"}     -> <<"reach", "claims", tool>>
    [] tool = "heartbeatAll"             -> <<"heartbeat">>
    [] tool = "finishAll"                -> <<"finish">>
    [] OTHER                             -> <<"reach", tool>>

\* The operations that take from the limit for reads.
ReadOps == {"file_board", "attention", "read", "project_list", "swarm_list", "project_show", "my_jobs", "snapshot"}

Checks == {"reach", "seek", "claims", "mine", "inPlan"}

-----------------------------------------------------------------------------
(* The limiter.                                                            *)

Opened(limiter, s) == [k \in DOMAIN limiter \cup {s} |-> IF k = s THEN 1 ELSE limiter[k]]

\* Fault: a new window is never refused.
TakeUnbounded(limiter, s, over) ==
  IF s \notin DOMAIN limiter \/ s \in over
  THEN [ok |-> TRUE, map |-> Opened(limiter, s)]
  ELSE [ok |-> limiter[s] < RatePerMinute, map |-> limiter]

\* Is the request counted in, and the windows afterwards; those of over have ended.
Take(limiter, s, over) ==
  LET full == Cardinality(DOMAIN limiter) >= MaxKeys
      kept == IF full THEN Restrict(limiter, DOMAIN limiter \ over) ELSE limiter
  IN IF s \notin DOMAIN limiter \/ s \in over
     THEN IF Cardinality(DOMAIN kept) >= MaxKeys
          THEN [ok |-> FALSE, map |-> kept]
          ELSE [ok |-> TRUE, map |-> Opened(kept, s)]
     ELSE IF limiter[s] >= RatePerMinute
          THEN [ok |-> FALSE, map |-> limiter]
          ELSE [ok |-> TRUE, map |-> [limiter EXCEPT ![s] = @ + 1]]

-----------------------------------------------------------------------------
(* A request.                                                              *)

Becomes(r, local) == req' = [req EXCEPT ![r] = local]
RequestEnds(how)    == [NotCalled EXCEPT !.at = how]
OnTo(local)   == IF Tail(local.todo) = <<>> THEN RequestEnds("done")
                 ELSE [local EXCEPT !.at = "next", !.todo = Tail(@), !.token = NoToken,
                                    !.answer = IF Head(Tail(local.todo)) \in {"inPlan", "mine"} THEN @ ELSE {}]

CallTool(r) ==
  /\ req[r].at = "idle" /\ Cardinality({o \in BoardRequest : req[o].at # "idle"}) < MaxRequests
  /\ service = "board" => r.tool \in CodeTool
  /\ Becomes(r, [NotCalled EXCEPT !.at = "next", !.project = r.project,
       !.todo = IF service = "board" THEN BoardCourse(r.tool) ELSE AgentcoordCourse(r.tool)])
  /\ UNCHANGED <<service, tokenFile, verified, swarms, windows, live, holder, wasLive, wasHolder>>

Within(local, names) ==
  IF Head(local.todo) = "seek" \/ local.project \in names THEN OnTo(local) ELSE RequestEnds("refused")

\* One check; reachable reads the swarms again when they are old.  Whether a minute has
\* passed since something was noted is open, here and in Admit.
Check(r) ==
  LET q == req[r] IN
    /\ q.at = "next" /\ Head(q.todo) \in Checks
    /\ \/ Head(q.todo) \in {"reach", "seek"} /\ service = "board" /\ Becomes(r, Within(q, AllowedProject))
       \/ Head(q.todo) \in {"reach", "seek"} /\ service = "agentcoord"
          /\ \E recent \in BOOLEAN : Becomes(r, IF recent /\ swarms.read
                                             THEN Within(q, AllowedProject \cup swarms.names)
                                             ELSE [q EXCEPT !.todo = <<"swarm_list">> \o @])
       \/ Head(q.todo) = "claims" /\ \E valid \in BOOLEAN : Becomes(r, IF valid THEN OnTo(q) ELSE RequestEnds("refused"))
       \/ Head(q.todo) = "inPlan" /\ Becomes(r, IF r.job \in q.answer THEN OnTo(q) ELSE RequestEnds("refused"))
       \/ Head(q.todo) = "mine"
          /\ Becomes(r, OnTo([q EXCEPT !.project = IF r.job \in q.answer THEN ProjectOf[r.job] ELSE NoProject]))
    /\ UNCHANGED <<service, tokenFile, verified, swarms, windows, live, holder, wasLive, wasHolder>>

\* resolve, up to what the file holds; the other service has no credential of its own.
ReadToken(r) ==
  LET q == req[r] IN
    /\ q.at = "next" /\ Head(q.todo) \notin Checks
    /\ \/ service = "board" /\ Becomes(r, [q EXCEPT !.at = "resolved"])
       \/ service = "agentcoord"
          /\ Becomes(r, IF r.who \in DOMAIN AgentOf /\ tokenFile[AgentOf[r.who]] # NoToken
                        THEN [q EXCEPT !.at = "resolved", !.token = tokenFile[AgentOf[r.who]]]
                        ELSE RequestEnds("refused"))
    /\ UNCHANGED <<service, tokenFile, verified, swarms, windows, live, holder, wasLive, wasHolder>>

\* Fault: an agent is confirmed once, whatever its file holds later.
ConfirmedOnce(a, token) == verified[a] # NoToken

Confirmed(a, token) == verified[a] = token

\* The limiter, and then the operation, or first the question whose credential it is.
Admit(r) ==
  LET q    == req[r]
      kind == IF Head(q.todo) \in ReadOps THEN "read" ELSE "write"
  IN
    /\ q.at = "resolved"
    /\ \E over \in SUBSET DOMAIN windows[kind] :
         LET took == Take(windows[kind], r.who, over) IN
           /\ windows' = [windows EXCEPT ![kind] = took.map]
           /\ Becomes(r, CASE ~took.ok -> RequestEnds("limited")
                [] took.ok /\ (service = "board" \/ Confirmed(AgentOf[r.who], q.token)) -> [q EXCEPT !.at = "sent"]
                [] OTHER -> [q EXCEPT !.at = "asking"])
    /\ UNCHANGED <<service, tokenFile, verified, swarms, live, holder, wasLive, wasHolder>>

\* The answer to file_board names the agent of the credential.
Verify(r) ==
  LET q == req[r] IN
    /\ q.at = "asking"
    /\ IF OwnerOf[q.token] = AgentOf[r.who]
       THEN Becomes(r, [q EXCEPT !.at = "sent"]) /\ verified' = [verified EXCEPT ![AgentOf[r.who]] = q.token]
       ELSE Becomes(r, RequestEnds("refused")) /\ UNCHANGED verified
    /\ UNCHANGED <<service, tokenFile, swarms, windows, live, holder, wasLive, wasHolder>>

\* The answer; that of project_list becomes the list of swarms, on which the project
\* that was asked for is decided.
Received(r) ==
  LET q == req[r] IN
    /\ q.at = "served"
    /\ IF Head(q.todo) = "swarm_list"
       THEN /\ swarms' = [names |-> q.answer, read |-> TRUE]
            /\ Becomes(r, Within([q EXCEPT !.todo = Tail(@), !.answer = {}], AllowedProject \cup q.answer))
       ELSE Becomes(r, OnTo(q)) /\ UNCHANGED swarms
    /\ UNCHANGED <<service, tokenFile, verified, windows, live, holder, wasLive, wasHolder>>

\* No answer, a refusal of the cluster, or an error on its side.
Refused(r) ==
  /\ req[r].at \in {"asking", "sent", "served"}
  /\ Becomes(r, RequestEnds("failed"))
  /\ UNCHANGED <<service, tokenFile, verified, swarms, windows, live, holder, wasLive, wasHolder>>

-----------------------------------------------------------------------------
(* The cluster, and the owner of the files.                                *)

Serve(r) ==
  LET q == req[r]  op == Head(q.todo)  as == IF service = "board" THEN r.who ELSE OwnerOf[q.token] IN
    /\ q.at = "sent"
    /\ Becomes(r, [q EXCEPT !.at = "served",
                 !.answer = CASE op = "swarm_list"   -> live
                              [] op = "project_show" -> {j \in Job : ProjectOf[j] = q.project}
                              [] op = "my_jobs"      -> {j \in Job : holder[j] = as}
                              [] OTHER               -> {}])
    /\ IF op = "job_take"
       THEN holder' = [holder EXCEPT ![r.job] = as] /\ wasHolder' = wasHolder \cup {<<as, r.job>>}
       ELSE UNCHANGED <<holder, wasHolder>>
    /\ UNCHANGED <<service, tokenFile, verified, swarms, windows, live, wasLive>>

\* A job is taken over by somebody else, or given back.
JobMoves(j) ==
  /\ holder[j] # Nobody
  /\ holder' = [holder EXCEPT ![j] = Nobody]
  /\ UNCHANGED <<service, tokenFile, verified, swarms, windows, req, live, wasLive, wasHolder>>

SwarmChanges(p) ==
  /\ live' = IF p \in live THEN live \ {p} ELSE live \cup {p}
  /\ wasLive' = wasLive \cup live'
  /\ UNCHANGED <<service, tokenFile, verified, swarms, windows, req, holder, wasHolder>>

TokenExchanged(a) ==
  /\ \E t \in (Token \cup {NoToken}) \ {tokenFile[a]} : tokenFile' = [tokenFile EXCEPT ![a] = t]
  /\ UNCHANGED <<service, verified, swarms, windows, req, live, holder, wasLive, wasHolder>>

ServiceNext ==
  \/ \E r \in BoardRequest : \/ CallTool(r) \/ Check(r) \/ ReadToken(r) \/ Admit(r) \/ Verify(r)
                             \/ Serve(r) \/ Received(r) \/ Refused(r)
  \/ \E j \in Job : JobMoves(j)
  \/ \E p \in OtherProject : SwarmChanges(p)
  \/ \E a \in Agent : TokenExchanged(a)

ServiceSpec == ServiceInit /\ [][ServiceNext]_serviceVars

-----------------------------------------------------------------------------
ServiceTypeOK ==
  /\ service \in {"agentcoord", "board"}
  /\ tokenFile \in [Agent -> Token \cup {NoToken}]
  /\ verified \in [Agent -> Token \cup {NoToken}]
  /\ swarms \in [names : SUBSET OtherProject, read : BOOLEAN]
  /\ \A kind \in {"read", "write"} :
       /\ DOMAIN windows[kind] \subseteq BoardSession
       /\ Cardinality(DOMAIN windows[kind]) <= MaxKeys
       /\ \A s \in DOMAIN windows[kind] : windows[kind][s] \in 1..RatePerMinute
  /\ \A r \in BoardRequest :
       /\ req[r].at \in {"idle", "next", "resolved", "asking", "sent", "served",
                         "done", "refused", "limited", "failed"}
       /\ req[r].token \in Token \cup {NoToken}
  /\ holder \in [Job -> Agent \cup Range(OwnerOf) \cup {Nobody}]
  /\ live \subseteq wasLive /\ wasLive \subseteq OtherProject

Sending(r) == service = "agentcoord" /\ req[r].at = "sent"

\* An operation is only ever sent with a credential that was confirmed to be the
\* configured agent's, though the file may be exchanged between any two operations of
\* a request and requests overlap (agentcoord-service.ts:219, "cannot silently act as
\* that agent").
CredentialIsTheAgents ==
  \A r \in BoardRequest : Sending(r) =>
    r.who \in DOMAIN AgentOf /\ OwnerOf[req[r].token] = AgentOf[r.who]

\* A job is taken only in a listed project or one that was a swarm, and reported on
\* only by an agent that was given it, although jobs are named by a number alone
\* (agentcoord-service.ts:481, "confirm this one is in the reachable project").
WorkIsTheirs ==
  \A r \in BoardRequest : Sending(r) /\ Head(req[r].todo) \in {"job_take", "job_update"} =>
    /\ ProjectOf[r.job] \in AllowedProject \cup wasLive
    /\ Head(req[r].todo) = "job_update" => <<AgentOf[r.who], r.job>> \in wasHolder
=============================================================================
