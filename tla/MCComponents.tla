---------------------------- MODULE MCComponents ----------------------------
(***************************************************************************)
(* The components that share nothing, checked in one run: a behaviour is   *)
(* about one of them, and the others stay as they began.                   *)
(***************************************************************************)
EXTENDS CodexWorker, ClaudeWorker, BoardClient, BoardServices, CachedReads, ContextAssembler

MCPath == [name : Place, real : Place, kind : {"plain"}]
          \cup {[name |-> n, real |-> n, kind |-> k] :
                   n \in {"project", "outside"}, k \in {"sensitive", "benign", "home", "foreign"}}
          \cup {[name |-> "denied", real |-> "denied", kind |-> "benign"]}

Paths == {{}} \cup {{p} : p \in MCPath}

\* A command of another class changes something, and so do the tools that write.
CallTo(k, segments, ps, climbs, mentions, test) ==
  [tool |-> k, segments |-> segments, paths |-> ps, climbs |-> climbs, mentions |-> mentions,
   test |-> test,
   changes |-> segments \ {"READ_ONLY"} # {} \/ k \in {"write", "slash", "mcp", "unknown"}]

\* Commands of one or two segments, with at most one path, the test command, and an
\* inspection that writes what it shows into a file.
MCCall ==
  {CallTo("bash", {c, d}, ps, FALSE, me, FALSE) :
     c \in PermissionClass, d \in PermissionClass, ps \in Paths, me \in BOOLEAN}
  \cup {CallTo("bash", {c}, {}, TRUE, me, FALSE) : c \in PermissionClass, me \in BOOLEAN}
  \cup {CallTo("bash", {c}, {}, FALSE, FALSE, TRUE) : c \in PermissionClass}
  \cup {CallTo(k, {}, ps, FALSE, FALSE, FALSE) : k \in ToolKind \ {"bash"}, ps \in Paths}
  \cup {[CallTo("bash", {"READ_ONLY"}, {}, FALSE, FALSE, FALSE) EXCEPT !.changes = TRUE]}

\* Two identities of one agent, whose credential file may hold another agent's; one job,
\* in a project that is not listed but may be a swarm.
MCAgentOf   == [s \in {"p", "q"} |-> "ext/a"]
MCOwnerOf   == [t \in {"ta", "tb"} |-> IF t = "ta" THEN "ext/a" ELSE "ext/b"]
MCProjectOf == [j \in {"j"} |-> "other"]

MCRequest ==
  {[who |-> "p", tool |-> "jobTake",   project |-> "listed", job |-> "j"],
   [who |-> "p", tool |-> "jobTake",   project |-> "other",  job |-> "j"],
   [who |-> "q", tool |-> "jobUpdate", project |-> "other",  job |-> "j"],
   [who |-> "q", tool |-> "claim",     project |-> "other",  job |-> "j"]}

\* One provider with a few short lines, and one that returns less when asked for less.
MCOrder   == <<"machines", "memory">>
MCSection == [p \in {"machines", "memory"} |->
  IF p = "memory" THEN [title |-> 4, lines |-> <<8, 8>>, minLines |-> 1]
                  ELSE [title |-> 4, lines |-> <<4, 4, 4, 4, 4>>, minLines |-> 1]]

VARIABLE part

componentsVars == <<part, codexVars, claudeVars, boardVars, serviceVars, readsVars, assemblerVars>>

ComponentsInit ==
  /\ part \in {"codex", "claude", "tools", "client", "service", "reads", "context"}
  /\ CodexInit /\ ClaudeInit /\ BoardInit /\ ServiceInit /\ ReadsInit /\ AssemblerInit
  /\ part # "client" => backend = "board"
  /\ part # "service" => service = "board" /\ tokenFile = [a \in Agent |-> NoToken] /\ live = {}
  /\ part # "reads" => kind = "projects"

Only(p) ==
  /\ IF p = "codex" THEN TRUE ELSE UNCHANGED codexVars
  /\ IF p \in {"claude", "tools"} THEN TRUE ELSE UNCHANGED claudeVars
  /\ IF p = "client" THEN TRUE ELSE UNCHANGED boardVars
  /\ IF p = "service" THEN TRUE ELSE UNCHANGED serviceVars
  /\ IF p = "reads" THEN TRUE ELSE UNCHANGED readsVars
  /\ IF p = "context" THEN TRUE ELSE UNCHANGED assemblerVars

\* Tool calls do not touch the input queue or the stops of a Claude worker.
ComponentsNext ==
  /\ \/ part = "codex" /\ CodexNext
     \/ part \in {"claude", "tools"} /\ ClaudeStart
     \/ part = "claude" /\ StreamStep
     \/ part = "tools" /\ ToolStep
     \/ part = "client" /\ BoardNext
     \/ part = "service" /\ ServiceNext
     \/ part = "reads" /\ ReadsNext
     \/ part = "context" /\ AssemblerNext
  /\ UNCHANGED part /\ Only(part)

ComponentsSpec ==
  /\ ComponentsInit /\ [][ComponentsNext]_componentsVars
  /\ CodexFairness /\ ClaudeFairness /\ BoardFairness /\ AssemblerFairness

ComponentsTypeOK ==
  CodexTypeOK /\ ClaudeTypeOK /\ BoardTypeOK /\ ServiceTypeOK /\ ReadsTypeOK /\ AssemblerTypeOK
=============================================================================
