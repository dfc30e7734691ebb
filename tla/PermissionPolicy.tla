-------------------------- MODULE PermissionPolicy --------------------------
(***************************************************************************)
(* What the orchestrator makes of a tool call that a Claude worker         *)
(* proposes: the class of the call, and what the policy says of the class. *)
(*                                                                         *)
(* A call is a record: the kind of the tool, for a shell command the       *)
(* classes its segments get from the first rule that matches, and the      *)
(* paths it names.  Whether a text matches a pattern is an attribute; the  *)
(* patterns themselves are left out.                                       *)
(***************************************************************************)
EXTENDS Naturals, FiniteSets

CONSTANTS
  OutsideRead,   \* allowOutsideProjectRead
  OutsideWrite   \* allowOutsideProjectWrite

ASSUME PermissionAssumption == {OutsideRead, OutsideWrite} \subseteq BOOLEAN

Severity == [READ_ONLY |-> 0, LOCAL_REVERSIBLE |-> 1, EXTERNAL_SIDE_EFFECT |-> 2,
             DESTRUCTIVE |-> 3, PROHIBITED |-> 4]

PermissionClass == DOMAIN Severity

MaxClass(classes) == CHOOSE c \in classes : \A d \in classes : Severity[d] <= Severity[c]

\* The approval policy's defaults.
Policy == [READ_ONLY |-> "allow", LOCAL_REVERSIBLE |-> "allow", EXTERNAL_SIDE_EFFECT |-> "ask",
           DESTRUCTIVE |-> "ask", PROHIBITED |-> "deny"]

\* Tools by the set that names them: WRITE_TOOLS, CONTROL_TOOLS, READ_ONLY_TOOLS,
\* SlashCommand, tools of other MCP servers, the orchestrator's own, unknown ones.
ToolKind == {"bash", "write", "control", "read", "slash", "mcp", "own", "unknown"}

\* A place is a project root, a readable path, a denied location, or none of them.
\* A path is named in one place and, followed through symlinks, is really in another;
\* by its text it is sensitive, benign, below ~, below another user's home, or plain.
Place == {"project", "readable", "denied", "outside"}
Path  == [name : Place, real : Place,
          kind : {"plain", "sensitive", "benign", "home", "foreign"}]

\* climbs: a relative or variable path of the command is sensitive by name;
\* mentions: something sensitive is named anywhere in it;
\* test: it is one of the commands known to run the tests;
\* changes: running it changes something in the project, whatever its words say.  The classifier does
\* not see it.
Call == [tool : ToolKind, segments : SUBSET PermissionClass, paths : SUBSET Path,
         climbs : BOOLEAN, mentions : BOOLEAN, test : BOOLEAN, changes : BOOLEAN]

-----------------------------------------------------------------------------
(* FilesystemScope.check.                                                  *)

\* Fault: what counts is where the path is named.
AllowedByName(p, access) ==
  /\ p.kind # "foreign"
  /\ "denied" \notin {p.name, p.real}
  /\ \/ p.name = "project"
     \/ access = "read" /\ (p.name = "readable" \/ OutsideRead)
     \/ access = "write" /\ OutsideWrite

Allowed(p, access) ==
  /\ p.kind # "foreign"
  /\ "denied" \notin {p.name, p.real}
  /\ \/ p.real = "project"
     \/ access = "read" /\ p.real = "readable"
     \/ /\ p.name # "project"
        /\ IF access = "read" THEN OutsideRead ELSE OutsideWrite

AllAllowed(paths, access) == \A p \in paths : Allowed(p, access)

-----------------------------------------------------------------------------
(* classifyToolCall.                                                       *)

\* classifyBashCommand: the worst of the segments.
CommandClass(call) == MaxClass({"READ_ONLY"} \cup call.segments)

\* escalateForBashPaths, from the class of the command.
BashClass(call) ==
  IF \/ call.climbs
     \/ \E p \in call.paths : p.kind \in {"sensitive", "home", "foreign"}
  THEN "PROHIBITED"
  ELSE MaxClass({CommandClass(call)} \cup
         IF \/ call.mentions
            \/ ~AllAllowed({p \in call.paths : p.kind # "benign"}, "read")
         THEN {"EXTERNAL_SIDE_EFFECT"} ELSE {})

\* classifyForWriteCheck.
ClassForWriteCheck(call) ==
  CASE call.tool = "bash"    -> BashClass(call)
    [] call.tool = "write"   -> "LOCAL_REVERSIBLE"
    [] call.tool = "control" -> "READ_ONLY"
    [] call.tool = "read"    -> IF AllAllowed(call.paths, "read") THEN "READ_ONLY" ELSE "PROHIBITED"
    [] OTHER                 -> "EXTERNAL_SIDE_EFFECT"

\* The branches of classifyToolCall, one for each kind of tool.
ClassByTool(call) ==
  CASE call.tool = "mcp"  -> "EXTERNAL_SIDE_EFFECT"
    [] call.tool = "bash" -> BashClass(call)
    [] call.tool \notin {"mcp", "bash"} /\ (\E p \in call.paths : p.kind = "sensitive") -> "PROHIBITED"
    [] OTHER ->
       CASE call.tool = "write"   -> IF AllAllowed(call.paths, "write") THEN "LOCAL_REVERSIBLE" ELSE "PROHIBITED"
         [] call.tool = "control" -> "READ_ONLY"
         [] call.tool = "slash"   -> "LOCAL_REVERSIBLE"
         [] call.tool = "read"    -> IF AllAllowed(call.paths, "read") THEN "READ_ONLY" ELSE "PROHIBITED"
         [] OTHER                 -> "EXTERNAL_SIDE_EFFECT"

ClassifyToolCall(call, writeCapable) ==
  IF ~writeCapable /\ ClassForWriteCheck(call) # "READ_ONLY"
  THEN "PROHIBITED"
  ELSE ClassByTool(call)

\* handleToolPermission up to its await: the orchestrator's own tools are never asked about.
Decision(call, writeCapable) ==
  IF call.tool = "own" THEN "allow" ELSE Policy[ClassifyToolCall(call, writeCapable)]
=============================================================================
