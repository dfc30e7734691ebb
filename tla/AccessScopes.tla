---------------------------- MODULE AccessScopes ----------------------------
(***************************************************************************)
(* The scopes a credential may carry and the tools each of them opens.     *)
(* A scope string is the set of its words; words of other vocabularies     *)
(* (OtherWord) may occur in requests and in old tokens.                    *)
(***************************************************************************)
CONSTANTS
  BoardTool,   \* BOARD_TOOL_NAMES
  OtherTool    \* every other tool, starting a work session among them

OtherWord == "other"
Scope     == {"mcp", "board"}
ScopeWord == Scope \cup {OtherWord}

\* Words this build does not know are dropped.
ParseScopes(words) == words \cap Scope

\* Fault: one scope is as good as another.
ToolAllowedToAnyScope(tool, scopes) == scopes # {}

ToolAllowed(tool, scopes) ==
  \/ "mcp" \in scopes
  \/ "board" \in scopes /\ tool \in BoardTool

-----------------------------------------------------------------------------
(* What the consent page may offer, from the words of the request (none is *)
(* as good as an absent scope) and the scopes the server is configured for.*)

Grantable(supported) == supported \cap Scope

InvalidScope(requested, supported) == ~(requested \subseteq Grantable(supported))

WantsFull(requested, supported) ==
  "mcp" \in (IF requested = {} THEN Grantable(supported) ELSE requested)

\* Fault: the configured words are offered, known or not.
ScopeOptionsOfForm(requested, supported) == supported

ScopeOptions(requested, supported) ==
  {s \in Grantable(supported) : s = "mcp" => WantsFull(requested, supported)}

DefaultScope(options) == IF "mcp" \in options THEN "mcp" ELSE "board"
=============================================================================
