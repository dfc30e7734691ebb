----------------------------- MODULE AccessDoor -----------------------------
(***************************************************************************)
(* Who may call which tool: the configurations the server starts in, the   *)
(* board keys, and authentication at the MCP endpoint and at the REST      *)
(* front door, over the tokens of OAuthServer.  Keys are created and       *)
(* revoked by a script, which is another process on the same database.     *)
(***************************************************************************)
EXTENDS OAuthServer

CONSTANTS
  Key,        \* plaintext board keys that may be minted
  KeyName,    \* names for them; a name may look like a client_id
  NoName

ASSUME DoorAssumption == NoName \notin KeyName

VARIABLES
  deployment, \* server.auth.mode, whether the host is loopback, allowNonLoopbackBind
  keyName,    \* board_keys: the name of a key, NoName before it is minted
  keyRevoked

doorVars == <<deployment, keyName, keyRevoked>>

Deployment == [mode : {"none", "bearer", "oauth"}, loopback : BOOLEAN, remote : BOOLEAN]

\* assertSafeDeployment does not throw.
SafeDeployment(d) == d.loopback \/ (d.mode # "none" /\ d.remote)

DoorInit ==
  /\ deployment \in {d \in Deployment : SafeDeployment(d)}
  /\ keyName    = [k \in Key |-> NoName]
  /\ keyRevoked = [k \in Key |-> FALSE]

-----------------------------------------------------------------------------
(* BoardKeyStore.                                                          *)

KeyActive(k) == keyName[k] # NoName /\ ~keyRevoked[k]

\* Fault: the index on the name is an ordinary one.
NameFreeAlways(name) == TRUE

\* The unique index on the names of active keys.
NameFree(name) == \A k \in Key : ~(KeyActive(k) /\ keyName[k] = name)

CreateKey(k, name) ==
  /\ keyName[k] = NoName
  /\ NameFree(name)
  /\ keyName' = [keyName EXCEPT ![k] = name]
  /\ UNCHANGED <<deployment, keyRevoked>>

RevokeKey(name) ==
  /\ \E k \in Key : KeyActive(k) /\ keyName[k] = name
  /\ keyRevoked' = [k \in Key |-> keyRevoked[k] \/ keyName[k] = name]
  /\ UNCHANGED <<deployment, keyName>>

-----------------------------------------------------------------------------
(* authenticate: the principals a request is admitted as, one or none.     *)

Credential == [kind : {"access"}, id : Link] \cup [kind : {"key"}, id : Key]
                \cup [kind : {"static", "anonymous"}, id : {NoLink}]

Principal(kind, subject, scopes) == [kind |-> kind, subject |-> subject, scopes |-> scopes]

AdmitBoardKey(k) ==
  IF KeyActive(k) THEN {Principal("board-key", keyName[k], {"board"})} ELSE {}

AdmitAccessToken(i) ==
  IF LookupAccess(i) THEN {Principal("oauth", holder[i], ParseScopes(scope[i]))} ELSE {}

Admitted(cred) ==
  CASE deployment.mode = "none" ->
         IF deployment.loopback THEN {Principal("local", "owner", {"mcp"})} ELSE {}
    [] deployment.mode # "none" /\ cred.kind = "key" -> AdmitBoardKey(cred.id)
    [] deployment.mode = "oauth" /\ cred.kind # "key" ->
         IF cred.kind = "access" THEN AdmitAccessToken(cred.id) ELSE {}
    [] deployment.mode = "bearer" /\ cred.kind # "key" ->
         IF cred.kind = "static" THEN {Principal("static-bearer", "owner", {"mcp"})} ELSE {}

\* The REST front door serves the board tools only.
Callable(cred, door) ==
  {tool \in BoardTool \cup OtherTool :
     /\ door = "rest" => tool \in BoardTool
     /\ \E p \in Admitted(cred) : ToolAllowed(tool, p.scopes)}

\* board.sessionId of a principal: the namespace of its kind, and its subject.
BoardSession(p) == <<p.kind, p.subject>>

\* Only in oauth mode is the authorization server mounted.
AccessInit == OAuthInit /\ DoorInit

KeyStep ==
  \E name \in KeyName : RevokeKey(name) \/ \E k \in Key : CreateKey(k, name)

AccessNext ==
  \/ deployment.mode = "oauth" /\ OAuthNext /\ UNCHANGED doorVars
  \/ KeyStep /\ UNCHANGED oauthVars

AccessSpec == AccessInit /\ [][AccessNext]_<<oauthVars, doorVars>>

-----------------------------------------------------------------------------
AccessTypeOK ==
  /\ OAuthTypeOK
  /\ deployment \in Deployment
  /\ keyName    \in [Key -> KeyName \cup {NoName}]
  /\ keyRevoked \in [Key -> BOOLEAN]

\* What the client asked for (anything, if it named no scope), what the configuration
\* offers, and what the owner of the server chose on the consent page.
Covers(cred, tool) ==
  CASE cred.kind = "access" ->
         LET c == origin[cred.id] IN
         /\ deployment.mode = "oauth"
         /\ holder[cred.id] = client[c] /\ client[c] \in registered
         /\ ToolAllowed(tool, ParseScopes(Supported))
         /\ asked[c] = {} \/ ToolAllowed(tool, ParseScopes(asked[c]))
         /\ ToolAllowed(tool, ParseScopes(picked[c]))
    [] cred.kind = "key"       -> KeyActive(cred.id) /\ tool \in BoardTool
    [] cred.kind = "static"    -> deployment.mode = "bearer"
    [] cred.kind = "anonymous" -> FALSE

\* End to end, from the consent page over codes, rotations, revocations and
\* restarts to the two doors: no credential opens a tool beyond what was asked,
\* offered and chosen for it, and nothing is open to all except on loopback
\* (scopes.ts:6, server.ts:369 "a request for the board scope alone can never be
\* widened", auth.ts:69).
CallsAreCovered ==
  \A cred \in Credential, door \in {"mcp", "rest"} :
    \A tool \in Callable(cred, door) :
      \/ deployment.mode = "none" /\ deployment.loopback
      \/ Covers(cred, tool)

\* Whoever is behind a credential: the key itself, the client, the owner.
Behind(cred) ==
  CASE cred.kind = "access" -> <<"client", holder[cred.id]>>
    [] cred.kind = "key"    -> <<"key", cred.id>>
    [] cred.kind \in {"static", "anonymous"} -> <<"owner">>

\* Two credentials that both work and write to the board as one session are of one
\* holder: keys are unique by name while active, and no name of a key makes it a
\* client (principal.ts:57).
IdentityIsExclusive ==
  deployment.mode # "none" =>
    \A d, e \in Credential :
      \A p \in Admitted(d), q \in Admitted(e) :
        BoardSession(p) = BoardSession(q) => Behind(d) = Behind(e)
=============================================================================
