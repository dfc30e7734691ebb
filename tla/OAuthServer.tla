---------------------------- MODULE OAuthServer -----------------------------
(***************************************************************************)
(* The authorization server: clients register, ask for a consent, the      *)
(* owner of the server answers the consent page with the admin password,   *)
(* the code it yields is redeemed once, and the tokens are those of        *)
(* OAuthTokens.  A consent, an element of Origin, is first an entry of the *)
(* map of pending requests and then a row of the table of codes.           *)
(*                                                                         *)
(* The routes are synchronous, so each is one step; only a crash can       *)
(* separate two of its database calls.  Every request comes from one       *)
(* address, as behind the tunnel (server.ts:46).                           *)
(***************************************************************************)
EXTENDS OAuthTokens, AccessScopes

CONSTANTS
  Supported,   \* server.auth.scopesSupported, as words
  Requests,    \* the word sets clients ask for
  PendingTtl,  \* 10 minutes
  CodeTtl,     \* server.auth.authorizationCodeTtlMs
  Limit,       \* 5 wrong passwords
  RegLimit,    \* 30 registrations
  Window       \* 5 minutes, and 15 for registrations

ASSUME ServerAssumption ==
  /\ Supported \subseteq ScopeWord
  /\ Requests \subseteq SUBSET ScopeWord
  /\ PendingTtl \in Nat \ {0}
  /\ CodeTtl \in Nat \ {0}
  /\ Limit \in Nat \ {0}
  /\ RegLimit \in Nat \ {0}
  /\ Window \in Nat \ {0}

VARIABLES
  registered,   \* oauth_clients
  registrations,\* the entry of the registration throttle
  consent,      \* per consent: "none", "asked" while its entry is pending,
                \* "code" while its code may be redeemed, then "closed"
  due,          \* when the entry or the code expires
  client,       \* who asked
  asked,        \* the words it asked for
  picked,       \* history: what the owner chose on the page
  granted,      \* the scope of the code
  attempts,     \* the entry of the password throttle, count 0 for none
  guesses       \* history: wrong passwords of the last Window ticks, by time and number

consentVars == <<consent, due, client, asked, picked, granted>>
serverVars  == <<settings, registered, registrations, consentVars, attempts, guesses>>
oauthVars   == <<clock, tokenVars, serverVars>>

NoAttempts == [count |-> 0, resetAt |-> 0]
NoGuesses  == {}

OAuthInit ==
  /\ clock = 0
  /\ TokenInit
  /\ registered = {}
  /\ registrations = NoAttempts
  /\ consent = [c \in Origin |-> "none"]
  /\ due     = [c \in Origin |-> 0]
  /\ client  = [c \in Origin |-> NoHolder]
  /\ asked   = [c \in Origin |-> {}]
  /\ picked  = [c \in Origin |-> {}]
  /\ granted = [c \in Origin |-> {}]
  /\ attempts = NoAttempts
  /\ guesses  = NoGuesses

-----------------------------------------------------------------------------
(* FixedWindowThrottle.  An entry whose window is over is as good as none. *)

Check(entry, limit) == entry.resetAt <= clock \/ entry.count < limit

\* Fault: every wrong password starts the window again.
RecordSliding(entry, t) == [count |-> 1, resetAt |-> t + Window]

Record(entry, t) ==
  IF entry.count = 0 \/ entry.resetAt <= t
  THEN [count |-> 1, resetAt |-> t + Window]
  ELSE [entry EXCEPT !.count = @ + 1]

\* The wrong passwords that are as recent as a window is long, and one more of them.
Recent(ws, t) == {w \in ws : w.at + Window > t}

OneMore(ws, t) ==
  Recent(ws, t) \cup {[at |-> t, nr |-> Cardinality({w \in ws : w.at = t}) + 1]}

-----------------------------------------------------------------------------
(* The routes.                                                             *)

\* POST /oauth/register, valid and not throttled: a new client.
Register(cl) ==
  /\ Check(registrations, RegLimit)
  /\ cl \notin registered
  /\ registrations' = Record(registrations, clock)
  /\ registered' = registered \cup {cl}
  /\ UNCHANGED <<clock, tokenVars, settings, consentVars, attempts, guesses>>

\* scopeOptions of the entry: what its page lets the owner choose.
Options(c) == ScopeOptions(asked[c], Supported)

\* GET /oauth/authorize, when it shows the page.
Authorize(c, cl, words) ==
  /\ consent[c] = "none"
  /\ cl \in registered
  /\ ~InvalidScope(words, Supported)
  /\ ScopeOptions(words, Supported) # {}
  /\ consent' = [consent EXCEPT ![c] = "asked"]
  /\ due'     = [due EXCEPT ![c] = clock + PendingTtl]
  /\ client'  = [client EXCEPT ![c] = cl]
  /\ asked'   = [asked EXCEPT ![c] = words]
  /\ UNCHANGED <<clock, tokenVars, settings, registered, registrations, picked, granted,
                 attempts, guesses>>

\* POST /oauth/authorize finds its entry and is not throttled.
Answered(c) ==
  /\ consent[c] = "asked"
  /\ due[c] > clock
  /\ Check(attempts, Limit)

\* What the owner of the server chose: the scope that is preselected, if the answer
\* names none.
Picked(c, form) == IF form = {} THEN {DefaultScope(Options(c))} ELSE form

\* Fault: the preselected scope is granted, whatever the answer says.
ChosenDefault(c, form) == {DefaultScope(Options(c))}

\* The scopes that the field "scope" of the form (none if absent) may grant: the
\* preselected one, the offered one it names, or none when it was not offered.
Chosen(c, form) == IF form = {} THEN {DefaultScope(Options(c))} ELSE form \cap Options(c)

\* The owner denies, or the form names a scope that was not offered: the entry is
\* dropped.
Deny(c) ==
  /\ Answered(c)
  /\ consent' = [consent EXCEPT ![c] = "closed"]
  /\ UNCHANGED <<clock, tokenVars, settings, registered, registrations, due, client, asked,
                 picked, granted, attempts, guesses>>

\* A wrong password: the throttle reads the clock again, and the page stays.
WrongPassword(c, t) ==
  /\ Answered(c)
  /\ attempts' = Record(attempts, t)
  /\ guesses'  = OneMore(guesses, t)
  /\ clock' = t
  /\ UNCHANGED <<tokenVars, settings, registered, registrations, consentVars>>

Approve(c, form) ==
  /\ Answered(c)
  /\ Chosen(c, form) # {}
  /\ consent'  = [consent EXCEPT ![c] = "code"]
  /\ due'      = [due EXCEPT ![c] = clock + CodeTtl]
  /\ picked'   = [picked EXCEPT ![c] = Picked(c, form)]
  /\ granted'  = [granted EXCEPT ![c] = Chosen(c, form)]
  /\ attempts' = NoAttempts
  /\ guesses'  = NoGuesses
  /\ UNCHANGED <<clock, tokenVars, settings, registered, registrations, client, asked>>

\* Fault: the code stays valid until it expires.
RedeemableWhileFresh(c) == granted[c] # {} /\ due[c] > clock

Redeemable(c) == consent[c] = "code" /\ due[c] > clock

\* POST /oauth/token, grant_type authorization_code.  A request by another client,
\* or with another redirect URI or verifier, burns the code.
Redeem(c, j, right) ==
  /\ Redeemable(c)
  /\ consent' = [consent EXCEPT ![c] = "closed"]
  /\ \/ right /\ IssueTokenPair(j, client[c], granted[c], c)
     \/ ~right /\ UNCHANGED tokenVars
  /\ UNCHANGED <<clock, settings, registered, registrations, due, client, asked, picked,
                 granted, attempts, guesses>>

\* The configuration is read anew; its lifetime may have been changed meanwhile.
Reconfigure ==
  /\ lifetime'  \in RefreshTtls
  /\ shortened' = (shortened \/ lifetime' < lifetime)

\* The entries and the throttle live in memory.
Forgotten(states) == [c \in Origin |-> IF states[c] = "asked" THEN "closed" ELSE states[c]]

LoseMemory(states) ==
  /\ consent'  = Forgotten(states)
  /\ attempts' = NoAttempts
  /\ registrations' = NoAttempts
  /\ guesses'  = NoGuesses
  /\ Reconfigure
  /\ UNCHANGED <<clock, registered, due, client, asked, picked, granted>>

\* A restart at rest, with the sweep at boot.
Restart == LoseMemory(consent) /\ PruneTokens

\* Killed inside issueTokenPair: the code is consumed, the refresh token is in.
TornRedeem(c, j) ==
  /\ Redeemable(c)
  /\ TornTokenPair(j, client[c], granted[c], c)
  /\ LoseMemory([consent EXCEPT ![c] = "closed"])

TornRotation(i, j) == TornRefresh(i, j) /\ LoseMemory(consent)

Tick ==
  /\ clock < MaxClock
  /\ clock' = clock + 1
  /\ guesses' = Recent(guesses, clock')
  /\ UNCHANGED <<tokenVars, settings, registered, registrations, consentVars, attempts>>

OAuthNext ==
  \/ \E cl \in Holder : Register(cl)
  \/ \E c \in Origin :
       \/ \E cl \in Holder, words \in Requests : Authorize(c, cl, words)
       \/ Deny(c)
       \/ \E t \in {clock, clock + 1} \cap 0..MaxClock : WrongPassword(c, t)
       \/ \E form \in {{}} \cup {{s} : s \in ScopeWord} : Approve(c, form)
       \/ \E j \in Link :
            \/ \E right \in BOOLEAN : Redeem(c, j, right)
            \/ TornRedeem(c, j)
  \/ \E i, j \in Link : TornRotation(i, j)
  \/ TokenStep /\ UNCHANGED <<clock, serverVars>>
  \/ Restart
  \/ Tick

OAuthSpec == OAuthInit /\ [][OAuthNext]_oauthVars

-----------------------------------------------------------------------------
OAuthTypeOK ==
  /\ TokenTypeOK
  /\ registered \subseteq Holder
  /\ consent \in [Origin -> {"none", "asked", "code", "closed"}]
  /\ due     \in [Origin -> Nat]
  /\ client  \in [Origin -> Holder \cup {NoHolder}]
  /\ asked   \in [Origin -> Requests \cup {{}}]
  /\ picked  \in [Origin -> SUBSET Scope]
  /\ granted \in [Origin -> SUBSET Scope]
  /\ {attempts, registrations} \subseteq [count : Nat, resetAt : Nat]
  /\ guesses  \subseteq [at : Nat, nr : Nat] /\ IsFiniteSet(guesses)

\* A code is good for one chain of tokens, whoever presents it, however often and
\* whatever crashes in between (store.ts:176): every token of a consent but one
\* came from rotating another, and no token exists of a code that was ever
\* presented with the wrong client, redirect URI or verifier first.
OneChainPerConsent ==
  \A c \in Origin :
    LET Roots == {i \in Link : origin[i] = c /\ \A k \in Link : rotatedTo[k] # i} IN
    /\ Cardinality(Roots) <= 1
    /\ Roots # {} => consent[c] = "closed"

\* Between two correct passwords, in any time as long as the window, fewer than
\* twice the limit of wrong ones are looked at (server.ts:42), although the window
\* may end between the check and the record of one request.
GuessesBounded == Cardinality(guesses) < 2 * Limit
=============================================================================
