---------------------------- MODULE OAuthTokens -----------------------------
(***************************************************************************)
(* The token table of the authorization server.  Refresh tokens form       *)
(* chains: a rotation revokes the old link and inserts the next one, and   *)
(* each link may have an access token that records it as its parent.       *)
(* A link is named by the order in which refresh tokens are minted; the    *)
(* access token minted with a refresh token has its number.  Time is a     *)
(* counter, and every lifetime is a number of ticks.                       *)
(*                                                                         *)
(* What holds a plaintext token is outside: any token ever minted may be   *)
(* presented at any time, twice, late, by anyone.                          *)
(***************************************************************************)
EXTENDS Naturals, FiniteSets

CONSTANTS
  Origin,      \* the consents a chain may start from
  NoOrigin,
  Holder,      \* OAuth clients
  NoHolder,
  MaxLinks,    \* bound: refresh tokens minted in a behaviour
  MaxClock,    \* bound: ticks of the clock
  AccessTtl,   \* server.auth.accessTokenTtlMs
  RefreshTtls, \* the values server.auth.refreshTokenTtlMs may have
  Grace        \* server.auth.refreshReplayGraceMs, 0 for none

ASSUME TokenAssumption ==
  /\ NoOrigin \notin Origin
  /\ NoHolder \notin Holder
  /\ MaxLinks \in Nat
  /\ MaxClock \in Nat
  /\ AccessTtl \in Nat \ {0}
  /\ RefreshTtls \subseteq Nat \ {0}
  /\ RefreshTtls # {}
  /\ Grace \in Nat

Link == 1..MaxLinks
NoLink == 0

VARIABLES
  clock,
  lifetime,    \* refreshTokenTtlMs of this process
  \* the refresh token of each link
  refresh,     \* "none" before it is minted, "live", "revoked", "gone" when pruned
  rExpires,
  revokedAt,   \* when it was revoked: for a rotated token, when it was rotated
  rotatedTo,   \* the link that replaced it, NoLink if none did
  holder,      \* client_id
  scope,
  \* the access token of each link
  access,      \* as refresh
  aExpires,
  parent,      \* parent_token_hash
  \* history, for the properties only
  origin,      \* the consent the link descends from
  shortened,   \* has a restart ever made the lifetime shorter?
  replayed,    \* links whose refresh token came back after its rotation, outside the grace
  truncated,   \* such links, when the walk reported that it was cut short
  disowned     \* links whose refresh token its holder revoked

rows      == <<refresh, rExpires, revokedAt, rotatedTo, holder, scope>>
accesses  == <<access, aExpires, parent>>
history   == <<origin, replayed, truncated, disowned>>
settings  == <<lifetime, shortened>>
tokenVars == <<rows, accesses, history>>

TokenInit ==
  /\ refresh   = [i \in Link |-> "none"]
  /\ rExpires  = [i \in Link |-> 0]
  /\ revokedAt = [i \in Link |-> 0]
  /\ rotatedTo = [i \in Link |-> NoLink]
  /\ holder    = [i \in Link |-> NoHolder]
  /\ scope     = [i \in Link |-> {}]
  /\ access    = [i \in Link |-> "none"]
  /\ aExpires  = [i \in Link |-> 0]
  /\ parent    = [i \in Link |-> NoLink]
  /\ origin    = [i \in Link |-> NoOrigin]
  /\ replayed = {} /\ truncated = {} /\ disowned = {}
  /\ lifetime \in RefreshTtls /\ shortened = FALSE

-----------------------------------------------------------------------------
HasRow(state) == state \in {"live", "revoked"}

\* lookupToken, for the two kinds: known, not revoked, not expired.
LookupRefresh(i) == refresh[i] = "live" /\ rExpires[i] > clock
LookupAccess(i)  == access[i] = "live" /\ aExpires[i] > clock

\* The link the next mint will create.
Next1(j) == refresh[j] = "none" /\ \A k \in 1..(j - 1) : refresh[k] # "none"

\* Fault: what was revoked without a rotation goes before it expires.
SweptDisowned(states, expires) ==
  [i \in Link |->
     IF HasRow(states[i])
        /\ (expires[i] <= clock \/ (states[i] = "revoked" /\ rotatedTo[i] = NoLink))
     THEN "gone" ELSE states[i]]

\* pruneExpired, on the states of one kind.
Swept(states, expires) ==
  [i \in Link |-> IF HasRow(states[i]) /\ expires[i] <= clock THEN "gone" ELSE states[i]]

\* issueToken for a refresh token: every column of the new row j.
Minted(j, cl, sc, from) ==
  /\ rExpires' = [rExpires EXCEPT ![j] = clock + lifetime]
  /\ holder'   = [holder EXCEPT ![j] = cl]
  /\ scope'    = [scope EXCEPT ![j] = sc]
  /\ origin'   = [origin EXCEPT ![j] = from]

\* issueToken for the access token of link j.
IssueAccess(j) ==
  /\ access'   = [access EXCEPT ![j] = "live"]
  /\ aExpires' = [aExpires EXCEPT ![j] = clock + AccessTtl]
  /\ parent'   = [parent EXCEPT ![j] = j]

IssueTokenPair(j, cl, sc, from) ==
  /\ Next1(j)
  /\ refresh' = [refresh EXCEPT ![j] = "live"]
  /\ Minted(j, cl, sc, from)
  /\ IssueAccess(j)
  /\ UNCHANGED <<revokedAt, rotatedTo, replayed, truncated, disowned>>

\* The process is killed between the two inserts; the next one sweeps at boot.
TornTokenPair(j, cl, sc, from) ==
  /\ Next1(j)
  /\ Minted(j, cl, sc, from)
  /\ refresh' = Swept([refresh EXCEPT ![j] = "live"], rExpires')
  /\ access'  = Swept(access, aExpires)
  /\ UNCHANGED <<revokedAt, rotatedTo, aExpires, parent, replayed, truncated,
                 disowned>>

\* Fault: the old token stays valid.
RotatedStates(i, j) == [refresh EXCEPT ![j] = "live"]

\* The states after a rotation of i to j.
Rotation(i, j) == [refresh EXCEPT ![i] = "revoked", ![j] = "live"]

\* rotateRefreshToken, a transaction, but for the states of the rows.
RotateRefreshToken(i, j) ==
  /\ LookupRefresh(i)
  /\ Next1(j)
  /\ revokedAt' = [revokedAt EXCEPT ![i] = clock]
  /\ rotatedTo' = [rotatedTo EXCEPT ![i] = j]
  /\ Minted(j, holder[i], scope[i], origin[i])
  /\ UNCHANGED <<replayed, truncated, disowned>>

\* The token endpoint, grant_type refresh_token, when the rotation succeeds.
Refresh(i, j) ==
  /\ RotateRefreshToken(i, j)
  /\ refresh' = Rotation(i, j)
  /\ IssueAccess(j)

\* The process is killed after the rotation and before the access token is in;
\* the next one sweeps at boot.
TornRefresh(i, j) ==
  /\ RotateRefreshToken(i, j)
  /\ refresh' = Swept(Rotation(i, j), rExpires')
  /\ access'  = Swept(access, aExpires)
  /\ UNCHANGED <<aExpires, parent>>

-----------------------------------------------------------------------------
(* A refused refresh.                                                      *)

Rotated(i) == refresh[i] = "revoked" /\ rotatedTo[i] # NoLink

\* Fault: there is no grace.
TheftAlways(i) == Rotated(i)
\* classifyRefreshReplay says theft.
Theft(i) ==
  /\ Rotated(i)
  /\ ~(Grace > 0 /\ clock - revokedAt[i] <= Grace)

Follow(k) == IF HasRow(refresh[k]) /\ rotatedTo[k] # NoLink THEN {rotatedTo[k]} ELSE {}

\* The links the walk of revokeRotationChain reaches from i: it goes from row to
\* row along rotated_to, and stops at a link that has no row any more.
Chain(i) ==
  {j \in Link :
     /\ HasRow(refresh[j])
     /\ \A S \in SUBSET Link :
          (i \in S /\ \A k \in S : Follow(k) \subseteq S) => j \in S}

\* The walk comes to a link whose row was pruned: revokeRotationChain says so.
Truncated(i) ==
  \E k \in Chain(i) : rotatedTo[k] # NoLink /\ ~HasRow(refresh[rotatedTo[k]])

\* Fault: access tokens run on until they expire.
AccessAfterTheftKept(C) == access

AccessAfterTheft(C) ==
  [k \in Link |-> IF access[k] = "live" /\ parent[k] \in C THEN "revoked" ELSE access[k]]

RevokeRotationChain(i) ==
  LET C == Chain(i) IN
  /\ refresh'   = [k \in Link |-> IF k \in C /\ refresh[k] = "live" THEN "revoked" ELSE refresh[k]]
  /\ revokedAt' = [k \in Link |-> IF k \in C /\ refresh[k] = "live" THEN clock ELSE revokedAt[k]]
  /\ access'    = AccessAfterTheft(C)

\* History: the late replays, those whose walk was cut apart.
Late(i) == Grace = 0 \/ clock - revokedAt[i] > Grace

Recorded(i) ==
  /\ replayed'  = replayed \cup {k \in {i} : Late(k) /\ ~Truncated(k)}
  /\ truncated' = truncated \cup {k \in {i} : Late(k) /\ Truncated(k)}

\* The token endpoint, when a rotated token comes back: within the grace it is
\* refused and nothing else happens.
Replay(i) ==
  /\ ~LookupRefresh(i)
  /\ Rotated(i)
  /\ \/ Theft(i) /\ RevokeRotationChain(i)
     \/ ~Theft(i) /\ UNCHANGED <<refresh, revokedAt, access>>
  /\ Recorded(i)
  /\ UNCHANGED <<rExpires, rotatedTo, holder, scope, aExpires, parent, origin, disowned>>

-----------------------------------------------------------------------------
(* The revocation endpoint, the sweep, the clock.                          *)

RevokeRefresh(i) ==
  /\ refresh[i] = "live"
  /\ refresh'   = [refresh EXCEPT ![i] = "revoked"]
  /\ revokedAt' = [revokedAt EXCEPT ![i] = clock]
  /\ disowned'  = disowned \cup {i}
  /\ UNCHANGED <<rExpires, rotatedTo, holder, scope, accesses, origin, replayed,
                 truncated>>

RevokeAccess(i) ==
  /\ access[i] = "live"
  /\ access' = [access EXCEPT ![i] = "revoked"]
  /\ UNCHANGED <<rows, aExpires, parent, history>>

PruneTokens ==
  /\ refresh' = Swept(refresh, rExpires)
  /\ access'  = Swept(access, aExpires)
  /\ UNCHANGED <<rExpires, revokedAt, rotatedTo, holder, scope, aExpires, parent, history>>

TokenStep ==
  \/ \E i \in Link :
       \/ \E j \in Link : Refresh(i, j)
       \/ Replay(i)
       \/ RevokeRefresh(i)
       \/ RevokeAccess(i)
  \/ PruneTokens

-----------------------------------------------------------------------------
TokenTypeOK ==
  /\ clock \in Nat
  /\ lifetime \in RefreshTtls
  /\ shortened \in BOOLEAN
  /\ refresh   \in [Link -> {"none", "live", "revoked", "gone"}]
  /\ rExpires  \in [Link -> Nat]
  /\ revokedAt \in [Link -> Nat]
  /\ rotatedTo \in [Link -> Link \cup {NoLink}]
  /\ holder    \in [Link -> Holder \cup {NoHolder}]
  /\ access    \in [Link -> {"none", "live", "revoked", "gone"}]
  /\ aExpires  \in [Link -> Nat]
  /\ parent    \in [Link -> Link \cup {NoLink}]
  /\ origin    \in [Link -> Origin \cup {NoOrigin}]
  /\ replayed  \in SUBSET Link
  /\ truncated \in SUBSET Link
  /\ disowned  \in SUBSET Link

\* Two links of one consent: a chain is a line, so the later one descends from
\* the earlier one.
SameChain(i, j) == origin[i] = origin[j] /\ origin[i] # NoOrigin

\* However often a code is redeemed or a refresh token is presented, concurrently
\* or again, one consent never has two refresh tokens that work (store.ts:293, "a
\* replayed refresh token cannot yield a second live credential").
OneLiveRefresh ==
  \A i, j \in Link : SameChain(i, j) /\ LookupRefresh(i) /\ LookupRefresh(j) => i = j

\* Once a rotated token has come back late, nothing minted after it on its chain
\* works any more, neither refresh tokens nor the access tokens of its links
\* (store.ts:366), whatever is rotated, revoked, pruned or killed later; unless the
\* walk reported that it was cut, which the server logs (server.ts:553).
TheftEndsChain ==
  \A i \in replayed : \A j \in Link :
    SameChain(i, j) /\ j >= i => ~LookupRefresh(j) /\ ~LookupAccess(j)

\* A walk is cut "only if refreshTokenTtlMs changed between rotations" (store.ts:380),
\* and only if it became shorter: otherwise what is pruned of a chain is its beginning.
CutOnlyIfShortened == truncated # {} => shortened

\* The other side of it: a token that comes back in time revokes nothing.  The newest
\* token of a chain that no late replay hit and that its holder did not revoke works
\* until it expires, for whoever received it; a client whose response was lost did not
\* (OAuthClient).
RetryIsHarmless ==
  \A i \in Link :
    /\ origin[i] # NoOrigin
    /\ rotatedTo[i] = NoLink
    /\ rExpires[i] > clock
    /\ i \notin disowned
    /\ \A k \in replayed \cup truncated : ~SameChain(i, k)
    => LookupRefresh(i)
=============================================================================
