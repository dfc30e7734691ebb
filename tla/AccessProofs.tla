---------------------------- MODULE AccessProofs ----------------------------
(***************************************************************************)
(* Theorems about the authorization server and the two doors, for any      *)
(* consents, clients, keys, lifetimes and number of tokens, and with a     *)
(* kill inside any token request: one consent has one chain of tokens, one *)
(* refresh token of it works, a late replay ends it and nothing else does, *)
(* and no credential opens more than was agreed to for it.                 *)
(***************************************************************************)
EXTENDS AccessDoor, FiniteSetTheorems, TLAPS

Live(i) == refresh[i] = "live"

\* The inductive invariant: a chain has one live link, whether it has expired or not; a
\* link has a consent once it is minted, and a consent that is not closed no link.
ChainInv ==
  /\ refresh \in [Link -> {"none", "live", "revoked", "gone"}]
  /\ origin \in [Link -> Origin \cup {NoOrigin}]
  /\ consent \in [Origin -> {"none", "asked", "code", "closed"}]
  /\ \A i, j \in Link : SameChain(i, j) /\ Live(i) /\ Live(j) => i = j
  /\ \A i \in Link : refresh[i] = "none" <=> origin[i] = NoOrigin
  /\ \A c \in Origin : consent[c] # "closed" => \A i \in Link : origin[i] # c

\* No step opens a closed consent again.
Closing == \A c \in Origin : consent[c] = "closed" => consent'[c] = "closed"

-----------------------------------------------------------------------------
\* A step that mints nothing preserves the invariant when no link comes to life.
LEMMA NoMintStep ==
  ASSUME ChainInv, UNCHANGED origin, Closing,
         refresh' \in [Link -> {"none", "live", "revoked", "gone"}],
         consent' \in [Origin -> {"none", "asked", "code", "closed"}],
         \A i \in Link : refresh'[i] = "live" => refresh[i] = "live",
         \A i \in Link : refresh'[i] = "none" <=> refresh[i] = "none"
  PROVE  ChainInv'
BY DEF ChainInv, Closing, SameChain, Live

\* A step that mints link j for a consent preserves it when no other link of that
\* consent is left alive.
LEMMA MintStep ==
  ASSUME ChainInv, NEW j \in Link, NEW c \in Origin, refresh[j] = "none",
         origin' = [origin EXCEPT ![j] = c], Closing, consent'[c] = "closed",
         refresh' \in [Link -> {"none", "live", "revoked", "gone"}],
         consent' \in [Origin -> {"none", "asked", "code", "closed"}],
         refresh'[j] # "none",
         \A i \in Link \ {j} : /\ refresh'[i] = "live" => refresh[i] = "live" /\ origin[i] # c
                               /\ refresh'[i] = "none" <=> refresh[i] = "none"
  PROVE  ChainInv'
<1>1. \A i \in Link : origin'[i] = IF i = j THEN c ELSE origin[i]
  BY DEF ChainInv
<1>2. ASSUME NEW i \in Link, NEW k \in Link, SameChain(i, k)', Live(i)', Live(k)' PROVE i = k
  <2>1. CASE i # j /\ k # j
    BY <1>1, <1>2, <2>1 DEF ChainInv, SameChain, Live
  <2>2. CASE i = j \/ k = j
    BY <1>1, <1>2, <2>2 DEF SameChain, Live
  <2> QED
    BY <2>1, <2>2
<1>3. ASSUME NEW i \in Link PROVE refresh'[i] = "none" <=> origin'[i] = NoOrigin
  BY <1>1, TokenAssumption DEF ChainInv
<1>4. ASSUME NEW d \in Origin, consent'[d] # "closed", NEW i \in Link PROVE origin'[i] # d
  BY <1>1, <1>4 DEF ChainInv, Closing
<1> QED
  BY <1>1, <1>2, <1>3, <1>4, TokenAssumption DEF ChainInv

\* The sweep brings nothing to life.
LEMMA SweptStates ==
  ASSUME NEW states \in [Link -> {"none", "live", "revoked", "gone"}], NEW expires
  PROVE  /\ Swept(states, expires) \in [Link -> {"none", "live", "revoked", "gone"}]
         /\ \A i \in Link : /\ Swept(states, expires)[i] = "live" => states[i] = "live"
                            /\ Swept(states, expires)[i] = "none" <=> states[i] = "none"
BY DEF Swept, HasRow

\* What a stop makes of the consents.
LEMMA LostMemory ==
  ASSUME NEW states \in [Origin -> {"none", "asked", "code", "closed"}], LoseMemory(states)
  PROVE  /\ consent' \in [Origin -> {"none", "asked", "code", "closed"}]
         /\ \A c \in Origin : states[c] = "closed" => consent'[c] = "closed"
BY DEF LoseMemory, Forgotten

-----------------------------------------------------------------------------
\* A code is redeemed when its consent has no link, killed in between or not.
LEMMA RedeemStep ==
  ASSUME ChainInv, NEW c \in Origin, NEW j \in Link,
         (\E right \in BOOLEAN : Redeem(c, j, right)) \/ TornRedeem(c, j)
  PROVE  ChainInv'
<1>1. \A i \in Link : origin[i] # c
  BY DEF ChainInv, Redeem, TornRedeem, Redeemable
<1>2. CASE Redeem(c, j, TRUE)
  <2>1. /\ refresh[j] = "none" /\ refresh' = [refresh EXCEPT ![j] = "live"]
        /\ origin' = [origin EXCEPT ![j] = c]
        /\ consent' = [consent EXCEPT ![c] = "closed"]
    BY <1>2 DEF Redeem, IssueTokenPair, Minted, Next1
  <2>2. /\ refresh' \in [Link -> {"none", "live", "revoked", "gone"}] /\ refresh'[j] # "none"
        /\ \A i \in Link \ {j} : /\ refresh'[i] = "live" => refresh[i] = "live" /\ origin[i] # c
                                 /\ refresh'[i] = "none" <=> refresh[i] = "none"
    BY <1>1, <2>1 DEF ChainInv
  <2>3. /\ consent' \in [Origin -> {"none", "asked", "code", "closed"}]
        /\ Closing /\ consent'[c] = "closed"
    BY <2>1 DEF ChainInv, Closing
  <2>4. refresh[j] = "none" /\ origin' = [origin EXCEPT ![j] = c]
    BY <2>1
  <2> QED
    BY <2>2, <2>3, <2>4, MintStep, Zenon
<1>3. CASE Redeem(c, j, FALSE)
  <2>1. UNCHANGED <<refresh, origin>> /\ consent' = [consent EXCEPT ![c] = "closed"]
    BY <1>3 DEF Redeem, tokenVars, rows, history
  <2> QED
    BY <2>1, NoMintStep DEF ChainInv, Closing
<1>4. CASE TornRedeem(c, j)
  <2> DEFINE closed == [consent EXCEPT ![c] = "closed"]
             minted == [refresh EXCEPT ![j] = "live"]
  <2>1. /\ refresh[j] = "none" /\ refresh' = Swept(minted, rExpires')
        /\ origin' = [origin EXCEPT ![j] = c] /\ LoseMemory(closed)
    BY <1>4 DEF TornRedeem, TornTokenPair, Minted, Next1
  <2>2. closed \in [Origin -> {"none", "asked", "code", "closed"}] /\ closed[c] = "closed"
        /\ \A d \in Origin : consent[d] = "closed" => closed[d] = "closed"
    BY DEF ChainInv
  <2>3. minted \in [Link -> {"none", "live", "revoked", "gone"}] /\ minted[j] = "live"
        /\ \A i \in Link \ {j} : minted[i] = refresh[i]
    BY DEF ChainInv
  <2> HIDE DEF closed, minted
  <2>4. /\ consent' \in [Origin -> {"none", "asked", "code", "closed"}]
        /\ Closing /\ consent'[c] = "closed"
    BY <2>1, <2>2, LostMemory DEF Closing
  <2>5. /\ refresh' \in [Link -> {"none", "live", "revoked", "gone"}] /\ refresh'[j] # "none"
        /\ \A i \in Link \ {j} : /\ refresh'[i] = "live" => refresh[i] = "live" /\ origin[i] # c
                                 /\ refresh'[i] = "none" <=> refresh[i] = "none"
    BY <1>1, <2>1, <2>3, SweptStates
  <2> QED
    BY <2>1, <2>4, <2>5, MintStep, Zenon
<1> QED
  BY <1>2, <1>3, <1>4

\* A rotation revokes the only live link of its chain, killed in between or not.
LEMMA RotationStep ==
  ASSUME ChainInv, NEW i \in Link, NEW j \in Link, RotateRefreshToken(i, j),
         \/ refresh' = Rotation(i, j) /\ UNCHANGED consent
         \/ refresh' = Swept(Rotation(i, j), rExpires') /\ LoseMemory(consent)
  PROVE  ChainInv'
<1>1. /\ refresh[i] = "live" /\ refresh[j] = "none" /\ i # j
      /\ origin' = [origin EXCEPT ![j] = origin[i]] /\ origin[i] \in Origin
  BY TokenAssumption DEF RotateRefreshToken, LookupRefresh, Next1, Minted, ChainInv
<1>2. \A k \in Link \ {i} : refresh[k] = "live" => origin[k] # origin[i]
  BY <1>1 DEF ChainInv, SameChain, Live
<1>3. /\ Rotation(i, j) \in [Link -> {"none", "live", "revoked", "gone"}]
      /\ Rotation(i, j)[i] = "revoked" /\ Rotation(i, j)[j] = "live"
      /\ \A k \in Link \ {i, j} : Rotation(i, j)[k] = refresh[k]
  BY <1>1 DEF ChainInv, Rotation
<1>4. consent[origin[i]] = "closed"
  BY <1>1 DEF ChainInv
<1>5. /\ refresh' \in [Link -> {"none", "live", "revoked", "gone"}] /\ refresh'[j] # "none"
      /\ \A k \in Link \ {j} : /\ refresh'[k] = "live" => refresh[k] = "live" /\ k # i
                               /\ refresh'[k] = "none" <=> refresh[k] = "none"
  <2>1. CASE refresh' = Rotation(i, j)
    BY <1>1, <1>3, <2>1
  <2>2. CASE refresh' = Swept(Rotation(i, j), rExpires')
    BY <1>1, <1>3, <2>2, SweptStates
  <2> QED
    BY <2>1, <2>2
<1>6. consent' \in [Origin -> {"none", "asked", "code", "closed"}] /\ Closing
  BY LostMemory DEF ChainInv, Closing
<1>7. consent'[origin[i]] = "closed"
  BY <1>1, <1>4, <1>6 DEF Closing
<1>8. \A k \in Link \ {j} : /\ refresh'[k] = "live" => refresh[k] = "live" /\ origin[k] # origin[i]
                            /\ refresh'[k] = "none" <=> refresh[k] = "none"
  BY <1>2, <1>5
<1> QED
  BY <1>1, <1>5, <1>6, <1>7, <1>8, MintStep, Zenon

-----------------------------------------------------------------------------
\* Every step of the server preserves the invariant.
LEMMA ChainStep == ChainInv /\ [OAuthNext]_oauthVars => ChainInv'
<1> SUFFICES ASSUME ChainInv, [OAuthNext]_oauthVars PROVE ChainInv'
  OBVIOUS
<1> USE DEF tokenVars, rows, accesses, history
<1>1. ASSUME NEW cl \in Holder, Register(cl) PROVE ChainInv'
  BY <1>1, NoMintStep DEF Register, consentVars, ChainInv, Closing
<1>2. ASSUME NEW c \in Origin, NEW cl \in Holder, NEW words \in Requests, Authorize(c, cl, words)
      PROVE  ChainInv'
  BY <1>2 DEF Authorize, ChainInv, SameChain, Live
<1>3. ASSUME NEW c \in Origin, Deny(c) PROVE ChainInv'
  BY <1>3 DEF Deny, Answered, ChainInv, SameChain, Live
<1>4. ASSUME NEW c \in Origin, NEW t, WrongPassword(c, t) PROVE ChainInv'
  BY <1>4, NoMintStep DEF WrongPassword, consentVars, ChainInv, Closing
<1>5. ASSUME NEW c \in Origin, NEW form, Approve(c, form) PROVE ChainInv'
  BY <1>5 DEF Approve, Answered, ChainInv, SameChain, Live
<1>6. ASSUME NEW c \in Origin, NEW j \in Link,
             (\E right \in BOOLEAN : Redeem(c, j, right)) \/ TornRedeem(c, j)
      PROVE  ChainInv'
  BY <1>6, RedeemStep
<1>7. ASSUME NEW i \in Link, NEW j \in Link, TornRotation(i, j) PROVE ChainInv'
  BY <1>7, RotationStep DEF TornRotation, TornRefresh
<1>8. ASSUME NEW i \in Link, NEW j \in Link, Refresh(i, j), UNCHANGED <<clock, serverVars>> PROVE ChainInv'
  BY <1>8, RotationStep DEF Refresh, serverVars, consentVars
<1>9. ASSUME NEW i \in Link, Replay(i), UNCHANGED <<clock, serverVars>> PROVE ChainInv'
  <2>1. UNCHANGED <<origin, consent>>
    BY <1>9 DEF Replay, serverVars, consentVars
  <2>2. CASE RevokeRotationChain(i)
    <3> HIDE DEF Chain
    <3>1. /\ refresh' \in [Link -> {"none", "live", "revoked", "gone"}]
          /\ \A k \in Link : /\ refresh'[k] = "live" => refresh[k] = "live"
                             /\ refresh'[k] = "none" <=> refresh[k] = "none"
      BY <2>2 DEF RevokeRotationChain, ChainInv
    <3> QED
      BY <2>1, <3>1, NoMintStep DEF ChainInv, Closing
  <2>3. CASE UNCHANGED refresh
    BY <2>1, <2>3, NoMintStep DEF ChainInv, Closing
  <2> QED
    BY <1>9, <2>2, <2>3 DEF Replay
<1>10. ASSUME NEW i \in Link, RevokeRefresh(i), UNCHANGED <<clock, serverVars>> PROVE ChainInv'
  BY <1>10, NoMintStep DEF RevokeRefresh, serverVars, consentVars, ChainInv, Closing
<1>11. ASSUME NEW i \in Link, RevokeAccess(i), UNCHANGED <<clock, serverVars>> PROVE ChainInv'
  BY <1>11, NoMintStep DEF RevokeAccess, serverVars, consentVars, ChainInv, Closing
<1>12. ASSUME PruneTokens, consent' \in [Origin -> {"none", "asked", "code", "closed"}], Closing
       PROVE  ChainInv'
  <2>1. /\ refresh' \in [Link -> {"none", "live", "revoked", "gone"}]
        /\ \A k \in Link : /\ refresh'[k] = "live" => refresh[k] = "live"
                           /\ refresh'[k] = "none" <=> refresh[k] = "none"
    BY <1>12, SweptStates DEF PruneTokens, ChainInv
  <2> QED
    BY <1>12, <2>1, NoMintStep DEF PruneTokens
<1>13. CASE PruneTokens /\ UNCHANGED <<clock, serverVars>>
  BY <1>12, <1>13 DEF serverVars, consentVars, ChainInv, Closing
<1>14. CASE Restart
  BY <1>12, <1>14, LostMemory DEF Restart, ChainInv, Closing
<1>15. CASE Tick
  BY <1>15, NoMintStep DEF Tick, consentVars, ChainInv, Closing
<1>16. CASE UNCHANGED oauthVars
  BY <1>16, NoMintStep DEF oauthVars, serverVars, consentVars, ChainInv, Closing
<1> HIDE DEF tokenVars, rows, accesses, history
<1> QED
  BY <1>1, <1>2, <1>3, <1>4, <1>5, <1>6, <1>7, <1>8, <1>9, <1>10, <1>11, <1>13, <1>14, <1>15, <1>16
     DEF OAuthNext, TokenStep

\* However often and by whomever codes and refresh tokens are presented, and wherever the
\* process is killed, one consent never has two refresh tokens that work (store.ts:293).
THEOREM OneLiveRefreshTheorem == OAuthSpec => []OneLiveRefresh
<1>1. OAuthInit => ChainInv
  <2> SUFFICES ASSUME OAuthInit PROVE ChainInv
    OBVIOUS
  <2>1. /\ refresh = [i \in Link |-> "none"] /\ origin = [i \in Link |-> NoOrigin]
        /\ consent = [c \in Origin |-> "none"]
    BY DEF OAuthInit, TokenInit
  <2> QED
    BY <2>1, TokenAssumption DEF ChainInv, SameChain, Live
<1>2. ChainInv => OneLiveRefresh
  BY DEF ChainInv, OneLiveRefresh, LookupRefresh, Live
<1> QED
  BY <1>1, <1>2, ChainStep, PTL DEF OAuthSpec

-----------------------------------------------------------------------------
(* Types.                                                                  *)

State == {"none", "live", "revoked", "gone"}

\* What the steps do to the settings.
Settled == UNCHANGED settings \/ Reconfigure

\* What they do to the tokens, with the sweep of a kill or without it.
Quiet == UNCHANGED tokenVars /\ clock' \in {clock, clock + 1}

TokenMove ==
  \/ Quiet
  \/ /\ UNCHANGED clock
     /\ \/ \E c \in Origin, j \in Link :
             /\ Redeemable(c) /\ consent' = [consent EXCEPT ![c] = "closed"]
             /\ IssueTokenPair(j, client[c], granted[c], c)
        \/ \E c \in Origin, j \in Link : TornRedeem(c, j)
        \/ \E i, j \in Link : Refresh(i, j) \/ TornRefresh(i, j)
        \/ \E i \in Link : Replay(i) \/ RevokeRefresh(i) \/ RevokeAccess(i)
        \/ PruneTokens

\* Every step of the server is one of these.
LEMMA TokenMoves == [OAuthNext]_oauthVars => TokenMove
<1> SUFFICES ASSUME [OAuthNext]_oauthVars PROVE TokenMove
  OBVIOUS
<1> USE DEF TokenMove
<1>1. ASSUME NEW cl \in Holder, Register(cl) PROVE TokenMove
  BY <1>1 DEF Register, Quiet
<1>2. ASSUME NEW c \in Origin, NEW cl \in Holder, NEW words \in Requests, Authorize(c, cl, words)
      PROVE  TokenMove
  BY <1>2 DEF Authorize, Quiet
<1>3. ASSUME NEW c \in Origin, Deny(c) PROVE TokenMove
  BY <1>3 DEF Deny, Quiet
<1>4. ASSUME NEW c \in Origin, NEW t \in {clock, clock + 1}, WrongPassword(c, t) PROVE TokenMove
  BY <1>4 DEF WrongPassword, Quiet
<1>5. ASSUME NEW c \in Origin, NEW form, Approve(c, form) PROVE TokenMove
  BY <1>5 DEF Approve, Quiet
<1>6. ASSUME NEW c \in Origin, NEW j \in Link, NEW right \in BOOLEAN, Redeem(c, j, right)
      PROVE  TokenMove
  BY <1>6 DEF Redeem, Quiet
<1>7. ASSUME NEW c \in Origin, NEW j \in Link, TornRedeem(c, j) PROVE TokenMove
  BY <1>7 DEF TornRedeem, LoseMemory
<1>8. ASSUME NEW i \in Link, NEW j \in Link, TornRotation(i, j) PROVE TokenMove
  BY <1>8 DEF TornRotation, LoseMemory
<1>9. CASE TokenStep /\ UNCHANGED <<clock, serverVars>>
  BY <1>9 DEF TokenStep
<1>10. CASE Restart
  BY <1>10 DEF Restart, LoseMemory
<1>11. CASE Tick
  BY <1>11 DEF Tick, Quiet
<1>12. CASE UNCHANGED oauthVars
  BY <1>12 DEF oauthVars, Quiet
<1> HIDE DEF TokenMove
<1> QED
  BY <1>1, <1>2, <1>3, <1>4, <1>5, <1>6, <1>7, <1>8, <1>9, <1>10, <1>11, <1>12 DEF OAuthNext

\* Every step of the server leaves the settings alone, or is a start of the process.
LEMMA SettingsMoves == [OAuthNext]_oauthVars => Settled
<1> SUFFICES ASSUME [OAuthNext]_oauthVars PROVE Settled
  OBVIOUS
<1> USE DEF Settled
<1>1. ASSUME NEW states, LoseMemory(states) PROVE Settled
  BY <1>1 DEF LoseMemory
<1>2. CASE Restart \/ (\E c \in Origin, j \in Link : TornRedeem(c, j)) \/ (\E i, j \in Link : TornRotation(i, j))
  BY <1>1, <1>2 DEF Restart, TornRedeem, TornRotation
<1>3. CASE \/ \E cl \in Holder : Register(cl)
           \/ \E c \in Origin, cl \in Holder, words \in Requests : Authorize(c, cl, words)
           \/ \E c \in Origin : Deny(c) \/ \E t \in {clock, clock + 1} : WrongPassword(c, t)
  BY <1>3 DEF Register, Authorize, Deny, WrongPassword
<1>4. ASSUME NEW c \in Origin, NEW form, Approve(c, form) PROVE Settled
  BY <1>4 DEF Approve
<1>5. ASSUME NEW c \in Origin, NEW j \in Link, NEW right \in BOOLEAN, Redeem(c, j, right) PROVE Settled
  BY <1>5 DEF Redeem
<1>6. CASE Tick \/ UNCHANGED <<clock, serverVars>> \/ UNCHANGED oauthVars
  BY <1>6 DEF Tick, serverVars, oauthVars
<1> QED
  BY <1>2, <1>3, <1>4, <1>5, <1>6 DEF OAuthNext

\* A lifetime that was never made shorter has only grown.
Longer == (~shortened)' => ~shortened /\ lifetime <= lifetime'

\* The settings keep their types, and a shorter lifetime is remembered.
LEMMA SettingsTypes ==
  ASSUME TokenTypeOK, Settled
  PROVE  /\ lifetime \in Nat /\ lifetime' \in RefreshTtls /\ shortened' \in BOOLEAN
         /\ shortened => shortened'
         /\ Longer
<1>1. /\ lifetime \in RefreshTtls /\ shortened \in BOOLEAN
      /\ \A n \in RefreshTtls : n \in Nat
  BY TokenAssumption DEF TokenTypeOK
<1>2. CASE UNCHANGED settings
  BY <1>1, <1>2 DEF settings, Longer
<1>3. CASE Reconfigure
  <2>1. lifetime' \in RefreshTtls /\ shortened' = (shortened \/ lifetime' < lifetime)
    BY <1>3 DEF Reconfigure
  <2>2. lifetime' \in Nat /\ lifetime \in Nat /\ (~(lifetime' < lifetime) => lifetime <= lifetime')
    BY <1>1, <2>1
  <2> QED
    BY <1>1, <2>1, <2>2, Zenon DEF Longer
<1> QED
  BY <1>2, <1>3 DEF Settled

\* The sweep of expired rows yields a state for every link.
LEMMA SweptTypes ==
  ASSUME NEW states \in [Link -> State], NEW expires
  PROVE  Swept(states, expires) \in [Link -> State]
BY DEF Swept, State

\* A mint, for a client and a scope of the right types.
LEMMA MintedTypes ==
  ASSUME TokenTypeOK, NEW j \in Link, NEW cl \in Holder \cup {NoHolder}, NEW sc,
         NEW from \in Origin \cup {NoOrigin}, Minted(j, cl, sc, from)
  PROVE  /\ rExpires' \in [Link -> Nat]
         /\ holder' \in [Link -> Holder \cup {NoHolder}]
         /\ origin' \in [Link -> Origin \cup {NoOrigin}]
BY TokenAssumption DEF TokenTypeOK, Minted

\* An access token that is issued belongs to a link.
LEMMA IssueAccessTypes ==
  ASSUME TokenTypeOK, NEW j \in Link, IssueAccess(j)
  PROVE  /\ access' \in [Link -> {"none", "live", "revoked", "gone"}]
         /\ aExpires' \in [Link -> Nat]
         /\ parent' \in [Link -> Link \cup {NoLink}]
BY TokenAssumption DEF TokenTypeOK, IssueAccess

\* Every move of the token store keeps its types.
LEMMA TokenTypes ==
  ASSUME TokenTypeOK, TokenMove, Settled, client \in [Origin -> Holder \cup {NoHolder}]
  PROVE  TokenTypeOK'
<1>0. lifetime' \in RefreshTtls /\ shortened' \in BOOLEAN
  BY SettingsTypes
<1> USE <1>0 DEF TokenTypeOK
<1>1. CASE Quiet
  BY <1>1 DEF Quiet, tokenVars, rows, accesses, history
<1>2. ASSUME NEW c \in Origin, NEW j \in Link, UNCHANGED clock,
             IssueTokenPair(j, client[c], granted[c], c)
      PROVE  TokenTypeOK'
  <2>1. /\ UNCHANGED <<clock, revokedAt, rotatedTo, replayed, truncated, disowned>>
        /\ refresh' = [refresh EXCEPT ![j] = "live"]
        /\ Minted(j, client[c], granted[c], c) /\ IssueAccess(j)
    BY <1>2 DEF IssueTokenPair
  <2>2. client[c] \in Holder \cup {NoHolder}
    OBVIOUS
  <2> QED
    BY <2>1, <2>2, MintedTypes, IssueAccessTypes
<1>3. ASSUME NEW c \in Origin, NEW j \in Link, UNCHANGED clock, TornRedeem(c, j)
      PROVE  TokenTypeOK'
  <2>1. /\ UNCHANGED <<clock, revokedAt, rotatedTo, aExpires, parent, replayed, truncated, disowned>>
        /\ refresh' = Swept([refresh EXCEPT ![j] = "live"], rExpires')
        /\ access' = Swept(access, aExpires)
        /\ Minted(j, client[c], granted[c], c)
    BY <1>3 DEF TornRedeem, TornTokenPair
  <2>2. client[c] \in Holder \cup {NoHolder} /\ [refresh EXCEPT ![j] = "live"] \in [Link -> State]
    BY DEF State
  <2>3. refresh' \in [Link -> State] /\ access' \in [Link -> State]
    BY <2>1, <2>2, SweptTypes DEF State
  <2> QED
    BY <2>1, <2>2, <2>3, MintedTypes DEF State
<1>4. ASSUME NEW i \in Link, NEW j \in Link, UNCHANGED clock, Refresh(i, j) \/ TornRefresh(i, j)
      PROVE  TokenTypeOK'
  <2>1. /\ UNCHANGED <<clock, replayed, truncated, disowned>>
        /\ revokedAt' = [revokedAt EXCEPT ![i] = clock]
        /\ rotatedTo' = [rotatedTo EXCEPT ![i] = j]
        /\ Minted(j, holder[i], scope[i], origin[i])
    BY <1>4 DEF Refresh, TornRefresh, RotateRefreshToken
  <2>2. Rotation(i, j) \in [Link -> State] /\ access \in [Link -> State]
    BY DEF Rotation, State
  <2>3. refresh' \in [Link -> State] /\ access' \in [Link -> State]
    BY <1>4, <2>2, SweptTypes, IssueAccessTypes DEF Refresh, TornRefresh, State
  <2>4. aExpires' \in [Link -> Nat] /\ parent' \in [Link -> Link \cup {NoLink}]
    BY <1>4, IssueAccessTypes DEF Refresh, TornRefresh
  <2>5. holder[i] \in Holder \cup {NoHolder} /\ origin[i] \in Origin \cup {NoOrigin}
    OBVIOUS
  <2> QED
    BY <2>1, <2>3, <2>4, <2>5, MintedTypes DEF State
<1>5. ASSUME NEW i \in Link, UNCHANGED clock, Replay(i) PROVE TokenTypeOK'
  <2> HIDE DEF Chain
  <2>1. /\ refresh' \in [Link -> {"none", "live", "revoked", "gone"}]
        /\ revokedAt' \in [Link -> Nat]
        /\ access' \in [Link -> {"none", "live", "revoked", "gone"}]
    BY <1>5 DEF Replay, RevokeRotationChain, AccessAfterTheft
  <2>2. replayed' \in SUBSET Link /\ truncated' \in SUBSET Link
    BY <1>5 DEF Replay, Recorded
  <2> QED
    BY <1>5, <2>1, <2>2 DEF Replay
<1>6. ASSUME NEW i \in Link, UNCHANGED clock, RevokeRefresh(i) \/ RevokeAccess(i) PROVE TokenTypeOK'
  BY <1>6 DEF RevokeRefresh, RevokeAccess, rows, accesses, history
<1>7. ASSUME PruneTokens, UNCHANGED clock PROVE TokenTypeOK'
  BY <1>7, SweptTypes DEF PruneTokens, State, history
<1> QED
  BY <1>1, <1>2, <1>3, <1>4, <1>5, <1>6, <1>7 DEF TokenMove

\* What the consent page may grant.
LEMMA ChosenIsOffered ==
  ASSUME NEW c \in Origin, NEW form, Chosen(c, form) # {}, Options(c) # {}
  PROVE  /\ Chosen(c, form) \subseteq Options(c) /\ Options(c) \subseteq Scope
         /\ Chosen(c, form) \subseteq Picked(c, form)
<1>1. Options(c) \subseteq {"mcp", "board"}
  BY DEF Options, ScopeOptions, Grantable, Scope
<1>2. DefaultScope(Options(c)) \in Options(c)
  BY <1>1 DEF DefaultScope
<1> QED
  BY <1>1, <1>2 DEF Chosen, Picked, Scope

\* The forms the page can send: no scope, or the word of one.
Form == {{}} \cup {{w} : w \in ScopeWord}

\* What the owner picks is a scope, or the consent would be dropped.
LEMMA PickedIsScope ==
  ASSUME NEW c \in Origin, NEW form \in Form, Chosen(c, form) # {}, Options(c) # {}
  PROVE  Picked(c, form) \subseteq Scope
<1>1. CASE form = {}
  BY <1>1, ChosenIsOffered DEF Chosen, Picked
<1>2. CASE form # {}
  <2>1. PICK w \in ScopeWord : form = {w}
    BY <1>2 DEF Form
  <2>2. Chosen(c, form) \subseteq Scope /\ Chosen(c, form) \subseteq {w}
    BY <1>2, <2>1, ChosenIsOffered DEF Chosen
  <2> QED
    BY <1>2, <2>1, <2>2 DEF Picked
<1> QED
  BY <1>1, <1>2

\* Throttle entries and guesses.
Entry == [count : Nat, resetAt : Nat]

Guesses(ws) == ws \subseteq [at : Nat, nr : Nat] /\ IsFiniteSet(ws)

\* The throttle's operators yield entries and finite sets of guesses.
LEMMA ThrottleTypes ==
  /\ \A entry, t : entry \in Entry /\ t \in Nat => Record(entry, t) \in Entry
  /\ NoAttempts \in Entry
  /\ \A ws, t : Guesses(ws) /\ t \in Nat => Guesses(Recent(ws, t)) /\ Guesses(OneMore(ws, t))
  /\ Guesses(NoGuesses)
<1>1. ASSUME NEW entry, NEW t \in Nat, entry \in Entry PROVE Record(entry, t) \in Entry
  BY <1>1, ServerAssumption DEF Entry, Record
<1>2. ASSUME NEW ws, NEW t \in Nat, Guesses(ws) PROVE Guesses(Recent(ws, t)) /\ Guesses(OneMore(ws, t))
  <2> DEFINE same == {w \in ws : w.at = t}
             new  == [at |-> t, nr |-> Cardinality(same) + 1]
  <2>1. Recent(ws, t) \in SUBSET ws /\ same \in SUBSET ws
    BY DEF Recent
  <2>2. IsFiniteSet(Recent(ws, t)) /\ Cardinality(same) \in Nat
    BY <1>2, <2>1, FS_Subset, FS_CardinalityType DEF Guesses
  <2>3. new \in [at : Nat, nr : Nat]
    BY <2>2
  <2> HIDE DEF new
  <2>4. Guesses(Recent(ws, t)) /\ Guesses(Recent(ws, t) \cup {new})
    BY <1>2, <2>1, <2>2, <2>3, FS_AddElement DEF Guesses
  <2> QED
    BY <2>4 DEF OneMore, new
<1>3. Guesses(NoGuesses)
  BY FS_EmptySet DEF Guesses, NoGuesses
<1> QED
  BY <1>1, <1>2, <1>3 DEF Entry, NoAttempts

\* Every consent that is open offers something.
Offering == \A c \in Origin : consent[c] # "none" => Options(c) # {}

ServerTypeOK == OAuthTypeOK /\ Offering

\* A restart forgets the consents and both throttles, nothing else.
LEMMA ForgottenTypes ==
  ASSUME OAuthTypeOK, NEW states \in [Origin -> {"none", "asked", "code", "closed"}], LoseMemory(states)
  PROVE  /\ consent' \in [Origin -> {"none", "asked", "code", "closed"}]
         /\ \A c \in Origin : consent'[c] # "none" => states[c] # "none"
         /\ attempts' \in Entry /\ registrations' \in Entry
         /\ Guesses(guesses)'
         /\ UNCHANGED <<registered, due, client, asked, picked, granted>>
BY ThrottleTypes DEF LoseMemory, Forgotten

\* Every step of the server keeps the types.
LEMMA ServerTypes == ServerTypeOK /\ [OAuthNext]_oauthVars => ServerTypeOK'
<1> SUFFICES ASSUME ServerTypeOK, [OAuthNext]_oauthVars PROVE ServerTypeOK'
  OBVIOUS
<1>1. TokenTypeOK'
  BY TokenMoves, SettingsMoves, TokenTypes DEF ServerTypeOK, OAuthTypeOK
<1> DEFINE Rest ==
      /\ registered \subseteq Holder
      /\ consent \in [Origin -> {"none", "asked", "code", "closed"}]
      /\ due     \in [Origin -> Nat]
      /\ client  \in [Origin -> Holder \cup {NoHolder}]
      /\ asked   \in [Origin -> Requests \cup {{}}]
      /\ picked  \in [Origin -> SUBSET Scope]
      /\ granted \in [Origin -> SUBSET Scope]
      /\ attempts \in Entry /\ registrations \in Entry
      /\ Guesses(guesses)
      /\ Offering
<1>2. /\ Rest /\ clock \in Nat
      /\ Rest' => ServerTypeOK'
  <2>1. TokenTypeOK => clock \in Nat
    BY DEF TokenTypeOK
  <2>2. Rest /\ clock \in Nat
    BY <2>1 DEF ServerTypeOK, OAuthTypeOK, Entry, Guesses
  <2>3. Rest' => ServerTypeOK'
    BY <1>1 DEF ServerTypeOK, OAuthTypeOK, Entry, Guesses
  <2> QED
    BY <2>2, <2>3
<1>3. UNCHANGED <<registered, registrations, consentVars, attempts, guesses>> => Rest'
  BY <1>2 DEF consentVars, Offering, Options
<1>4. ASSUME NEW states \in [Origin -> {"none", "asked", "code", "closed"}], LoseMemory(states),
             \A c \in Origin : states[c] # "none" => consent[c] # "none"
      PROVE  Rest'
  <2>1. OAuthTypeOK
    BY DEF ServerTypeOK
  <2>2. /\ consent' \in [Origin -> {"none", "asked", "code", "closed"}]
        /\ \A c \in Origin : consent'[c] # "none" => states[c] # "none"
        /\ attempts' \in Entry /\ registrations' \in Entry
        /\ Guesses(guesses)'
        /\ UNCHANGED <<registered, due, client, asked, picked, granted>>
    BY <1>4, <2>1, ForgottenTypes, Zenon
  <2>3. Offering'
    BY <1>2, <1>4, <2>2 DEF Offering, Options
  <2> QED
    BY <1>2, <2>2, <2>3
<1>5. ASSUME NEW c \in Origin, UNCHANGED <<registered, registrations, due, client, asked, picked, granted, attempts, guesses>>,
             consent' = [consent EXCEPT ![c] = "closed"], consent[c] # "none"
      PROVE  Rest'
  BY <1>2, <1>5 DEF Offering, Options
<1>6. ASSUME NEW cl \in Holder, Register(cl) PROVE Rest'
  BY <1>2, <1>6, ThrottleTypes DEF Register, consentVars, Offering, Options
<1>7. ASSUME NEW c \in Origin, NEW cl \in Holder, NEW words \in Requests, Authorize(c, cl, words)
      PROVE  Rest'
  <2>1. clock + PendingTtl \in Nat
    BY <1>2, ServerAssumption
  <2>2. Offering'
    BY <1>2, <1>7 DEF Authorize, Offering, Options
  <2> QED
    BY <1>2, <1>7, <2>1, <2>2 DEF Authorize
<1>8. ASSUME NEW c \in Origin, Deny(c) PROVE Rest'
  BY <1>5, <1>8 DEF Deny, Answered
<1>9. ASSUME NEW c \in Origin, NEW t \in {clock, clock + 1}, WrongPassword(c, t) PROVE Rest'
  <2>1. t \in Nat
    BY <1>2
  <2>2. Record(attempts, t) \in Entry
    BY <1>2, <2>1, ThrottleTypes
  <2>3. Guesses(OneMore(guesses, t))
    BY <1>2, <2>1, ThrottleTypes
  <2> QED
    BY <1>2, <1>9, <2>2, <2>3 DEF WrongPassword, consentVars, Offering, Options
<1>10. ASSUME NEW c \in Origin, NEW form \in Form, Approve(c, form) PROVE Rest'
  <2>1. clock + CodeTtl \in Nat
    BY <1>2, ServerAssumption
  <2>2. Chosen(c, form) \subseteq Scope /\ Picked(c, form) \subseteq Scope
    BY <1>2, <1>10, ChosenIsOffered, PickedIsScope DEF Approve, Answered, Offering
  <2>3. Offering'
    BY <1>2, <1>10 DEF Approve, Answered, Offering, Options
  <2> QED
    BY <1>2, <1>10, <2>1, <2>2, <2>3, ThrottleTypes DEF Approve
<1>11. ASSUME NEW c \in Origin, NEW j \in Link, NEW right \in BOOLEAN, Redeem(c, j, right) PROVE Rest'
  BY <1>5, <1>11 DEF Redeem, Redeemable
<1>12. ASSUME NEW c \in Origin, NEW j \in Link, TornRedeem(c, j) PROVE Rest'
  <2>1. /\ [consent EXCEPT ![c] = "closed"] \in [Origin -> {"none", "asked", "code", "closed"}]
        /\ \A d \in Origin : [consent EXCEPT ![c] = "closed"][d] # "none" => consent[d] # "none"
    BY <1>2, <1>12 DEF TornRedeem, Redeemable
  <2> QED
    BY <1>4, <1>12, <2>1 DEF TornRedeem
<1>13. ASSUME NEW i \in Link, NEW j \in Link, TornRotation(i, j) PROVE Rest'
  BY <1>2, <1>4, <1>13 DEF TornRotation
<1>14. CASE TokenStep /\ UNCHANGED <<clock, serverVars>>
  BY <1>2, <1>3, <1>14 DEF serverVars, consentVars
<1>15. CASE Restart
  BY <1>2, <1>4, <1>15 DEF Restart
<1>16. CASE Tick
  BY <1>2, <1>16, ThrottleTypes DEF Tick, consentVars, Offering, Options
<1>17. CASE UNCHANGED oauthVars
  BY <1>2, <1>3, <1>17 DEF oauthVars, serverVars, consentVars
<1> HIDE DEF Rest
<1> QED
  BY <1>2, <1>6, <1>7, <1>8, <1>9, <1>10, <1>11, <1>12, <1>13, <1>14, <1>15, <1>16, <1>17 DEF OAuthNext, Form

-----------------------------------------------------------------------------
(* The password throttle.                                                  *)

\* Wrong passwords by the window that the entry counts: those before it, those in it, and
\* those in it that are later than its first.
Before(ws, entry) == {w \in ws : w.at + Window < entry.resetAt}
Within(ws, entry) == {w \in ws : w.at + Window >= entry.resetAt}
After(ws, entry)  == {w \in ws : w.at + Window > entry.resetAt}

At(ws, t) == {w \in ws : w.at = t}

\* The entry has counted those in its window; when the next window begins, the first of
\* them is as old as a window is long.
Counted(ws, entry) ==
  entry.count # 0 =>
    /\ Cardinality(Within(ws, entry)) <= entry.count
    /\ Cardinality(After(ws, entry)) <= entry.count - 1
    /\ Cardinality(Before(ws, entry)) <= Limit - 1

Tallied(ws, entry, now) ==
  /\ Guesses(ws) /\ entry \in Entry /\ entry.count <= Limit
  /\ entry.count = 0 => ws = {}
  /\ entry.count # 0 => entry.resetAt <= now + Window
  /\ \A w \in ws : w.at <= now /\ w.at < entry.resetAt
  /\ \A w \in ws : w.nr <= Cardinality(At(ws, w.at))
  /\ Counted(ws, entry)

ThrottleInv == Tallied(guesses, attempts, clock)

\* A part of finitely many guesses.
LEMMA Fewer ==
  ASSUME NEW ws, Guesses(ws), NEW some \in SUBSET ws
  PROVE  Guesses(some) /\ Cardinality(some) \in Nat /\ Cardinality(some) <= Cardinality(ws)
BY FS_Subset, FS_CardinalityType DEF Guesses

\* The guesses that are left when time has gone on.
LEMMA TallyLater ==
  ASSUME NEW ws, NEW entry, NEW now \in Nat, NEW t \in Nat, now <= t, Tallied(ws, entry, now)
  PROVE  Tallied(Recent(ws, t), entry, t)
<1> DEFINE kept == Recent(ws, t)
<1>1. kept \subseteq ws /\ Guesses(ws) /\ Guesses(kept)
  BY Fewer DEF Recent, Tallied
<1>2. Counted(kept, entry)
  <2> SUFFICES ASSUME entry.count # 0 PROVE Counted(kept, entry)
    BY DEF Counted
  <2>1. /\ Guesses(Within(ws, entry)) /\ Guesses(After(ws, entry)) /\ Guesses(Before(ws, entry))
        /\ Cardinality(Within(ws, entry)) \in Nat /\ Cardinality(After(ws, entry)) \in Nat
        /\ Cardinality(Before(ws, entry)) \in Nat
    BY <1>1, Fewer DEF Within, After, Before
  <2>2. /\ Within(kept, entry) \in SUBSET Within(ws, entry) /\ After(kept, entry) \in SUBSET After(ws, entry)
        /\ Before(kept, entry) \in SUBSET Before(ws, entry)
    BY <1>1 DEF Within, After, Before
  <2>3. /\ Cardinality(Within(kept, entry)) \in Nat /\ Cardinality(After(kept, entry)) \in Nat
        /\ Cardinality(Before(kept, entry)) \in Nat
        /\ Cardinality(Within(kept, entry)) <= Cardinality(Within(ws, entry))
        /\ Cardinality(After(kept, entry)) <= Cardinality(After(ws, entry))
        /\ Cardinality(Before(kept, entry)) <= Cardinality(Before(ws, entry))
    BY <2>1, <2>2, Fewer
  <2>4. entry.count \in Nat /\ Limit \in Nat
    BY ServerAssumption DEF Tallied, Entry
  <2> QED
    BY <2>1, <2>3, <2>4 DEF Tallied, Counted
<1>3. ASSUME NEW w \in kept PROVE w.nr <= Cardinality(At(kept, w.at))
  <2>1. At(kept, w.at) = At(ws, w.at)
    BY <1>3 DEF At, Recent
  <2> QED
    BY <1>1, <2>1 DEF Tallied
<1>4. entry.count # 0 => entry.resetAt <= t + Window
  BY ServerAssumption DEF Tallied, Entry
<1>5. \A w \in kept : w.at <= t /\ w.at < entry.resetAt
  BY <1>1 DEF Tallied, Guesses
<1>6. entry \in Entry /\ entry.count <= Limit /\ (entry.count = 0 => kept = {})
  BY <1>1 DEF Tallied
<1> HIDE DEF kept
<1>7. Tallied(kept, entry, t)
  BY <1>1, <1>2, <1>3, <1>4, <1>5, <1>6 DEF Tallied
<1> QED
  BY <1>7 DEF kept

\* One more wrong password, that was looked at when the entry let it.
LEMMA TallyMore ==
  ASSUME NEW ws, NEW entry, NEW now \in Nat, NEW t \in {now, now + 1}, Tallied(ws, entry, now),
         entry.resetAt <= now \/ entry.count < Limit
  PROVE  Tallied(OneMore(ws, t), Record(entry, t), t)
<1> DEFINE kept == Recent(ws, t)
           new  == [at |-> t, nr |-> Cardinality(At(kept, t)) + 1]
           more == kept \cup {new}
           next == Record(entry, t)
<1>0. /\ t \in Nat /\ now <= t /\ Limit \in Nat \ {0} /\ Window \in Nat \ {0}
      /\ entry \in Entry /\ entry.count \in Nat /\ entry.resetAt \in Nat /\ Guesses(ws)
  BY ServerAssumption DEF Tallied, Entry
<1>1. Tallied(kept, entry, t)
  BY <1>0, TallyLater
<1>2. OneMore(ws, t) = more
  <2>1. At(kept, t) = {w \in ws : w.at = t}
    BY <1>0 DEF At, Recent
  <2> QED
    BY <2>1 DEF OneMore
<1> HIDE DEF kept
<1>3. Guesses(kept) /\ Cardinality(At(kept, t)) \in Nat /\ new \in [at : Nat, nr : Nat]
  <2>1. Guesses(kept) /\ At(kept, t) \in SUBSET kept
    BY <1>1 DEF Tallied, At
  <2>2. Cardinality(At(kept, t)) \in Nat
    BY <2>1, Fewer
  <2> QED
    BY <1>0, <2>1, <2>2
<1>4. new.at = t /\ new.nr = Cardinality(At(kept, t)) + 1 /\ new \notin kept
  <2>1. new.at = t /\ new.nr = Cardinality(At(kept, t)) + 1
    OBVIOUS
  <2> HIDE DEF new
  <2>2. ASSUME new \in kept PROVE FALSE
    BY <1>1, <1>3, <2>1, <2>2 DEF Tallied
  <2> QED
    BY <2>1, <2>2
<1> HIDE DEF new
<1>5. ASSUME NEW some \in SUBSET kept
      PROVE  /\ Cardinality(some) \in Nat /\ Cardinality(some \cup {new}) = Cardinality(some) + 1
             /\ IsFiniteSet(some \cup {new})
  BY <1>3, <1>4, <1>5, Fewer, FS_AddElement DEF Guesses
<1>6. Guesses(more)
  BY <1>3, <1>5 DEF Guesses
<1>7. ASSUME NEW w \in more PROVE w.nr <= Cardinality(At(more, w.at))
  <2>1. CASE w.at = t
    <3>1. At(more, t) = At(kept, t) \cup {new} /\ At(kept, t) \in SUBSET kept
      BY <1>4 DEF At
    <3>2. Cardinality(At(more, t)) = Cardinality(At(kept, t)) + 1
      BY <1>5, <3>1
    <3>3. w \in kept => w.nr <= Cardinality(At(kept, t)) /\ w.nr \in Nat
      BY <1>1, <1>3, <2>1 DEF Tallied, Guesses
    <3> QED
      BY <1>3, <1>4, <1>7, <2>1, <3>2, <3>3
  <2>2. CASE w.at # t
    <3>1. w \in kept /\ At(more, w.at) = At(kept, w.at)
      BY <1>4, <1>7, <2>2 DEF At
    <3> QED
      BY <1>1, <3>1 DEF Tallied
  <2> QED
    BY <2>1, <2>2
<1>8. CASE entry.count = 0 \/ entry.resetAt <= t
  <2>1. next = [count |-> 1, resetAt |-> t + Window]
    BY <1>8 DEF Record
  <2>2. next \in Entry /\ next.count = 1 /\ next.resetAt = t + Window
    BY <1>0, <2>1 DEF Entry
  <2> HIDE DEF next
  <2>3. \A w \in kept : w.at \in Nat /\ w.at < t
    BY <1>0, <1>1, <1>3, <1>8 DEF Tallied, Guesses
  <2>4. Within(more, next) = {} \cup {new} /\ After(more, next) = {} /\ Before(more, next) = kept
    BY <1>0, <1>4, <2>2, <2>3 DEF Within, After, Before
  <2>5. Cardinality(kept) <= Limit - 1
    <3>1. CASE entry.count = 0
      <4>1. kept = {}
        BY <1>1, <3>1 DEF Tallied
      <4> QED
        BY <1>0, <4>1, FS_EmptySet
    <3>2. CASE entry.count # 0 /\ entry.resetAt <= t
      <4>1. After(kept, entry) = kept
        BY <1>0, <3>2 DEF After, kept, Recent, Guesses
      <4>2. Cardinality(After(kept, entry)) <= entry.count - 1 /\ entry.count <= Limit
        BY <1>1, <3>2 DEF Tallied, Counted
      <4>3. Cardinality(kept) \in Nat
        BY <1>5
      <4> QED
        BY <1>0, <4>1, <4>2, <4>3
    <3> QED
      BY <1>8, <3>1, <3>2
  <2>6. Cardinality({} \cup {new}) = 1 /\ Cardinality({}) = 0
    BY <1>5, FS_EmptySet
  <2>7. Counted(more, next)
    BY <2>2, <2>4, <2>5, <2>6 DEF Counted
  <2>8. \A w \in more : w.at <= t /\ w.at < next.resetAt
    BY <1>0, <1>4, <2>2, <2>3
  <2>9. Tallied(more, next, t)
    <3> HIDE DEF more
    <3> QED
      BY <1>0, <1>6, <1>7, <2>2, <2>7, <2>8 DEF Tallied
  <2> QED
    BY <1>2, <2>9 DEF next
<1>9. CASE entry.count # 0 /\ entry.resetAt > t
  <2>1. next = [entry EXCEPT !.count = @ + 1]
    BY <1>0, <1>9 DEF Record
  <2>2. next \in Entry /\ next.count = entry.count + 1 /\ next.resetAt = entry.resetAt /\ entry.count < Limit
    BY <1>0, <1>9, <2>1 DEF Entry
  <2> HIDE DEF next
  <2>3. entry.resetAt <= t + Window
    BY <1>0, <1>9 DEF Tallied
  <2>4. /\ Within(more, next) = Within(kept, entry) \cup {new} /\ Before(more, next) = Before(kept, entry)
        /\ After(more, next) \in {After(kept, entry), After(kept, entry) \cup {new}}
    BY <1>0, <1>4, <2>2, <2>3 DEF Within, After, Before
  <2>5. Within(kept, entry) \in SUBSET kept /\ After(kept, entry) \in SUBSET kept
    BY DEF Within, After
  <2>6. /\ Cardinality(Within(kept, entry)) <= entry.count /\ Cardinality(After(kept, entry)) <= entry.count - 1
        /\ Cardinality(Before(kept, entry)) <= Limit - 1
    BY <1>1, <1>9 DEF Tallied, Counted
  <2>7. /\ Cardinality(Within(more, next)) <= next.count /\ Cardinality(After(more, next)) <= next.count - 1
    <3>1. /\ Cardinality(Within(kept, entry)) \in Nat /\ Cardinality(After(kept, entry)) \in Nat
          /\ Cardinality(Within(kept, entry) \cup {new}) = Cardinality(Within(kept, entry)) + 1
          /\ Cardinality(After(kept, entry) \cup {new}) = Cardinality(After(kept, entry)) + 1
      BY <1>5, <2>5
    <3>2. Cardinality(Within(more, next)) = Cardinality(Within(kept, entry)) + 1
      BY <2>4, <3>1
    <3> HIDE DEF more, kept
    <3>3. /\ Cardinality(After(more, next)) \in Nat
          /\ Cardinality(After(more, next)) <= Cardinality(After(kept, entry)) + 1
      <4>1. CASE After(more, next) = After(kept, entry)
        BY <3>1, <4>1
      <4>2. CASE After(more, next) = After(kept, entry) \cup {new}
        <5>1. Cardinality(After(more, next)) = Cardinality(After(kept, entry)) + 1
          BY <3>1, <4>2
        <5> QED
          BY <3>1, <5>1
      <4> QED
        BY <2>4, <4>1, <4>2
    <3>4. entry.count \in Nat
      BY <1>0 DEF Entry
    <3>5. Cardinality(Within(more, next)) <= next.count
      BY <2>2, <2>6, <3>1, <3>2, <3>4
    <3>6. Cardinality(After(more, next)) <= next.count - 1
      BY <2>2, <2>6, <3>1, <3>3, <3>4
    <3> QED
      BY <3>5, <3>6
  <2>8. Counted(more, next)
    BY <2>4, <2>6, <2>7 DEF Counted
  <2>9. \A w \in more : w.at <= t /\ w.at < next.resetAt
    BY <1>0, <1>1, <1>4, <1>9, <2>2 DEF Tallied
  <2>10. Tallied(more, next, t)
    <3>1. next.count <= Limit /\ next.count # 0
      BY <1>0, <2>2
    <3> HIDE DEF more
    <3> QED
      BY <1>0, <1>6, <1>7, <2>2, <2>3, <2>8, <2>9, <3>1 DEF Tallied
  <2> QED
    BY <1>2, <2>10 DEF next
<1> QED
  BY <1>0, <1>8, <1>9

\* Those before the window and those in it are fewer than two windows let through.
LEMMA TallyBounds ==
  ASSUME NEW ws, NEW entry, NEW now, Tallied(ws, entry, now)
  PROVE  Cardinality(ws) < 2 * Limit
<1>1. Limit \in Nat \ {0} /\ entry.count \in Nat /\ entry.count <= Limit /\ Guesses(ws) /\ entry.resetAt \in Nat
  BY ServerAssumption DEF Tallied, Entry
<1>2. CASE entry.count = 0
  BY <1>1, <1>2, FS_EmptySet DEF Tallied
<1>3. CASE entry.count # 0
  <2> DEFINE in == Within(ws, entry)
             out == Before(ws, entry)
  <2>1. in \in SUBSET ws /\ out \in SUBSET ws /\ ws = in \cup out /\ in \cap out = {}
    BY <1>1, ServerAssumption DEF Within, Before, Guesses
  <2>2. Cardinality(in) <= entry.count /\ Cardinality(out) <= Limit - 1
    BY <1>3 DEF Tallied, Counted
  <2> HIDE DEF in, out
  <2>3. Cardinality(in) \in Nat /\ Cardinality(out) \in Nat /\ IsFiniteSet(in) /\ IsFiniteSet(out)
    BY <1>1, <2>1, Fewer DEF Guesses
  <2>4. Cardinality(ws) = Cardinality(in) + Cardinality(out) - 0
    BY <2>1, <2>3, FS_Union, FS_EmptySet
  <2> QED
    BY <1>1, <2>2, <2>3, <2>4
<1> QED
  BY <1>2, <1>3

\* Every step of the server keeps the tally.
LEMMA ThrottleStep == ServerTypeOK /\ ThrottleInv /\ [OAuthNext]_oauthVars => ThrottleInv'
<1> SUFFICES ASSUME ServerTypeOK, ThrottleInv, [OAuthNext]_oauthVars PROVE ThrottleInv'
  OBVIOUS
<1>1. clock \in Nat
  BY DEF ServerTypeOK, OAuthTypeOK, TokenTypeOK
<1>2. ASSUME UNCHANGED <<clock, attempts, guesses>> PROVE ThrottleInv'
  BY <1>2 DEF ThrottleInv
<1>3. ASSUME clock' \in Nat, attempts' = NoAttempts, guesses' = NoGuesses PROVE ThrottleInv'
  <2>1. Tallied({}, NoAttempts, clock')
    BY ServerAssumption, FS_EmptySet DEF Tallied, Guesses, Entry, NoAttempts, Counted
  <2> QED
    BY <1>3, <2>1 DEF ThrottleInv, NoGuesses
<1>4. ASSUME NEW c \in Origin, NEW t \in {clock, clock + 1}, WrongPassword(c, t) PROVE ThrottleInv'
  <2>1. attempts.resetAt <= clock \/ attempts.count < Limit
    BY <1>4 DEF WrongPassword, Answered, Check
  <2>2. Tallied(OneMore(guesses, t), Record(attempts, t), t)
    BY <1>1, <2>1, TallyMore DEF ThrottleInv
  <2> QED
    BY <1>4, <2>2 DEF WrongPassword, ThrottleInv
<1>5. CASE Tick
  <2>1. clock' = clock + 1 /\ guesses' = Recent(guesses, clock + 1) /\ attempts' = attempts
    BY <1>5 DEF Tick
  <2>2. Tallied(Recent(guesses, clock + 1), attempts, clock + 1)
    BY <1>1, TallyLater DEF ThrottleInv
  <2> QED
    BY <2>1, <2>2 DEF ThrottleInv
<1>6. ASSUME NEW c \in Origin, NEW form, Approve(c, form) PROVE ThrottleInv'
  BY <1>1, <1>3, <1>6 DEF Approve
<1>7. ASSUME NEW states, LoseMemory(states) PROVE ThrottleInv'
  BY <1>1, <1>3, <1>7 DEF LoseMemory
<1>8. CASE Restart \/ (\E c \in Origin, j \in Link : TornRedeem(c, j)) \/ (\E i, j \in Link : TornRotation(i, j))
  BY <1>7, <1>8 DEF Restart, TornRedeem, TornRotation
<1>9. CASE \/ \E cl \in Holder : Register(cl)
           \/ \E c \in Origin, cl \in Holder, words \in Requests : Authorize(c, cl, words)
           \/ \E c \in Origin : Deny(c)
           \/ \E c \in Origin, j \in Link, right \in BOOLEAN : Redeem(c, j, right)
  BY <1>2, <1>9 DEF Register, Authorize, Deny, Redeem
<1>10. CASE (TokenStep /\ UNCHANGED <<clock, serverVars>>) \/ UNCHANGED oauthVars
  BY <1>2, <1>10 DEF serverVars, oauthVars
<1> QED
  BY <1>4, <1>5, <1>6, <1>8, <1>9, <1>10 DEF OAuthNext

-----------------------------------------------------------------------------
(* Chains are lines.                                                       *)

Known(i) == refresh[i] # "none"

\* Links are minted in the order of their numbers; they expire and are swept in it as long
\* as the lifetime has not become shorter.
InOrder ==
  /\ \A i \in Link : Known(i) => rExpires[i] <= clock + lifetime
  /\ \A i, k \in Link : i < k /\ Known(k) => rExpires[i] <= rExpires[k]
  /\ \A i, k \in Link : i < k /\ refresh[k] = "gone" => refresh[i] = "gone"

Expiries ==
  /\ \A i, k \in Link : i < k /\ Known(k) => Known(i)
  /\ ~shortened => InOrder

\* A link was replaced by the next one of its chain, unless it is the last, and every link
\* but the first of its chain replaced one; the live one is the last.
Lines ==
  /\ \A i \in Link : Live(i) => rotatedTo[i] = NoLink
  /\ \A i, k \in Link : SameChain(i, k) /\ i < k => rotatedTo[i] # NoLink /\ rotatedTo[i] <= k
  /\ \A i \in Link : rotatedTo[i] # NoLink => i < rotatedTo[i] /\ SameChain(i, rotatedTo[i])
  /\ \A i, k \in Link : SameChain(i, k) /\ i < k => \E m \in Link : rotatedTo[m] = k
  /\ \A i \in Link : access[i] = "live" => parent[i] = i

\* Along rotated_to every later link of the chain is reached, if no row is missing.
Closed(S) == \A k \in S : rotatedTo[k] # NoLink => rotatedTo[k] \in S

Walks ==
  \A i, k \in Link : SameChain(i, k) /\ i <= k =>
    \A S \in SUBSET Link : i \in S /\ Closed(S) => k \in S

LineInv == TokenTypeOK /\ ChainInv /\ Expiries /\ Lines /\ Walks

-----------------------------------------------------------------------------
\* What a step that mints nothing does to the links.
Mintless ==
  /\ UNCHANGED <<origin, rExpires, rotatedTo, parent>>
  /\ clock' \in {clock, clock + 1}
  /\ \A k \in Link :
       /\ Known(k)' <=> Known(k)
       /\ Live(k)' => Live(k)
       /\ HasRow(refresh'[k]) => HasRow(refresh[k])
       /\ access'[k] = "live" => access[k] = "live"
  /\ ~shortened => \A i, k \in Link : i < k /\ refresh'[k] = "gone" => refresh'[i] = "gone"

\* What a step does that mints link j for consent c: the first one of its chain when
\* i is no link, and the next one after i otherwise.
Mints(c, i, j) ==
  /\ UNCHANGED <<clock, replayed, truncated, disowned>>
  /\ ~Known(j) /\ \A k \in Link : k < j => Known(k)
  /\ \/ i = NoLink /\ UNCHANGED rotatedTo /\ \A k \in Link : origin[k] # c
     \/ i \in Link /\ Live(i) /\ origin[i] = c /\ rotatedTo' = [rotatedTo EXCEPT ![i] = j]
  /\ origin' = [origin EXCEPT ![j] = c]
  /\ rExpires' = [rExpires EXCEPT ![j] = clock + lifetime]
  /\ Live(j)' /\ (access'[j] = "live" => parent'[j] = j)
  /\ \A k \in Link \ {j} :
       /\ Known(k)' <=> Known(k)
       /\ Live(k)' => Live(k) /\ k # i
       /\ Live(k) /\ k # i => Live(k)' \/ refresh'[k] = "gone"
       /\ refresh'[k] = "gone" => refresh[k] = "gone" \/ rExpires[k] <= clock
       /\ HasRow(refresh'[k]) => HasRow(refresh[k])
       /\ (access'[k] = "live" => access[k] = "live") /\ parent'[k] = parent[k]
  /\ ~shortened => \A k, l \in Link : k < l /\ refresh'[l] = "gone" => refresh'[k] = "gone"

\* The sweep spares a link that expires later than one it takes.
LEMMA SweepDown ==
  ASSUME NEW states \in [Link -> State], NEW expires \in [Link -> Nat], clock \in Nat,
         \A i, k \in Link : i < k /\ states[k] # "none" =>
           states[i] # "none" /\ expires[i] <= expires[k],
         \A i, k \in Link : i < k /\ states[k] = "gone" => states[i] = "gone"
  PROVE  \A i, k \in Link : i < k /\ Swept(states, expires)[k] = "gone" =>
           Swept(states, expires)[i] = "gone"
<1> SUFFICES ASSUME NEW i \in Link, NEW k \in Link, i < k, Swept(states, expires)[k] = "gone"
             PROVE  Swept(states, expires)[i] = "gone"
  OBVIOUS
<1>1. CASE states[k] = "gone"
  BY <1>1 DEF Swept, HasRow
<1>2. CASE HasRow(states[k]) /\ expires[k] <= clock
  <2>1. states[i] \in State \ {"none"} /\ expires[i] <= clock
    BY <1>2 DEF HasRow, Link
  <2> QED
    BY <2>1 DEF Swept, HasRow, State
<1> QED
  BY <1>1, <1>2 DEF Swept

\* The sweep only makes rows that have expired go.
LEMMA SweptKeeps ==
  ASSUME NEW states \in [Link -> State], NEW expires, NEW k \in Link
  PROVE  /\ Swept(states, expires)[k] # "none" <=> states[k] # "none"
         /\ Swept(states, expires)[k] = "live" => states[k] = "live"
         /\ HasRow(Swept(states, expires)[k]) => HasRow(states[k])
         /\ Swept(states, expires)[k] \notin {states[k], "none"} =>
              Swept(states, expires)[k] = "gone" /\ expires[k] <= clock
BY DEF Swept, HasRow, State

\* A move of the store mints no refresh token, or redeems a code, or rotates.
LEMMA MintlessMoves ==
  ASSUME LineInv, TokenMove
  PROVE  \/ Mintless
         \/ \E c \in Origin, j \in Link : UNCHANGED clock /\
              \/ Redeemable(c) /\ IssueTokenPair(j, client[c], granted[c], c)
              \/ TornRedeem(c, j)
         \/ \E i, j \in Link : UNCHANGED clock /\ (Refresh(i, j) \/ TornRefresh(i, j))
<1> USE DEF LineInv, TokenTypeOK, Known, Live, HasRow
<1>1. CASE Quiet
  BY <1>1 DEF Quiet, tokenVars, rows, accesses, history, Mintless, Expiries, InOrder
<1>2. ASSUME NEW i \in Link, UNCHANGED clock, Replay(i) PROVE Mintless
  <2> HIDE DEF Chain
  <2>1. /\ UNCHANGED <<origin, rExpires, rotatedTo, parent>>
        /\ \A k \in Link : access'[k] = "live" => access[k] = "live"
        /\ \A k \in Link : refresh'[k] = refresh[k] \/ (refresh[k] = "live" /\ refresh'[k] = "revoked")
    BY <1>2 DEF Replay, RevokeRotationChain, AccessAfterTheft
  <2> QED
    BY <1>2, <2>1 DEF Mintless, Expiries, InOrder
<1>3. ASSUME NEW i \in Link, UNCHANGED clock, RevokeRefresh(i) \/ RevokeAccess(i) PROVE Mintless
  BY <1>3 DEF RevokeRefresh, RevokeAccess, rows, accesses, history, Mintless, Expiries, InOrder
<1>4. ASSUME PruneTokens, UNCHANGED clock PROVE Mintless
  <2>1. refresh \in [Link -> State] /\ access \in [Link -> State]
    BY DEF State
  <2>2. /\ refresh' = Swept(refresh, rExpires) /\ access' = Swept(access, aExpires)
        /\ UNCHANGED <<origin, rExpires, rotatedTo, parent>>
    BY <1>4 DEF PruneTokens, history
  <2>3. ~shortened => \A i, k \in Link : i < k /\ refresh'[k] = "gone" => refresh'[i] = "gone"
    BY <2>1, <2>2, SweepDown DEF Expiries, InOrder
  <2> QED
    BY <1>4, <2>1, <2>2, <2>3, SweptKeeps DEF Mintless
<1> QED
  BY <1>1, <1>2, <1>3, <1>4 DEF TokenMove

\* The states after a mint, before any sweep and after it.
LEMMA MintedStates ==
  ASSUME LineInv, NEW j \in Link, NEW i \in Link \cup {NoLink}, Next1(j), i # j,
         i \in Link => Live(i),
         rExpires' = [rExpires EXCEPT ![j] = clock + lifetime],
         NEW mid \in [Link -> State], mid[j] = "live", i \in Link => mid[i] = "revoked",
         \A k \in Link \ {i, j} : mid[k] = refresh[k],
         refresh' \in {mid, Swept(mid, rExpires')}
  PROVE  /\ ~Known(j) /\ \A k \in Link : k < j => Known(k)
         /\ Live(j)'
         /\ \A k \in Link \ {j} : /\ Known(k)' <=> Known(k)
                                  /\ Live(k)' => Live(k) /\ k # i
                                  /\ Live(k) /\ k # i => Live(k)' \/ refresh'[k] = "gone"
                                  /\ refresh'[k] = "gone" => refresh[k] = "gone" \/ rExpires[k] <= clock
                                  /\ HasRow(refresh'[k]) => HasRow(refresh[k])
         /\ ~shortened =>
              \A k, l \in Link : k < l /\ refresh'[l] = "gone" => refresh'[k] = "gone"
<1> USE DEF LineInv, TokenTypeOK, Known, Live, HasRow
<1>1. ~Known(j) /\ \A k \in Link : k < j => Known(k)
  BY DEF Next1, Link
<1>2. rExpires' \in [Link -> Nat] /\ rExpires'[j] = clock + lifetime /\ clock \in Nat
      /\ \A k \in Link \ {j} : rExpires'[k] = rExpires[k]
  BY TokenAssumption
<1>3. ASSUME ~shortened
      PROVE  \A k, l \in Link : k < l /\ mid[l] # "none" =>
               mid[k] # "none" /\ rExpires'[k] <= rExpires'[l]
  <2> SUFFICES ASSUME NEW k \in Link, NEW l \in Link, k < l, mid[l] # "none"
               PROVE  mid[k] # "none" /\ rExpires'[k] <= rExpires'[l]
    OBVIOUS
  <2>1. CASE l = j
    BY <1>1, <1>2, <1>3, <2>1 DEF Expiries, InOrder, Link
  <2>2. CASE l # j
    <3>1. Known(l)
      BY <2>2
    <3>2. Known(k) /\ rExpires[k] <= rExpires[l]
      BY <1>3, <3>1 DEF Expiries, InOrder
    <3>3. k # j
      BY <1>1, <3>2
    <3> QED
      BY <1>2, <2>2, <3>2, <3>3
  <2> QED
    BY <2>1, <2>2
<1>4. ~shortened => \A k, l \in Link : k < l /\ mid[l] = "gone" => mid[k] = "gone"
  BY <1>1 DEF Expiries, InOrder
<1>5. CASE refresh' = mid
  BY <1>1, <1>4, <1>5
<1>6. CASE refresh' = Swept(mid, rExpires')
  <2> DEFINE expires == rExpires'
  <2>1. /\ expires \in [Link -> Nat] /\ ~(expires[j] <= clock) /\ refresh' = Swept(mid, expires)
        /\ clock \in Nat
        /\ ~shortened => \A k, l \in Link : k < l /\ mid[l] # "none" =>
                           mid[k] # "none" /\ expires[k] <= expires[l]
    BY <1>2, <1>3, <1>6, TokenAssumption
  <2> HIDE DEF expires, LineInv, TokenTypeOK, Known, HasRow
  <2>2. ~shortened => \A k, l \in Link : k < l /\ refresh'[l] = "gone" => refresh'[k] = "gone"
    BY <1>4, <2>1, SweepDown
  <2>3. Live(j)'
    <3>1. Swept(mid, expires)[j] = mid[j]
      BY <2>1 DEF Swept
    <3> QED
      BY <2>1, <3>1
  <2>4. \A k \in Link : /\ refresh'[k] # "none" <=> mid[k] # "none"
                        /\ refresh'[k] = "live" => mid[k] = "live"
                        /\ refresh'[k] \notin {mid[k], "none"} =>
                             refresh'[k] = "gone" /\ expires[k] <= clock
                        /\ HasRow(refresh'[k]) => HasRow(mid[k])
    BY <2>1, SweptKeeps
  <2>5. \A k \in Link \ {j} : expires[k] = rExpires[k]
    BY <1>2 DEF expires
  <2>6. \A k \in Link \ {j} : Live(k) /\ k # i => mid[k] = "live"
    OBVIOUS
  <2> QED
    BY <1>1, <2>2, <2>3, <2>4, <2>5, <2>6 DEF Known, HasRow
<1> QED
  BY <1>5, <1>6

\* Redeeming a code mints the first link of a chain, torn or whole.
LEMMA RedeemMints ==
  ASSUME LineInv, NEW c \in Origin, NEW j \in Link, UNCHANGED clock, Redeemable(c),
         \/ IssueTokenPair(j, client[c], granted[c], c)
         \/ TornTokenPair(j, client[c], granted[c], c)
  PROVE  Mints(c, NoLink, j)
<1> DEFINE mid == [refresh EXCEPT ![j] = "live"]
<1>1. /\ Next1(j) /\ UNCHANGED rotatedTo
      /\ origin' = [origin EXCEPT ![j] = c]
      /\ rExpires' = [rExpires EXCEPT ![j] = clock + lifetime]
      /\ refresh' \in {mid, Swept(mid, rExpires')}
  BY DEF IssueTokenPair, TornTokenPair, Minted
<1>0. UNCHANGED <<replayed, truncated, disowned>>
  BY DEF IssueTokenPair, TornTokenPair
<1>2. /\ mid \in [Link -> State] /\ mid[j] = "live" /\ \A k \in Link \ {j} : mid[k] = refresh[k]
      /\ NoLink \notin Link /\ access \in [Link -> State] /\ parent \in [Link -> Link \cup {NoLink}]
  BY DEF LineInv, TokenTypeOK, State, NoLink, Link
<1>3. \A k \in Link : origin[k] # c
  BY DEF LineInv, ChainInv, Redeemable
<1>4. /\ access'[j] = "live" => parent'[j] = j
      /\ \A k \in Link \ {j} :
           (access'[k] = "live" => access[k] = "live") /\ parent'[k] = parent[k]
  <2>1. CASE IssueTokenPair(j, client[c], granted[c], c)
    BY <1>2, <2>1 DEF IssueTokenPair, IssueAccess
  <2>2. CASE TornTokenPair(j, client[c], granted[c], c)
    BY <1>2, <2>2, SweptKeeps DEF TornTokenPair, LineInv, Lines
  <2> QED
    BY <2>1, <2>2
<1> HIDE DEF mid
<1>5. /\ ~Known(j) /\ \A k \in Link : k < j => Known(k)
      /\ Live(j)'
      /\ \A k \in Link \ {j} : /\ Known(k)' <=> Known(k)
                               /\ Live(k)' => Live(k) /\ k # NoLink
                               /\ Live(k) /\ k # NoLink => Live(k)' \/ refresh'[k] = "gone"
                               /\ refresh'[k] = "gone" => refresh[k] = "gone" \/ rExpires[k] <= clock
                               /\ HasRow(refresh'[k]) => HasRow(refresh[k])
      /\ ~shortened =>
           \A k, l \in Link : k < l /\ refresh'[l] = "gone" => refresh'[k] = "gone"
  BY <1>1, <1>2, MintedStates
<1> QED
  BY <1>0, <1>1, <1>3, <1>4, <1>5 DEF Mints

\* Rotating mints the link after the presented one, torn or whole.
LEMMA RotationMints ==
  ASSUME LineInv, NEW i \in Link, NEW j \in Link, UNCHANGED clock,
         Refresh(i, j) \/ TornRefresh(i, j)
  PROVE  Mints(origin[i], i, j) /\ origin[i] \in Origin
<1> DEFINE mid == Rotation(i, j)
<1>1. /\ Next1(j) /\ LookupRefresh(i) /\ rotatedTo' = [rotatedTo EXCEPT ![i] = j]
      /\ origin' = [origin EXCEPT ![j] = origin[i]]
      /\ rExpires' = [rExpires EXCEPT ![j] = clock + lifetime]
      /\ refresh' \in {mid, Swept(mid, rExpires')}
  BY DEF Refresh, TornRefresh, RotateRefreshToken, Minted
<1>0. UNCHANGED <<replayed, truncated, disowned>>
  BY DEF Refresh, TornRefresh, RotateRefreshToken
<1>2. Live(i) /\ i # j /\ origin[i] \in Origin
  BY <1>1 DEF LookupRefresh, Next1, Live, LineInv, ChainInv
<1>3. /\ mid \in [Link -> State] /\ mid[j] = "live" /\ mid[i] = "revoked"
      /\ \A k \in Link \ {i, j} : mid[k] = refresh[k]
      /\ access \in [Link -> State] /\ parent \in [Link -> Link \cup {NoLink}]
  BY <1>2 DEF LineInv, TokenTypeOK, State, Rotation
<1>4. /\ access'[j] = "live" => parent'[j] = j
      /\ \A k \in Link \ {j} :
           (access'[k] = "live" => access[k] = "live") /\ parent'[k] = parent[k]
  <2>1. CASE Refresh(i, j)
    BY <1>3, <2>1 DEF Refresh, IssueAccess
  <2>2. CASE TornRefresh(i, j)
    BY <1>3, <2>2, SweptKeeps DEF TornRefresh, LineInv, Lines
  <2> QED
    BY <2>1, <2>2
<1> HIDE DEF mid
<1>5. /\ ~Known(j) /\ \A k \in Link : k < j => Known(k)
      /\ Live(j)'
      /\ \A k \in Link \ {j} : /\ Known(k)' <=> Known(k)
                               /\ Live(k)' => Live(k) /\ k # i
                               /\ Live(k) /\ k # i => Live(k)' \/ refresh'[k] = "gone"
                               /\ refresh'[k] = "gone" => refresh[k] = "gone" \/ rExpires[k] <= clock
                               /\ HasRow(refresh'[k]) => HasRow(refresh[k])
      /\ ~shortened =>
           \A k, l \in Link : k < l /\ refresh'[l] = "gone" => refresh'[k] = "gone"
  BY <1>1, <1>2, <1>3, MintedStates
<1> QED
  BY <1>0, <1>1, <1>2, <1>4, <1>5 DEF Mints

\* What a step may do to the links, in terms of chains.
LEMMA LineMoves ==
  ASSUME LineInv, TokenMove
  PROVE  Mintless \/ \E c \in Origin, i \in Link \cup {NoLink}, j \in Link : Mints(c, i, j)
<1>1. ASSUME NEW c \in Origin, NEW j \in Link, UNCHANGED clock,
             \/ Redeemable(c) /\ IssueTokenPair(j, client[c], granted[c], c)
             \/ TornRedeem(c, j)
      PROVE  Mints(c, NoLink, j)
  BY <1>1, RedeemMints DEF TornRedeem
<1>2. ASSUME NEW i \in Link, NEW j \in Link, UNCHANGED clock, Refresh(i, j) \/ TornRefresh(i, j)
      PROVE  Mints(origin[i], i, j) /\ origin[i] \in Origin
  BY <1>2, RotationMints
<1> QED
  BY <1>1, <1>2, MintlessMoves

\* A move that mints nothing keeps the lines as they are.
LEMMA MintlessLines ==
  ASSUME LineInv, Mintless, Longer, TokenTypeOK'
  PROVE  Expiries' /\ Lines'
<1>1. Expiries'
  <2>1. \A i, k \in Link : i < k /\ Known(k)' => Known(i)'
    BY DEF LineInv, Mintless, Expiries
  <2>2. ASSUME (~shortened)' PROVE InOrder'
    <3>1. InOrder /\ ~shortened /\ lifetime <= lifetime' /\ lifetime \in Nat /\ lifetime' \in Nat
      BY <2>2, TokenAssumption DEF LineInv, TokenTypeOK, Expiries, Longer
    <3>2. \A i \in Link : Known(i)' => rExpires'[i] <= clock' + lifetime'
      BY <3>1 DEF LineInv, TokenTypeOK, Mintless, InOrder
    <3> QED
      BY <3>1, <3>2 DEF InOrder, Mintless
  <2> QED
    BY <2>1, <2>2 DEF Expiries
<1>2. Lines'
  BY DEF LineInv, Mintless, Lines, SameChain, Live
<1> QED
  BY <1>1, <1>2

\* The minted link is later than all others, and follows the last one of its chain.
LEMMA MintsLast ==
  ASSUME LineInv, NEW c \in Origin, NEW i \in Link \cup {NoLink}, NEW j \in Link, Mints(c, i, j)
  PROVE  /\ \A k \in Link : k > j => ~Known(k)
         /\ \A k \in Link : origin[k] # NoOrigin => k < j
         /\ \A k \in Link : origin[k] = c => i \in Link /\ k <= i /\ i < j
         /\ i \in Link => Live(i) /\ origin[i] = c /\ rotatedTo[i] = NoLink /\ i < j
         /\ i # j
         /\ i \in Link => rotatedTo' = [rotatedTo EXCEPT ![i] = j]
         /\ i \notin Link => UNCHANGED rotatedTo
         /\ origin[j] = NoOrigin /\ origin'[j] = c /\ c # NoOrigin
         /\ \A k \in Link \ {j} : origin'[k] = origin[k]
         /\ rotatedTo[j] = NoLink
<1>1. \A k \in Link : Known(k) <=> origin[k] # NoOrigin
  BY DEF LineInv, ChainInv, Known
<1>2. \A k \in Link : k > j => ~Known(k)
  BY DEF Mints, LineInv, Expiries, Link
<1>3. /\ origin[j] = NoOrigin /\ origin'[j] = c /\ c # NoOrigin
      /\ \A k \in Link \ {j} : origin'[k] = origin[k]
  BY <1>1, TokenAssumption DEF Mints, LineInv, ChainInv
<1>4. \A k \in Link : origin[k] # NoOrigin => k < j
  BY <1>1, <1>2, <1>3 DEF Link
<1>5. NoLink \notin Link
  BY DEF NoLink, Link
<1>6. i \in Link => Live(i) /\ origin[i] = c /\ rotatedTo[i] = NoLink /\ i < j
  BY <1>3, <1>4, <1>5 DEF Mints, LineInv, Lines
<1>7. ASSUME NEW k \in Link, origin[k] = c PROVE i \in Link /\ k <= i /\ i < j
  <2>1. i \in Link
    BY <1>7 DEF Mints
  <2>2. SameChain(i, k)
    BY <1>3, <1>6, <1>7, <2>1 DEF SameChain
  <2> QED
    BY <1>6, <2>1, <2>2 DEF LineInv, Lines, Link
<1>8. rotatedTo[j] = NoLink
  BY <1>3 DEF LineInv, Lines, SameChain
<1>9. /\ i \in Link => rotatedTo' = [rotatedTo EXCEPT ![i] = j]
      /\ i \notin Link => UNCHANGED rotatedTo
  BY <1>5 DEF Mints
<1>10. i # j
  BY <1>5, <1>6 DEF Link
<1> QED
  BY <1>2, <1>3, <1>4, <1>6, <1>7, <1>8, <1>9, <1>10

\* A new link is the end of its own line.
LEMMA MintsLines ==
  ASSUME LineInv, NEW c \in Origin, NEW i \in Link \cup {NoLink}, NEW j \in Link, Mints(c, i, j),
         Longer, TokenTypeOK'
  PROVE  Expiries' /\ Lines'
<1>0. /\ rotatedTo \in [Link -> Link \cup {NoLink}] /\ rExpires \in [Link -> Nat] /\ clock \in Nat
      /\ NoLink \notin Link /\ lifetime \in Nat /\ lifetime' \in Nat
  <2>1. lifetime \in RefreshTtls /\ lifetime' \in RefreshTtls
    BY DEF LineInv, TokenTypeOK
  <2>2. lifetime \in Nat /\ lifetime' \in Nat
    BY <2>1, TokenAssumption
  <2> QED
    BY <2>2 DEF LineInv, TokenTypeOK, NoLink, Link
<1>1. /\ \A k \in Link : k # i => rotatedTo'[k] = rotatedTo[k]
      /\ i \in Link => rotatedTo'[i] = j
  BY <1>0, MintsLast
<1>2. ASSUME (~shortened)', NEW k \in Link, Known(k)' PROVE rExpires'[k] <= clock' + lifetime'
  <2>1. InOrder /\ lifetime <= lifetime' /\ clock' = clock
    BY <1>2 DEF LineInv, Expiries, Longer, Mints
  <2>2. CASE k = j
    <3>1. rExpires'[k] = clock + lifetime
      BY <1>0, <2>2 DEF Mints
    <3> QED
      BY <1>0, <2>1, <3>1
  <2>3. CASE k # j
    <3>1. rExpires'[k] = rExpires[k] /\ Known(k) /\ rExpires[k] \in Nat
      BY <1>0, <1>2, <2>3 DEF Mints
    <3>2. rExpires[k] <= clock + lifetime
      BY <2>1, <3>1 DEF InOrder
    <3> QED
      BY <1>0, <2>1, <3>1, <3>2
  <2> QED
    BY <2>2, <2>3
<1>3. ASSUME NEW k \in Link, NEW l \in Link, k < l, Known(l)'
      PROVE  Known(k)' /\ ((~shortened)' => rExpires'[k] <= rExpires'[l])
  <2>0. (~shortened)' => InOrder
    BY DEF LineInv, Expiries, Longer
  <2>1. CASE l = j
    <3>1. Known(k) /\ k # j
      BY <1>3, <2>1 DEF Mints, Link
    <3>2. (~shortened)' => rExpires[k] <= clock + lifetime
      BY <2>0, <3>1 DEF InOrder
    <3> QED
      BY <1>0, <2>1, <3>1, <3>2 DEF Mints
  <2>2. CASE l # j
    <3>1. Known(l)
      BY <1>3, <2>2 DEF Mints
    <3>2. Known(k) /\ ((~shortened)' => rExpires[k] <= rExpires[l])
      BY <1>3, <2>0, <3>1 DEF LineInv, Expiries, InOrder
    <3>3. k # j
      BY <3>2 DEF Mints
    <3> QED
      BY <1>0, <2>2, <3>2, <3>3 DEF Mints
  <2> QED
    BY <2>1, <2>2
<1>4. Expiries'
  <2>1. (~shortened)' => ~shortened
    BY DEF Longer
  <2> QED
    BY <1>2, <1>3, <2>1 DEF Expiries, InOrder, Mints
<1>5. ASSUME NEW k \in Link, Live(k)' PROVE rotatedTo'[k] = NoLink
  <2>1. CASE k = j
    BY <1>1, <2>1, MintsLast
  <2>2. CASE k # j
    <3>1. Live(k) /\ k # i
      BY <1>5, <2>2 DEF Mints
    <3> QED
      BY <1>1, <3>1 DEF LineInv, Lines
  <2> QED
    BY <2>1, <2>2
<1>6. ASSUME NEW k \in Link, NEW l \in Link, SameChain(k, l)', k < l
      PROVE  /\ rotatedTo'[k] # NoLink /\ rotatedTo'[k] <= l
             /\ \E m \in Link : rotatedTo'[m] = l
  <2>1. k # j
    BY <1>6, MintsLast DEF SameChain, Link
  <2>2. CASE l = j
    <3>1. origin[k] = c
      BY <1>6, <2>1, <2>2, MintsLast DEF SameChain
    <3>2. i \in Link /\ k <= i /\ i < j /\ SameChain(k, i)
      BY <3>1, MintsLast DEF SameChain
    <3>3. rotatedTo'[i] = l
      BY <1>1, <2>2, <3>2
    <3>4. CASE k = i
      BY <1>0, <2>2, <3>2, <3>3, <3>4 DEF Link
    <3>5. CASE k # i
      <4>1. k < i
        BY <3>2, <3>5 DEF Link
      <4>2. rotatedTo[k] # NoLink /\ rotatedTo[k] <= i
        BY <3>2, <4>1 DEF LineInv, Lines
      <4>3. rotatedTo'[k] = rotatedTo[k] /\ rotatedTo[k] \in Link
        BY <1>0, <1>1, <3>5, <4>2
      <4> QED
        BY <2>2, <3>2, <3>3, <4>2, <4>3 DEF Link
    <3> QED
      BY <3>4, <3>5
  <2>3. CASE l # j
    <3>1. SameChain(k, l)
      BY <1>6, <2>1, <2>3, MintsLast DEF SameChain
    <3>2. /\ rotatedTo[k] # NoLink /\ rotatedTo[k] <= l
          /\ \E m \in Link : rotatedTo[m] = l
      BY <1>6, <3>1 DEF LineInv, Lines
    <3>3. k # i /\ \A m \in Link : rotatedTo[m] = l => m # i
      BY <1>0, <3>2, MintsLast DEF Link
    <3> QED
      BY <1>1, <3>2, <3>3
  <2> QED
    BY <2>2, <2>3
<1>7. ASSUME NEW k \in Link, rotatedTo'[k] # NoLink
      PROVE  k < rotatedTo'[k] /\ SameChain(k, rotatedTo[k])'
  <2>1. CASE k = i
    <3>1. rotatedTo'[k] = j /\ k < j /\ origin[k] = c /\ k # j
      BY <1>1, <2>1, MintsLast
    <3>2. origin'[k] = c /\ origin'[j] = c /\ c # NoOrigin
      BY <3>1, MintsLast
    <3> QED
      BY <3>1, <3>2 DEF SameChain
  <2>2. CASE k # i
    <3>1. rotatedTo[k] \in Link /\ rotatedTo'[k] = rotatedTo[k]
      BY <1>0, <1>1, <1>7, <2>2
    <3>2. k < rotatedTo[k] /\ SameChain(k, rotatedTo[k])
      BY <1>7, <3>1 DEF LineInv, Lines
    <3>3. k # j /\ rotatedTo[k] # j
      BY <3>2, MintsLast DEF SameChain
    <3> QED
      BY <3>1, <3>2, <3>3, MintsLast DEF SameChain
  <2> QED
    BY <2>1, <2>2
<1>8. ASSUME NEW k \in Link, access'[k] = "live" PROVE parent'[k] = k
  BY <1>8 DEF Mints, LineInv, Lines
<1> QED
  BY <1>4, <1>5, <1>6, <1>7, <1>8 DEF Lines

\* A set that rotated_to does not leave from a on holds every later link of the chain.
LEMMA WalkStays ==
  ASSUME LineInv, NEW a \in Link, NEW b \in Link, SameChain(a, b), a <= b,
         NEW S \in SUBSET Link, a \in S,
         \A k \in S : a <= k /\ SameChain(a, k) /\ rotatedTo[k] # NoLink => rotatedTo[k] \in S
  PROVE  b \in S
<1> DEFINE T == {k \in Link : SameChain(a, k) /\ a <= k => k \in S}
<1>1. ASSUME NEW k \in T, rotatedTo[k] # NoLink PROVE rotatedTo[k] \in T
  <2>1. /\ k \in Link /\ rotatedTo[k] \in Link
        /\ k < rotatedTo[k] /\ SameChain(k, rotatedTo[k])
    BY <1>1 DEF LineInv, TokenTypeOK, Lines
  <2>2. ASSUME SameChain(a, rotatedTo[k]), a <= rotatedTo[k] PROVE rotatedTo[k] \in S
    <3>1. SameChain(a, k) /\ SameChain(k, a)
      BY <2>1, <2>2 DEF SameChain
    <3>2. CASE a <= k
      BY <1>1, <3>1, <3>2
    <3>3. CASE k < a
      <4>1. rotatedTo[k] <= a
        BY <2>1, <3>1, <3>3 DEF LineInv, Lines
      <4>2. rotatedTo[k] = a
        BY <2>1, <2>2, <4>1 DEF Link
      <4> QED
        BY <4>2
    <3> QED
      BY <2>1, <3>2, <3>3 DEF Link
  <2> QED
    BY <2>1, <2>2
<1>2. T \in SUBSET Link /\ a \in T
  OBVIOUS
<1> HIDE DEF T
<1>3. Closed(T)
  BY <1>1 DEF Closed
<1>4. b \in T
  BY <1>2, <1>3 DEF LineInv, Walks
<1> QED
  BY <1>4 DEF T

\* A move that mints nothing keeps the walk from a link to its successors.
LEMMA MintlessWalks ==
  ASSUME LineInv, Mintless
  PROVE  Walks'
BY DEF LineInv, Mintless, Walks, Closed, SameChain

\* A new link is reached from every link of its chain.
LEMMA MintsWalks ==
  ASSUME LineInv, NEW c \in Origin, NEW i \in Link \cup {NoLink}, NEW j \in Link, Mints(c, i, j)
  PROVE  Walks'
<1> SUFFICES ASSUME NEW a \in Link, NEW b \in Link, SameChain(a, b)', a <= b,
                    NEW S \in SUBSET Link, a \in S, Closed(S)'
             PROVE  b \in S
  BY DEF Walks
<1>0. rotatedTo \in [Link -> Link \cup {NoLink}]
  BY DEF LineInv, TokenTypeOK
<1>1. CASE a = j
  <2>1. b <= j
    BY <1>1, MintsLast DEF SameChain, Link
  <2> QED
    BY <1>1, <2>1 DEF Link
<1>2. CASE a # j
  <2>1. ASSUME NEW k \in S, SameChain(a, k), rotatedTo[k] # NoLink PROVE rotatedTo[k] \in S
    <3>1. k # i
      BY <2>1, MintsLast DEF SameChain
    <3>2. rotatedTo'[k] = rotatedTo[k]
      BY <1>0, <3>1, MintsLast
    <3> QED
      BY <2>1, <3>2 DEF Closed
  <2>2. CASE b # j
    <3>1. SameChain(a, b)
      BY <1>2, <2>2, MintsLast DEF SameChain
    <3> QED
      BY <2>1, <3>1, WalkStays
  <2>3. CASE b = j
    <3>1. origin[a] = c
      BY <1>2, <2>3, MintsLast DEF SameChain
    <3>2. i \in Link /\ a <= i /\ SameChain(a, i)
      BY <3>1, MintsLast DEF SameChain
    <3>3. i \in S
      BY <2>1, <3>2, WalkStays
    <3>4. rotatedTo'[i] = j /\ j # NoLink
      <4>1. rotatedTo' = [rotatedTo EXCEPT ![i] = j]
        BY <3>2, MintsLast
      <4> QED
        BY <1>0, <3>2, <4>1 DEF Link, NoLink
    <3> QED
      BY <2>3, <3>3, <3>4 DEF Closed
  <2> QED
    BY <2>2, <2>3
<1> QED
  BY <1>1, <1>2

\* Every step of the server preserves the shape of the chains.
LEMMA LineStep == ServerTypeOK /\ LineInv /\ [OAuthNext]_oauthVars => LineInv'
<1> SUFFICES ASSUME ServerTypeOK, LineInv, [OAuthNext]_oauthVars PROVE LineInv'
  OBVIOUS
<1>1. TokenTypeOK' /\ ChainInv'
  BY ServerTypes, ChainStep DEF LineInv, ServerTypeOK, OAuthTypeOK
<1>4. Longer
  BY SettingsMoves, SettingsTypes DEF LineInv
<1>2. CASE Mintless
  BY <1>1, <1>2, <1>4, MintlessLines, MintlessWalks DEF LineInv
<1>3. ASSUME NEW c \in Origin, NEW i \in Link \cup {NoLink}, NEW j \in Link, Mints(c, i, j)
      PROVE  LineInv'
  BY <1>1, <1>3, <1>4, MintsLines, MintsWalks DEF LineInv
<1> QED
  BY <1>2, <1>3, TokenMoves, LineMoves

-----------------------------------------------------------------------------
(* What a late replay ends, and what it leaves alone.                      *)

\* The walk from a rotated link reaches no other chain, and the later links of its own unless
\* it is cut.
LEMMA ChainIsTheRest ==
  ASSUME LineInv, NEW i \in Link, Rotated(i)
  PROVE  /\ ~Truncated(i) => \A k \in Link : SameChain(i, k) /\ i <= k => k \in Chain(i)
         /\ \A k \in Chain(i) : k \in Link /\ HasRow(refresh[k]) /\ SameChain(i, k)
<1>0. /\ HasRow(refresh[i]) /\ SameChain(i, i) /\ rotatedTo \in [Link -> Link \cup {NoLink}]
  BY DEF Rotated, HasRow, LineInv, TokenTypeOK, ChainInv, SameChain
<1>1. ASSUME ~Truncated(i), NEW k \in Link, SameChain(i, k), i <= k PROVE k \in Chain(i)
  <2>1. i \in Chain(i) /\ Chain(i) \in SUBSET Link
    BY <1>0 DEF Chain
  <2>2. ASSUME NEW l \in Chain(i), rotatedTo[l] # NoLink PROVE rotatedTo[l] \in Chain(i)
    <3>1. rotatedTo[l] \in Link /\ HasRow(refresh[rotatedTo[l]])
      BY <1>0, <1>1, <2>1, <2>2 DEF Truncated
    <3>2. HasRow(refresh[l])
      BY DEF Chain
    <3>3. rotatedTo[l] \in Follow(l)
      BY <2>2, <3>2 DEF Follow
    <3>4. ASSUME NEW S \in SUBSET Link, i \in S, \A m \in S : Follow(m) \subseteq S
          PROVE  rotatedTo[l] \in S
      <4>1. l \in S
        BY <3>4 DEF Chain
      <4> QED
        BY <3>3, <3>4, <4>1
    <3> QED
      BY <3>1, <3>4 DEF Chain
  <2>3. Closed(Chain(i))
    BY <2>2 DEF Closed
  <2> QED
    BY <1>1, <2>1, <2>3 DEF LineInv, Walks
<1>2. ASSUME NEW k \in Chain(i) PROVE k \in Link /\ HasRow(refresh[k]) /\ SameChain(i, k)
  <2> DEFINE T == {l \in Link : SameChain(i, l)}
  <2>1. \A l \in T : Follow(l) \subseteq T
    BY DEF Follow, LineInv, TokenTypeOK, Lines, SameChain
  <2>2. i \in T /\ T \in SUBSET Link
    BY <1>0
  <2> HIDE DEF T
  <2>3. k \in T /\ k \in Link /\ HasRow(refresh[k])
    BY <2>1, <2>2 DEF Chain
  <2> QED
    BY <2>3 DEF T
<1> QED
  BY <1>1, <1>2

\* A walk is cut only where a link expired before an earlier one of its chain.
LEMMA CutMeansShortened ==
  ASSUME LineInv, NEW i \in Link, Rotated(i), Truncated(i)
  PROVE  shortened
<1> HIDE DEF Chain
<1>1. PICK k \in Chain(i) : rotatedTo[k] # NoLink /\ ~HasRow(refresh[rotatedTo[k]])
  BY DEF Truncated
<1>2. k \in Link /\ HasRow(refresh[k]) /\ rotatedTo[k] \in Link
  BY <1>1, ChainIsTheRest DEF LineInv, TokenTypeOK
<1>3. k < rotatedTo[k] /\ SameChain(k, rotatedTo[k])
  BY <1>1, <1>2 DEF LineInv, Lines
<1>4. refresh[rotatedTo[k]] = "gone"
  BY <1>1, <1>2, <1>3 DEF LineInv, TokenTypeOK, ChainInv, SameChain, HasRow
<1> QED
  BY <1>2, <1>3, <1>4 DEF LineInv, TokenTypeOK, Expiries, InOrder, HasRow

\* Once a link came back late, neither kind of token works from it on.
TheftLasts ==
  \A i \in replayed : Known(i) /\ \A k \in Link :
    SameChain(i, k) /\ i <= k => ~Live(k) /\ access[k] # "live"

\* The last link of a chain that no late replay hit is live until it expires.
Keeps ==
  /\ \A i \in Link : refresh[i] = "gone" => rExpires[i] <= clock
  /\ \A i \in Link :
       /\ Known(i)
       /\ rotatedTo[i] = NoLink
       /\ i \notin disowned
       /\ \A k \in replayed \cup truncated : ~SameChain(i, k)
       => Live(i) \/ refresh[i] = "gone"

ReplayInv == TheftLasts /\ Keeps

\* A new link is never on a chain that was replayed.
LEMMA MintsReplays ==
  ASSUME LineInv, ReplayInv, LineInv', NEW c \in Origin, NEW i \in Link \cup {NoLink}, NEW j \in Link,
         Mints(c, i, j)
  PROVE  ReplayInv'
<1>1. UNCHANGED <<clock, replayed, truncated, disowned>> /\ replayed \subseteq Link
  BY DEF Mints, LineInv, TokenTypeOK
<1>2. ASSUME NEW r \in replayed, NEW k \in Link PROVE Known(r)' /\ ~(SameChain(r, k)' /\ r <= k /\ (Live(k)' \/ access'[k] = "live"))
  <2>1. Known(r) /\ r \in Link /\ r # j
    BY <1>1, <1>2 DEF ReplayInv, TheftLasts, Mints
  <2>2. Known(r)'
    BY <2>1 DEF Mints
  <2>3. ASSUME SameChain(r, k)', r <= k, Live(k)' \/ access'[k] = "live" PROVE FALSE
    <3>1. CASE k = j
      <4>1. origin[r] = c
        BY <2>1, <2>3, <3>1, MintsLast DEF SameChain
      <4>2. i \in Link /\ r <= i /\ Live(i) /\ SameChain(r, i)
        BY <2>1, <4>1, MintsLast DEF SameChain
      <4> QED
        BY <4>2 DEF ReplayInv, TheftLasts
    <3>2. CASE k # j
      <4>1. SameChain(r, k)
        BY <2>1, <2>3, <3>2, MintsLast DEF SameChain
      <4>2. Live(k) \/ access[k] = "live"
        BY <2>3, <3>2 DEF Mints
      <4> QED
        BY <2>3, <4>1, <4>2 DEF ReplayInv, TheftLasts
    <3> QED
      BY <3>1, <3>2
  <2> QED
    BY <2>2, <2>3
<1>3. TheftLasts'
  BY <1>1, <1>2 DEF TheftLasts
<1>4. ASSUME NEW k \in Link, refresh'[k] = "gone" PROVE rExpires'[k] <= clock'
  <2>1. k # j
    BY <1>4 DEF Mints, Live
  <2>2. rExpires'[k] = rExpires[k]
    BY <2>1 DEF Mints, LineInv, TokenTypeOK
  <2>3. refresh[k] = "gone" \/ rExpires[k] <= clock
    BY <1>4, <2>1 DEF Mints
  <2> QED
    BY <1>1, <2>2, <2>3 DEF ReplayInv, Keeps
<1>5. ASSUME NEW k \in Link, Known(k)', rotatedTo'[k] = NoLink, k \notin disowned',
             \A r \in (replayed \cup truncated)' : ~SameChain(k, r)'
      PROVE  Live(k)' \/ refresh'[k] = "gone"
  <2>1. CASE k # j
    <3>1. Known(k)
      BY <1>5, <2>1 DEF Mints
    <3>2. rotatedTo \in [Link -> Link \cup {NoLink}]
      BY DEF LineInv, TokenTypeOK
    <3>3. k # i
      <4>1. i \in Link => rotatedTo'[i] = j
        BY <3>2, MintsLast
      <4> QED
        BY <1>5, <4>1 DEF Link, NoLink
    <3>4. rotatedTo[k] = NoLink
      BY <1>5, <3>2, <3>3, MintsLast
    <3>5. ASSUME NEW r \in replayed \cup truncated, SameChain(k, r) PROVE FALSE
      <4>1. r # j /\ r \in Link
        BY <2>1, <3>5, MintsLast DEF SameChain, LineInv, TokenTypeOK
      <4>2. SameChain(k, r)'
        BY <1>1, <2>1, <3>5, <4>1, MintsLast DEF SameChain
      <4> QED
        BY <1>1, <1>5, <4>2
    <3>6. Live(k) \/ refresh[k] = "gone"
      BY <1>1, <1>5, <3>1, <3>4, <3>5 DEF ReplayInv, Keeps
    <3>7. refresh[k] = "gone" => refresh'[k] = "gone"
      <4>1. HasRow(refresh'[k]) => HasRow(refresh[k])
        BY <2>1 DEF Mints
      <4>2. refresh'[k] \in {"none", "live", "revoked", "gone"}
        BY DEF LineInv, TokenTypeOK
      <4> QED
        BY <1>5, <4>1, <4>2 DEF HasRow, Known
    <3> QED
      BY <2>1, <3>3, <3>6, <3>7 DEF Mints
  <2> QED
    BY <2>1 DEF Mints
<1> QED
  BY <1>3, <1>4, <1>5 DEF ReplayInv, Keeps

\* The steps that mint nothing: only a replay out of time and the holder end a token early.
LEMMA MintlessReplays ==
  ASSUME LineInv, ReplayInv, LineInv', Mintless,
         Quiet \/ (UNCHANGED clock /\ \/ \E i \in Link : Replay(i) \/ RevokeRefresh(i) \/ RevokeAccess(i)
                                      \/ PruneTokens)
  PROVE  ReplayInv'
<1>0. replayed \subseteq Link /\ clock \in Nat /\ rExpires \in [Link -> Nat]
  BY DEF LineInv, TokenTypeOK
<1>1. ASSUME UNCHANGED replayed PROVE TheftLasts'
  BY <1>0, <1>1 DEF ReplayInv, TheftLasts, Mintless, SameChain
<1>2. ASSUME UNCHANGED <<replayed, truncated>>, disowned \subseteq disowned',
             \A k \in Link : refresh'[k] = refresh[k] \/ (refresh'[k] = "revoked" /\ k \in disowned')
                             \/ (refresh'[k] = "gone" /\ rExpires[k] <= clock)
      PROVE  Keeps'
  <2>1. /\ UNCHANGED <<origin, rExpires, rotatedTo>>
        /\ \A k \in Link : Known(k)' <=> Known(k)
        /\ clock' \in {clock, clock + 1}
    BY DEF Mintless
  <2>2. ASSUME NEW k \in Link, refresh'[k] = "gone" PROVE rExpires'[k] <= clock'
    <3>1. rExpires[k] <= clock
      BY <1>2, <2>2 DEF ReplayInv, Keeps
    <3> QED
      BY <1>0, <2>1, <3>1
  <2>3. ASSUME NEW k \in Link, Known(k)', rotatedTo'[k] = NoLink, k \notin disowned',
               \A r \in (replayed \cup truncated)' : ~SameChain(k, r)'
        PROVE  Live(k)' \/ refresh'[k] = "gone"
    <3>1. Live(k) \/ refresh[k] = "gone"
      BY <1>2, <2>1, <2>3 DEF ReplayInv, Keeps, SameChain
    <3> QED
      BY <1>2, <2>3, <3>1 DEF Live
  <2> QED
    BY <2>2, <2>3 DEF Keeps
<1>3. CASE Quiet
  BY <1>1, <1>2, <1>3 DEF Quiet, tokenVars, rows, history, ReplayInv
<1>4. CASE PruneTokens
  <2>1. UNCHANGED <<replayed, truncated, disowned>> /\ refresh' = Swept(refresh, rExpires)
    BY <1>4 DEF PruneTokens, history
  <2>2. refresh \in [Link -> State] /\ \A k \in Link : refresh'[k] # "none" <=> refresh[k] # "none"
    BY DEF LineInv, TokenTypeOK, State, Mintless, Known
  <2>3. \A k \in Link : refresh'[k] = refresh[k] \/ (refresh'[k] = "gone" /\ rExpires[k] <= clock)
    BY <2>1, <2>2, SweptKeeps
  <2> QED
    BY <1>1, <1>2, <2>1, <2>3 DEF ReplayInv
<1>5. ASSUME NEW i \in Link, RevokeRefresh(i) PROVE ReplayInv'
  <2>1. /\ UNCHANGED <<replayed, truncated>> /\ disowned' = disowned \cup {i}
        /\ \A k \in Link : refresh'[k] = refresh[k] \/ (refresh'[k] = "revoked" /\ k = i)
    BY <1>5 DEF RevokeRefresh, LineInv, TokenTypeOK
  <2> QED
    BY <1>1, <1>2, <2>1 DEF ReplayInv
<1>6. ASSUME NEW i \in Link, RevokeAccess(i) PROVE ReplayInv'
  BY <1>1, <1>2, <1>6 DEF RevokeAccess, rows, history, ReplayInv
<1>7. ASSUME NEW i \in Link, UNCHANGED clock, Replay(i) PROVE ReplayInv'
  <2> HIDE DEF Chain, Truncated
  <2>0. Rotated(i) /\ (Late(i) <=> Theft(i)) /\ Recorded(i) /\ UNCHANGED <<disowned, rExpires, rotatedTo, origin>>
    BY <1>0, <1>7, TokenAssumption DEF Replay, Theft, Late, LineInv, TokenTypeOK
  <2>1. CASE ~Late(i)
    <3>1. UNCHANGED <<refresh, replayed, truncated, disowned>>
      BY <1>7, <2>0, <2>1 DEF Replay, Recorded
    <3> QED
      BY <1>1, <1>2, <3>1 DEF ReplayInv
  <2>2. CASE Late(i)
    <3>1. RevokeRotationChain(i)
      BY <1>7, <2>0, <2>2 DEF Replay
    <3>2. /\ \A k \in Link : refresh'[k] = refresh[k] \/ (k \in Chain(i) /\ refresh'[k] = "revoked")
          /\ \A k \in Chain(i) : refresh'[k] # "live" /\ access'[k] # "live"
      <4>1. /\ \A k \in Link : refresh'[k] = refresh[k] \/ (k \in Chain(i) /\ refresh'[k] = "revoked")
            /\ \A k \in Chain(i) \cap Link : refresh'[k] # "live" /\ access'[k] # "live"
        BY <3>1 DEF RevokeRotationChain, AccessAfterTheft, LineInv, Lines
      <4> QED
        BY <2>0, <4>1, ChainIsTheRest
    <3>3. (replayed \cup truncated)' = (replayed \cup truncated) \cup {i}
      BY <2>0, <2>2 DEF Recorded
    <3>4. Keeps'
      <4>1. ASSUME NEW k \in Link, Known(k)', rotatedTo'[k] = NoLink, k \notin disowned',
                   \A r \in (replayed \cup truncated)' : ~SameChain(k, r)'
            PROVE  Live(k)' \/ refresh'[k] = "gone"
        <5>1. k \notin Chain(i)
          BY <2>0, <3>3, <4>1, ChainIsTheRest DEF SameChain
        <5>2. refresh'[k] = refresh[k]
          BY <3>2, <5>1
        <5> QED
          BY <2>0, <3>3, <4>1, <5>2 DEF ReplayInv, Keeps, Known, Live, SameChain
      <4>2. \A k \in Link : refresh'[k] = "gone" => rExpires'[k] <= clock'
        BY <1>7, <2>0, <3>2 DEF ReplayInv, Keeps
      <4> QED
        BY <4>1, <4>2 DEF Keeps
    <3>5. CASE Truncated(i)
      <4>1. UNCHANGED replayed
        BY <2>0, <3>5 DEF Recorded
      <4> QED
        BY <1>1, <3>4, <4>1 DEF ReplayInv
    <3>6. CASE ~Truncated(i)
      <4>1. replayed' = replayed \cup {i}
        BY <2>0, <2>2, <3>6 DEF Recorded
      <4>2. \A k \in Link : SameChain(i, k) /\ i <= k => refresh'[k] # "live" /\ access'[k] # "live"
        BY <2>0, <3>2, <3>6, ChainIsTheRest
      <4>3. Known(i)'
        BY <2>0 DEF Mintless, Rotated, Known
      <4>4. TheftLasts'
        BY <1>0, <2>0, <4>1, <4>2, <4>3 DEF ReplayInv, TheftLasts, Mintless, SameChain, Live
      <4> QED
        BY <3>4, <4>4 DEF ReplayInv
    <3> QED
      BY <3>5, <3>6
  <2> QED
    BY <2>1, <2>2
<1> QED
  BY <1>3, <1>1, <1>2, <1>4, <1>5, <1>6, <1>7 DEF ReplayInv

\* Only a replay is recorded as cut, and it is cut only after the lifetime became shorter.
LEMMA CutStep ==
  ASSUME LineInv, CutOnlyIfShortened, TokenMove, Settled
  PROVE  CutOnlyIfShortened'
<1>1. shortened => shortened'
  BY SettingsTypes DEF LineInv
<1>2. ASSUME UNCHANGED truncated PROVE CutOnlyIfShortened'
  BY <1>1, <1>2 DEF CutOnlyIfShortened
<1>3. ASSUME NEW i \in Link, Replay(i) PROVE CutOnlyIfShortened'
  <2>1. Rotated(i) /\ truncated' = truncated \cup {k \in {i} : Late(k) /\ Truncated(k)}
    BY <1>3 DEF Replay, Recorded
  <2>2. CASE Truncated(i)
    BY <1>1, <2>1, <2>2, CutMeansShortened DEF CutOnlyIfShortened
  <2>3. CASE ~Truncated(i)
    BY <1>2, <2>1, <2>3
  <2> QED
    BY <2>2, <2>3
<1>4. CASE Quiet \/ PruneTokens \/ \E i \in Link : RevokeRefresh(i) \/ RevokeAccess(i)
  BY <1>2, <1>4 DEF Quiet, PruneTokens, RevokeRefresh, RevokeAccess, tokenVars, history
<1>5. CASE \E c \in Origin, j \in Link : IssueTokenPair(j, client[c], granted[c], c) \/ TornRedeem(c, j)
  BY <1>2, <1>5 DEF IssueTokenPair, TornRedeem, TornTokenPair
<1>6. CASE \E i, j \in Link : Refresh(i, j) \/ TornRefresh(i, j)
  BY <1>2, <1>6 DEF Refresh, TornRefresh, RotateRefreshToken
<1> QED
  BY <1>3, <1>4, <1>5, <1>6 DEF TokenMove

-----------------------------------------------------------------------------
(* The invariant of the server, and what it says.                          *)

ServerInv == ServerTypeOK /\ LineInv /\ ReplayInv /\ CutOnlyIfShortened

\* The invariant holds of the initial states.
LEMMA ServerInit == OAuthInit => ServerInv
<1> SUFFICES ASSUME OAuthInit PROVE ServerInv
  OBVIOUS
<1> USE TokenAssumption DEF OAuthInit, TokenInit, TokenTypeOK
<1>1. TokenTypeOK
  OBVIOUS
<1>2. OAuthTypeOK
  BY <1>1, ThrottleTypes DEF OAuthTypeOK, Entry, Guesses
<1>3. Offering
  BY DEF Offering
<1>4. ChainInv
  BY <1>1 DEF ChainInv, SameChain, Live
<1>5. Expiries /\ Lines /\ Walks
  BY DEF Expiries, InOrder, Lines, Walks, SameChain, Known, Live
<1>6. ReplayInv /\ CutOnlyIfShortened
  BY DEF ReplayInv, TheftLasts, Keeps, Known, CutOnlyIfShortened
<1> QED
  BY <1>1, <1>2, <1>3, <1>4, <1>5, <1>6 DEF ServerInv, ServerTypeOK, LineInv

\* Every step of the server keeps the invariant.
LEMMA ServerStep == ServerInv /\ [OAuthNext]_oauthVars => ServerInv'
<1> SUFFICES ASSUME ServerInv, [OAuthNext]_oauthVars PROVE ServerInv'
  OBVIOUS
<1>1. ServerTypeOK' /\ LineInv'
  BY ServerTypes, LineStep DEF ServerInv
<1>6. CutOnlyIfShortened'
  BY TokenMoves, SettingsMoves, CutStep DEF ServerInv
<1>2. ASSUME NEW c \in Origin, NEW i \in Link \cup {NoLink}, NEW j \in Link, Mints(c, i, j)
      PROVE  ReplayInv'
  BY <1>1, <1>2, MintsReplays DEF ServerInv
<1>3. ASSUME NEW c \in Origin, NEW j \in Link, UNCHANGED clock,
             \/ Redeemable(c) /\ IssueTokenPair(j, client[c], granted[c], c)
             \/ TornRedeem(c, j)
      PROVE  ReplayInv'
  <2>1. NoLink \in Link \cup {NoLink} /\ Mints(c, NoLink, j)
    BY <1>3, RedeemMints DEF TornRedeem, ServerInv
  <2> QED
    BY <1>2, <2>1
<1>4. ASSUME NEW i \in Link, NEW j \in Link, UNCHANGED clock, Refresh(i, j) \/ TornRefresh(i, j)
      PROVE  ReplayInv'
  BY <1>2, <1>4, RotationMints DEF ServerInv
<1>5. CASE Quiet \/ (UNCHANGED clock /\ \/ \E i \in Link : Replay(i) \/ RevokeRefresh(i) \/ RevokeAccess(i)
                                        \/ PruneTokens)
  <2>1. LineInv /\ ReplayInv
    BY DEF ServerInv
  <2>2. Mintless => ReplayInv'
    BY <1>1, <1>5, <2>1, MintlessReplays
  <2>3. TokenMove
    BY <1>5 DEF TokenMove
  <2>4. ReplayInv'
    BY <1>3, <1>4, <2>1, <2>2, <2>3, MintlessMoves
  <2> QED
    BY <1>1, <1>6, <2>4 DEF ServerInv
<1> QED
  BY <1>1, <1>3, <1>4, <1>5, <1>6, TokenMoves DEF TokenMove, ServerInv

\* The invariant holds throughout.
LEMMA ServerInvariant == OAuthSpec => []ServerInv
BY ServerInit, ServerStep, PTL DEF OAuthSpec

\* However the window ends between the check and the record of a request, and wrong
\* passwords are spread over the windows, in no time as long as one are there twice the
\* limit of them, for any limit and any window (server.ts:42).
THEOREM GuessesTheorem == OAuthSpec => []GuessesBounded
<1>1. OAuthInit => ThrottleInv
  <2> SUFFICES ASSUME OAuthInit PROVE Tallied(NoGuesses, NoAttempts, 0)
    BY DEF OAuthInit, ThrottleInv
  <2> QED
    BY ServerAssumption, FS_EmptySet DEF Tallied, Guesses, Entry, NoAttempts, NoGuesses, Counted
<1>2. ServerInv => ServerTypeOK
  BY DEF ServerInv
<1>3. ThrottleInv => GuessesBounded
  BY TallyBounds DEF ThrottleInv, GuessesBounded
<1> QED
  BY <1>1, <1>2, <1>3, ThrottleStep, ServerInvariant, PTL DEF OAuthSpec

\* The token table and the server keep their types.
THEOREM OAuthTypes == OAuthSpec => []OAuthTypeOK
<1>1. ServerInv => OAuthTypeOK
  BY DEF ServerInv, ServerTypeOK
<1> QED
  BY <1>1, ServerInvariant, PTL

\* Once a rotated token has come back out of time, nothing minted after it on its chain
\* works any more, whatever was revoked, rotated or pruned in between and however the
\* lifetime was changed, unless the walk said that it was cut short (store.ts:366, 378).
THEOREM TheftEndsChainTheorem == OAuthSpec => []TheftEndsChain
<1>1. ServerInv => TheftEndsChain
  BY DEF ServerInv, LineInv, TokenTypeOK, ReplayInv, TheftLasts, TheftEndsChain, LookupRefresh, LookupAccess, Live
<1> QED
  BY <1>1, ServerInvariant, PTL

\* The walk is cut short only if the lifetime was made shorter before (store.ts:380): with
\* TheftEndsChainTheorem, a theft always ends the chain while it is constant or grows.
THEOREM CutOnlyIfShortenedTheorem == OAuthSpec => []CutOnlyIfShortened
<1>1. ServerInv => CutOnlyIfShortened
  BY DEF ServerInv
<1> QED
  BY <1>1, ServerInvariant, PTL

\* The newest token of a chain that no late replay hit and that its holder did not revoke
\* works until it expires, for whoever holds it.
THEOREM RetryIsHarmlessTheorem == OAuthSpec => []RetryIsHarmless
<1>1. ASSUME ServerInv, NEW i \in Link, origin[i] # NoOrigin, rotatedTo[i] = NoLink, rExpires[i] > clock,
             i \notin disowned, \A k \in replayed \cup truncated : ~SameChain(i, k)
      PROVE  LookupRefresh(i)
  <2>1. Known(i)
    BY <1>1 DEF ServerInv, LineInv, ChainInv, Known
  <2>2. refresh[i] # "gone"
    BY <1>1 DEF ServerInv, LineInv, TokenTypeOK, ReplayInv, Keeps
  <2> QED
    BY <1>1, <2>1, <2>2 DEF ServerInv, ReplayInv, Keeps, LookupRefresh, Live
<1>2. ServerInv => RetryIsHarmless
  BY <1>1 DEF RetryIsHarmless
<1> QED
  BY <1>2, ServerInvariant, PTL

\* A code is good for one chain of tokens, whoever presents it, however often and whatever
\* crashes in between (store.ts:176).
THEOREM OneChainTheorem == OAuthSpec => []OneChainPerConsent
<1>1. ASSUME ServerInv, NEW c \in Origin
      PROVE  LET Roots == {i \in Link : origin[i] = c /\ \A k \in Link : rotatedTo[k] # i} IN
             Cardinality(Roots) <= 1 /\ (Roots # {} => consent[c] = "closed")
  <2> DEFINE Roots == {i \in Link : origin[i] = c /\ \A k \in Link : rotatedTo[k] # i}
  <2>1. ASSUME NEW i \in Roots, NEW k \in Roots PROVE i = k
    <3>1. SameChain(i, k) /\ SameChain(k, i)
      BY TokenAssumption DEF SameChain
    <3>2. ~(i < k) /\ ~(k < i)
      BY <1>1, <3>1 DEF ServerInv, LineInv, Lines
    <3> QED
      BY <3>2 DEF Link
  <2>2. Cardinality(Roots) <= 1
    <3>1. CASE Roots = {}
      BY <3>1, FS_EmptySet
    <3>2. ASSUME NEW i \in Roots PROVE Cardinality(Roots) <= 1
      <4>1. Roots = {i}
        BY <2>1, <3>2
      <4> HIDE DEF Roots
      <4>2. Cardinality(Roots) = 1
        BY <4>1, FS_Singleton
      <4> QED
        BY <4>2
    <3> QED
      BY <3>1, <3>2
  <2>3. Roots # {} => consent[c] = "closed"
    BY <1>1 DEF ServerInv, LineInv, ChainInv
  <2> QED
    BY <2>2, <2>3
<1>2. ServerInv => OneChainPerConsent
  BY <1>1 DEF OneChainPerConsent
<1> QED
  BY <1>2, ServerInvariant, PTL

-----------------------------------------------------------------------------
(* What was agreed to: the consents, and the tokens that carry them.       *)

Consents ==
  \A c \in Origin :
    /\ consent[c] \in {"none", "asked"} => granted[c] = {}
    /\ consent[c] # "none" => client[c] \in registered /\ ~InvalidScope(asked[c], Supported)
    /\ granted[c] \subseteq Options(c) /\ granted[c] \subseteq picked[c]

Deeds ==
  /\ scope \in [Link -> SUBSET Scope]
  /\ \A i \in Link :
       /\ Known(i) => holder[i] = client[origin[i]] /\ scope[i] = granted[origin[i]]
       /\ access[i] = "live" => Known(i)

\* The columns of a row are written when it is minted, from the consent of its chain.
LEMMA DeedsKept ==
  ASSUME ServerInv, Deeds, TokenMove,
         \A c \in Origin : consent[c] \in {"code", "closed"} =>
           client'[c] = client[c] /\ granted'[c] = granted[c]
  PROVE  Deeds'
<1>0. LineInv /\ holder \in [Link -> Holder \cup {NoHolder}] /\ granted \in [Origin -> SUBSET Scope]
  BY DEF ServerInv, ServerTypeOK, OAuthTypeOK, LineInv, TokenTypeOK
<1>1. \A i \in Link : Known(i) => /\ origin[i] \in Origin
                                  /\ client'[origin[i]] = client[origin[i]]
                                  /\ granted'[origin[i]] = granted[origin[i]]
  BY DEF ServerInv, LineInv, ChainInv, Known
<1>2. ASSUME Mintless, UNCHANGED <<holder, scope>> PROVE Deeds'
  BY <1>1, <1>2 DEF Mintless, Deeds
<1>3. ASSUME NEW c \in Origin, NEW i \in Link \cup {NoLink}, NEW j \in Link, Mints(c, i, j),
             NEW cl, NEW sc \in SUBSET Scope, client'[c] = cl, granted'[c] = sc,
             holder' = [holder EXCEPT ![j] = cl], scope' = [scope EXCEPT ![j] = sc]
      PROVE  Deeds'
  <2>0. scope' \in [Link -> SUBSET Scope]
    BY <1>3 DEF Deeds
  <2>1. ASSUME NEW k \in Link \ {j} PROVE /\ Known(k)' <=> Known(k)
                                          /\ origin'[k] = origin[k] /\ holder'[k] = holder[k]
                                          /\ scope'[k] = scope[k]
                                          /\ access'[k] = "live" => access[k] = "live"
    <3>1. origin'[k] = origin[k]
      <4>1. LineInv /\ Mints(c, i, j)
        BY <1>0, <1>3
      <4>2. \A l \in Link \ {j} : origin'[l] = origin[l]
        BY <4>1, MintsLast
      <4> QED
        BY <4>2
    <3>2. holder'[k] = holder[k] /\ scope'[k] = scope[k]
      BY <1>0, <1>3 DEF Deeds
    <3> QED
      BY <1>3, <3>1, <3>2 DEF Mints
  <2>2. Known(j)' /\ origin'[j] = c /\ holder'[j] = cl /\ scope'[j] = sc
    <3>1. origin'[j] = c
      BY <1>0, <1>3, MintsLast
    <3>2. Live(j)'
      BY <1>3 DEF Mints
    <3>3. Known(j)'
      BY <3>2 DEF Live, Known
    <3> QED
      BY <1>0, <1>3, <3>1, <3>3 DEF Deeds
  <2>3. ASSUME NEW k \in Link
        PROVE  /\ Known(k)' => holder'[k] = client'[origin'[k]] /\ scope'[k] = granted'[origin'[k]]
               /\ access'[k] = "live" => Known(k)'
    <3>1. CASE k = j
      BY <1>3, <2>2, <3>1
    <3>2. CASE k # j
      BY <1>1, <2>1, <3>2 DEF Deeds
    <3> QED
      BY <3>1, <3>2
  <2> QED
    BY <2>0, <2>3 DEF Deeds
<1>4. ASSUME NEW c \in Origin, NEW j \in Link, UNCHANGED clock, Redeemable(c),
             \/ IssueTokenPair(j, client[c], granted[c], c)
             \/ TornTokenPair(j, client[c], granted[c], c)
      PROVE  Deeds'
  <2>1. Mints(c, NoLink, j) /\ NoLink \in Link \cup {NoLink}
    BY <1>0, <1>4, RedeemMints
  <2>2. /\ holder' = [holder EXCEPT ![j] = client[c]] /\ scope' = [scope EXCEPT ![j] = granted[c]]
        /\ client'[c] = client[c] /\ granted'[c] = granted[c] /\ granted[c] \in SUBSET Scope
    BY <1>0, <1>4 DEF IssueTokenPair, TornTokenPair, Minted, Redeemable
  <2> QED
    BY <1>3, <2>1, <2>2
<1>5. ASSUME NEW i \in Link, NEW j \in Link, UNCHANGED clock, Refresh(i, j) \/ TornRefresh(i, j)
      PROVE  Deeds'
  <2>1. Mints(origin[i], i, j) /\ origin[i] \in Origin /\ Known(i)
    BY <1>0, <1>5, RotationMints DEF Refresh, TornRefresh, RotateRefreshToken, LookupRefresh, Known
  <2>2. holder' = [holder EXCEPT ![j] = holder[i]] /\ scope' = [scope EXCEPT ![j] = scope[i]]
    BY <1>5 DEF Refresh, TornRefresh, RotateRefreshToken, Minted
  <2>3. holder[i] = client'[origin[i]] /\ scope[i] = granted'[origin[i]] /\ scope[i] \in SUBSET Scope
    BY <1>1, <2>1 DEF Deeds
  <2> QED
    BY <1>3, <2>1, <2>2, <2>3
<1>6. ASSUME Quiet \/ (\E i \in Link : Replay(i) \/ RevokeRefresh(i) \/ RevokeAccess(i)) \/ PruneTokens
      PROVE  UNCHANGED <<holder, scope>>
  BY <1>6 DEF Quiet, Replay, RevokeRefresh, RevokeAccess, PruneTokens, tokenVars, rows
<1> QED
  BY <1>0, <1>2, <1>4, <1>5, <1>6, MintlessMoves DEF TokenMove, TornRedeem

\* A consent keeps what it was asked and, once it has a code, what it grants.
LEMMA ConsentsKept ==
  ASSUME Consents, registered \subseteq registered', UNCHANGED <<client, asked, picked, granted>>,
         \A c \in Origin : /\ consent'[c] # "none" => consent[c] # "none"
                           /\ consent'[c] \in {"none", "asked"} => consent[c] \in {"none", "asked"}
  PROVE  Consents'
BY DEF Consents, Options

\* Every step of the server keeps what was consented to and what was done with it.
LEMMA AgreedStep ==
  ASSUME ServerInv, Consents, Deeds, [OAuthNext]_oauthVars
  PROVE  Consents' /\ Deeds'
<1>0. /\ consent \in [Origin -> {"none", "asked", "code", "closed"}]
      /\ client \in [Origin -> Holder \cup {NoHolder}] /\ asked \in [Origin -> Requests \cup {{}}]
      /\ picked \in [Origin -> SUBSET Scope] /\ granted \in [Origin -> SUBSET Scope]
  BY DEF ServerInv, ServerTypeOK, OAuthTypeOK
<1>1. ASSUME \A c \in Origin : consent[c] \in {"code", "closed"} =>
               client'[c] = client[c] /\ granted'[c] = granted[c]
      PROVE  Deeds'
  BY <1>1, DeedsKept, TokenMoves
<1>2. ASSUME UNCHANGED <<client, asked, picked, granted>>, registered \subseteq registered',
             \A c \in Origin : /\ consent'[c] # "none" => consent[c] # "none"
                               /\ consent'[c] \in {"none", "asked"} => consent[c] \in {"none", "asked"}
      PROVE  Consents' /\ Deeds'
  BY <1>1, <1>2, ConsentsKept
<1>3. ASSUME NEW c \in Origin, NEW states, states = consent \/ states = [consent EXCEPT ![c] = "closed"],
             consent[c] # "none", LoseMemory(states)
      PROVE  Consents' /\ Deeds'
  BY <1>0, <1>2, <1>3 DEF LoseMemory, Forgotten
<1>4. ASSUME NEW cl \in Holder, Register(cl) PROVE Consents' /\ Deeds'
  BY <1>2, <1>4 DEF Register, consentVars
<1>5. ASSUME NEW c \in Origin, NEW cl \in Holder, NEW words \in Requests, Authorize(c, cl, words)
      PROVE  Consents' /\ Deeds'
  <2>1. Consents'
    <3>1. /\ consent[c] = "none" /\ granted[c] = {} /\ UNCHANGED <<picked, granted, registered>>
          /\ cl \in registered /\ ~InvalidScope(words, Supported)
      BY <1>5 DEF Authorize, Consents
    <3>2. /\ consent'[c] = "asked" /\ client'[c] = cl /\ asked'[c] = words
          /\ \A d \in Origin \ {c} : consent'[d] = consent[d] /\ client'[d] = client[d] /\ asked'[d] = asked[d]
      BY <1>0, <1>5 DEF Authorize
    <3> QED
      BY <3>1, <3>2 DEF Consents, Options
  <2>2. \A d \in Origin : consent[d] \in {"code", "closed"} =>
          client'[d] = client[d] /\ granted'[d] = granted[d]
    BY <1>5 DEF Authorize
  <2> QED
    BY <1>1, <2>1, <2>2
<1>6. ASSUME NEW c \in Origin, Deny(c) PROVE Consents' /\ Deeds'
  BY <1>0, <1>2, <1>6 DEF Deny, Answered
<1>7. ASSUME NEW c \in Origin, NEW t, WrongPassword(c, t) PROVE Consents' /\ Deeds'
  BY <1>2, <1>7 DEF WrongPassword, consentVars
<1>8. ASSUME NEW c \in Origin, NEW form, Approve(c, form) PROVE Consents' /\ Deeds'
  <2>1. /\ consent[c] = "asked" /\ UNCHANGED <<client, asked, registered>>
        /\ consent' = [consent EXCEPT ![c] = "code"] /\ granted' = [granted EXCEPT ![c] = Chosen(c, form)]
        /\ picked' = [picked EXCEPT ![c] = Picked(c, form)]
    BY <1>8 DEF Approve, Answered
  <2>2. Chosen(c, form) \subseteq Options(c) /\ Chosen(c, form) \subseteq Picked(c, form)
    BY <1>8, <2>1, ChosenIsOffered DEF Approve, ServerInv, ServerTypeOK, Offering
  <2>3. Consents'
    BY <1>0, <2>1, <2>2 DEF Consents, Options
  <2> QED
    BY <1>0, <1>1, <2>1, <2>3
<1>9. ASSUME NEW c \in Origin, NEW j \in Link, NEW right \in BOOLEAN, Redeem(c, j, right)
      PROVE  Consents' /\ Deeds'
  BY <1>0, <1>2, <1>9 DEF Redeem, Redeemable
<1>10. ASSUME NEW c \in Origin, NEW j \in Link, TornRedeem(c, j) PROVE Consents' /\ Deeds'
  BY <1>3, <1>10 DEF TornRedeem, Redeemable
<1>11. ASSUME LoseMemory(consent) PROVE Consents' /\ Deeds'
  BY <1>0, <1>2, <1>11 DEF LoseMemory, Forgotten
<1>12. CASE TokenStep /\ UNCHANGED <<clock, serverVars>>
  BY <1>2, <1>12 DEF serverVars, consentVars
<1>13. CASE Tick
  BY <1>2, <1>13 DEF Tick, consentVars
<1>14. CASE UNCHANGED oauthVars
  BY <1>2, <1>14 DEF oauthVars, serverVars, consentVars
<1> QED
  BY <1>4, <1>5, <1>6, <1>7, <1>8, <1>9, <1>10, <1>11, <1>12, <1>13, <1>14
     DEF OAuthNext, Restart, TornRotation

-----------------------------------------------------------------------------
(* The doors.                                                              *)

\* Keys are unique by name while active.
Names == \A k, l \in Key : KeyActive(k) /\ KeyActive(l) /\ keyName[k] = keyName[l] => k = l

DoorInv ==
  /\ deployment \in Deployment
  /\ keyName    \in [Key -> KeyName \cup {NoName}]
  /\ keyRevoked \in [Key -> BOOLEAN]
  /\ Names

AccessInv == ServerInv /\ Consents /\ Deeds /\ DoorInv

\* Every step on the keys keeps the invariant of the door.
LEMMA DoorStep ==
  ASSUME DoorInv, KeyStep
  PROVE  DoorInv'
<1>1. ASSUME NEW name \in KeyName, RevokeKey(name) PROVE DoorInv'
  BY <1>1 DEF RevokeKey, DoorInv, Names, KeyActive
<1>2. ASSUME NEW name \in KeyName, NEW k \in Key, CreateKey(k, name) PROVE DoorInv'
  BY <1>2 DEF CreateKey, NameFree, DoorInv, Names, KeyActive
<1> QED
  BY <1>1, <1>2 DEF KeyStep

\* The invariant of server and door holds of the initial states.
LEMMA AccessInitial == AccessInit => AccessInv
<1> SUFFICES ASSUME AccessInit PROVE AccessInv
  OBVIOUS
<1>1. OAuthInit /\ DoorInit /\ ServerInv
  BY ServerInit DEF AccessInit
<1>2. Consents /\ Deeds
  BY <1>1 DEF OAuthInit, TokenInit, Consents, Deeds, Known
<1>3. DoorInv
  BY <1>1, DoorAssumption DEF DoorInit, DoorInv, Names, KeyActive
<1> QED
  BY <1>1, <1>2, <1>3 DEF AccessInv

\* Every step of server or door keeps it.
LEMMA AccessStep == AccessInv /\ [AccessNext]_<<oauthVars, doorVars>> => AccessInv'
<1> SUFFICES ASSUME AccessInv, [AccessNext]_<<oauthVars, doorVars>> PROVE AccessInv'
  OBVIOUS
<1>1. [OAuthNext]_oauthVars
  BY DEF AccessNext
<1>2. ServerInv' /\ Consents' /\ Deeds'
  BY <1>1, ServerStep, AgreedStep DEF AccessInv
<1>3. DoorInv'
  BY DoorStep DEF AccessInv, AccessNext, DoorInv, doorVars, Names, KeyActive
<1> QED
  BY <1>2, <1>3 DEF AccessInv

\* It holds throughout.
LEMMA AccessInvariant == AccessSpec => []AccessInv
BY AccessInitial, AccessStep, PTL DEF AccessSpec

\* The doors and the keys leave the server as it is: what is proved of the server holds
\* behind them.
THEOREM AccessImplementsServer == AccessSpec => OAuthSpec
<1>1. AccessInit => OAuthInit
  BY DEF AccessInit
<1>2. [AccessNext]_<<oauthVars, doorVars>> => [OAuthNext]_oauthVars
  BY DEF AccessNext
<1> QED
  BY <1>1, <1>2, PTL DEF AccessSpec, OAuthSpec

\* Keys, deployment and server keep their types.
THEOREM AccessTypes == AccessSpec => []AccessTypeOK
<1>1. AccessInv => AccessTypeOK
  BY DEF AccessInv, ServerInv, ServerTypeOK, DoorInv, AccessTypeOK
<1> QED
  BY <1>1, AccessInvariant, PTL

\* A token of full access was picked, configured and asked for, or nothing was named; a
\* token for the board was picked and configured, and it or more was asked for.
LEMMA GrantIsCovered ==
  ASSUME NEW c \in Origin, Consents, consent[c] # "none", NEW tool,
         ToolAllowed(tool, ParseScopes(granted[c]))
  PROVE  /\ ToolAllowed(tool, ParseScopes(Supported))
         /\ asked[c] = {} \/ ToolAllowed(tool, ParseScopes(asked[c]))
         /\ ToolAllowed(tool, ParseScopes(picked[c]))
<1>0. granted[c] \subseteq picked[c]
  BY DEF Consents
<1>1. granted[c] \subseteq Options(c) /\ asked[c] \subseteq Grantable(Supported)
  BY DEF Consents, InvalidScope
<1>2. \A s \in granted[c] : s \in Supported /\ (s = "mcp" => WantsFull(asked[c], Supported))
  BY <1>1 DEF Options, ScopeOptions, Grantable
<1>3. "mcp" \in granted[c] => asked[c] = {} \/ "mcp" \in asked[c]
  BY <1>2 DEF WantsFull
<1>4. asked[c] = {} \/ "mcp" \in asked[c] \/ "board" \in asked[c]
  BY <1>1 DEF Grantable, Scope
<1> QED
  BY <1>0, <1>2, <1>3, <1>4 DEF ToolAllowed, ParseScopes, Scope

\* End to end, from the consent page to the two doors: no credential opens a tool beyond
\* what its client asked for, the configuration offers and the owner chose on the page, and
\* nothing is open to all except on loopback.
THEOREM CallsAreCoveredTheorem == AccessSpec => []CallsAreCovered
<1>1. ASSUME AccessInv, NEW cred \in Credential, NEW door, NEW tool \in Callable(cred, door),
             ~(deployment.mode = "none" /\ deployment.loopback)
      PROVE  Covers(cred, tool)
  <2>1. PICK p \in Admitted(cred) : ToolAllowed(tool, p.scopes)
    BY DEF Callable
  <2>2. deployment.mode \in {"bearer", "oauth"}
    BY <1>1, <2>1 DEF Admitted, AccessInv, DoorInv, Deployment
  <2>3. cred.kind \in {"access", "key", "static", "anonymous"}
    BY DEF Credential
  <2>4. CASE cred.kind = "key"
    <3>1. p \in AdmitBoardKey(cred.id)
      BY <2>1, <2>2, <2>4 DEF Admitted
    <3>2. KeyActive(cred.id) /\ p.scopes = {"board"}
      BY <3>1 DEF AdmitBoardKey, Principal
    <3> QED
      BY <2>1, <2>4, <3>2 DEF Covers, ToolAllowed
  <2>5. CASE cred.kind = "access"
    <3>1. deployment.mode = "oauth" /\ p \in AdmitAccessToken(cred.id)
      BY <2>1, <2>2, <2>5 DEF Admitted
    <3>2. cred.id \in Link
      BY <2>5 DEF Credential
    <3>3. access[cred.id] = "live" /\ p.scopes = ParseScopes(scope[cred.id])
      BY <3>1 DEF AdmitAccessToken, LookupAccess, Principal
    <3>4. /\ Known(cred.id) /\ holder[cred.id] = client[origin[cred.id]]
          /\ scope[cred.id] = granted[origin[cred.id]]
      BY <1>1, <3>2, <3>3 DEF AccessInv, Deeds
    <3>5. origin[cred.id] \in Origin /\ consent[origin[cred.id]] = "closed"
      BY <1>1, <3>2, <3>4 DEF AccessInv, ServerInv, LineInv, ChainInv, Known
    <3>6. client[origin[cred.id]] \in registered
      BY <1>1, <3>5 DEF AccessInv, Consents
    <3>7. /\ ToolAllowed(tool, ParseScopes(Supported))
          /\ asked[origin[cred.id]] = {} \/ ToolAllowed(tool, ParseScopes(asked[origin[cred.id]]))
          /\ ToolAllowed(tool, ParseScopes(picked[origin[cred.id]]))
      BY <1>1, <2>1, <3>3, <3>4, <3>5, GrantIsCovered DEF AccessInv
    <3> QED
      BY <2>5, <3>1, <3>4, <3>6, <3>7 DEF Covers
  <2>6. CASE cred.kind \in {"static", "anonymous"}
    BY <2>1, <2>2, <2>6 DEF Admitted, Covers
  <2> QED
    BY <2>3, <2>4, <2>5, <2>6
<1>2. AccessInv => CallsAreCovered
  BY <1>1 DEF CallsAreCovered
<1> QED
  BY <1>2, AccessInvariant, PTL

\* Two credentials that work and write to the board as one session are of one holder.
THEOREM IdentityTheorem == AccessSpec => []IdentityIsExclusive
<1>1. ASSUME AccessInv, deployment.mode # "none", NEW d \in Credential, NEW e \in Credential,
             NEW p \in Admitted(d), NEW q \in Admitted(e), BoardSession(p) = BoardSession(q)
      PROVE  Behind(d) = Behind(e)
  <2>1. deployment.mode \in {"bearer", "oauth"}
    BY <1>1 DEF AccessInv, DoorInv, Deployment
  <2>2. p.kind = q.kind /\ p.subject = q.subject
    BY <1>1 DEF BoardSession
  <2>3. ASSUME NEW f \in Credential, NEW r \in Admitted(f)
        PROVE  \/ /\ f.kind = "key" /\ f.id \in Key /\ KeyActive(f.id)
                  /\ r.kind = "board-key" /\ r.subject = keyName[f.id]
               \/ f.kind = "access" /\ r.kind = "oauth" /\ r.subject = holder[f.id]
               \/ f.kind = "static" /\ r.kind = "static-bearer"
    <3>1. f.kind \in {"access", "key", "static", "anonymous"} /\ (f.kind = "key" => f.id \in Key)
      BY DEF Credential
    <3>2. CASE f.kind = "key"
      <4>1. r \in AdmitBoardKey(f.id)
        BY <2>1, <2>3, <3>2 DEF Admitted
      <4> QED
        BY <3>1, <3>2, <4>1 DEF AdmitBoardKey, Principal
    <3>3. CASE f.kind = "access"
      <4>1. r \in AdmitAccessToken(f.id)
        BY <2>1, <2>3, <3>3 DEF Admitted
      <4> QED
        BY <3>3, <4>1 DEF AdmitAccessToken, Principal
    <3>4. CASE f.kind \in {"static", "anonymous"}
      BY <2>1, <2>3, <3>4 DEF Admitted, Principal
    <3> QED
      BY <3>1, <3>2, <3>3, <3>4
  <2>4. \/ d.kind = "key" /\ e.kind = "key" /\ d.id = e.id
        \/ d.kind = "access" /\ e.kind = "access" /\ holder[d.id] = holder[e.id]
        \/ d.kind = "static" /\ e.kind = "static"
    BY <1>1, <2>2, <2>3 DEF AccessInv, DoorInv, Names
  <2> QED
    BY <2>4 DEF Behind
<1>2. AccessInv => IdentityIsExclusive
  BY <1>1 DEF IdentityIsExclusive
<1> QED
  BY <1>2, AccessInvariant, PTL
=============================================================================
