----------------------------- MODULE OAuthClient -----------------------------
(***************************************************************************)
(* A client of the authorization server, which keeps the refresh tokens it *)
(* receives and presents them again when an answer does not arrive.        *)
(* External: the server only knows that such clients exist (schema.ts:70). *)
(***************************************************************************)
EXTENDS OAuthServer

VARIABLES
  held,     \* the links whose refresh token has reached the client
  retried   \* those it has presented a second time within the grace

clientVars == <<held, retried>>

\* The answer that carries the refresh token of link j arrives or is lost.
Answer(j) == held' \in {held, held \cup {j}} /\ UNCHANGED retried

\* It asks for its first token, or for the next one.
Ask ==
  \E j \in Link :
    /\ \/ \E c \in Origin : Redeem(c, j, TRUE)
       \/ \E i \in held : Refresh(i, j) /\ UNCHANGED <<clock, serverVars>>
    /\ Answer(j)

\* It presents a token again that it has presented before, in time.
Retry ==
  \E i \in held :
    /\ Replay(i) /\ UNCHANGED <<clock, serverVars>>
    /\ ~Late(i)
    /\ retried' = retried \cup {i}
    /\ UNCHANGED held

\* What the owner and the clock do meanwhile.
Meanwhile ==
  /\ \/ \E cl \in Holder : Register(cl)
     \/ \E c \in Origin :
          \/ \E cl \in Holder, words \in Requests : Authorize(c, cl, words)
          \/ Approve(c, {})
     \/ Tick
  /\ UNCHANGED clientVars

ClientInit == OAuthInit /\ held = {} /\ retried = {}

ClientSpec ==
  ClientInit /\ [][Ask \/ Retry \/ Meanwhile]_<<oauthVars, clientVars>>

-----------------------------------------------------------------------------
\* A client that presents its token again in time is not "pushed back through consent
\* for nothing" (schema.ts:75): as long as its chain has a token that works, it has it.
RetryRecovers ==
  \A i \in retried, k \in Link : SameChain(i, k) /\ LookupRefresh(k) => k \in held
=============================================================================
