------------------------------ MODULE MCAccess ------------------------------
EXTENDS AccessDoor, TLC

CONSTANT h2

Asked == Cardinality({c \in Origin : consent[c] # "none"})

\* The long chains are explored with one consent.  Two consents have a token each at
\* most while they are answered, and then chains that are not revoked by their holders.
\* The board keys are there beside the first token; nothing in the oauth mode depends
\* on the address, so one bind is enough for it.  A client registers at once, or goes
\* no further than its consent, and a second one than one token.  The lifetime is
\* changed, back and forth, while one client follows one chain that it does not revoke.
Small ==
  /\ ~deployment.loopback \/ Asked = 0
  /\ registrations.resetAt \in {0, Window} \/ (refresh[1] = "none" /\ Asked <= 1 /\ clock <= 3)
  /\ h2 \notin registered \/ (refresh[2] = "none" /\ Asked <= 1 /\ clock <= 3)
  /\ \/ Asked <= 1
     \/ refresh[3] = "none" /\ clock <= (IF refresh[1] = "none" THEN 3 ELSE IF refresh[2] = "none" THEN 2 ELSE 1)
     \/ /\ \A c \in Origin : consent[c] = "closed" /\ \E i \in Link : origin[i] = c
        /\ disowned = {} /\ clock <= 2 /\ attempts.count = 0
        /\ replayed # {} \/ \A i \in Link : access[i] # "revoked"
  /\ \/ lifetime = 3 /\ ~shortened
     \/ /\ Asked <= 1 /\ h2 \notin registered /\ registrations.resetAt \in {0, Window}
        /\ clock <= 4 /\ disowned = {} /\ attempts.count = 0 /\ guesses = {}
        /\ \A k \in Key : keyName[k] = NoName
        /\ \A c \in Origin : consent[c] # "none" => asked[c] = {"board"}
  /\ (\A k \in Key : keyName[k] = NoName) \/ (refresh[2] = "none" /\ Asked <= 1 /\ clock <= 2)

Symmetric == Permutations(Origin)
=============================================================================
