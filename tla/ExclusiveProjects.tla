------------------------- MODULE ExclusiveProjects -------------------------
(***************************************************************************)
(* What the work sessions promise about a project, without statuses,       *)
(* queues, questions, cancellations or restarts: a session that writes to  *)
(* a project owns it from its start to its end, and nobody else acts on it *)
(* in between (README.md, "Claude work sessions": "One write-capable       *)
(* session per project is enforced").                                      *)
(***************************************************************************)
CONSTANTS Session, Project, NoSession, NoProject

\* What the constants must satisfy: a hypothesis of the theorems.
SentinelsDistinct == NoSession \notin Session /\ NoProject \notin Project

VARIABLES
  life,    \* "new", "open" or "closed"
  target,  \* the project a session writes to, NoProject for a reader
  owner,   \* the session a project belongs to
  acting   \* the sessions that drive a worker

vars == <<life, target, owner, acting>>

Init ==
  /\ life   = [s \in Session |-> "new"]
  /\ target = [s \in Session |-> NoProject]
  /\ owner  = [p \in Project |-> NoSession]
  /\ acting = {}

\* A session starts; a writer takes its project, which must be free.
Open(s, p) ==
  /\ life[s] = "new"
  /\ p \in Project => owner[p] = NoSession
  /\ life'   = [life EXCEPT ![s] = "open"]
  /\ target' = [target EXCEPT ![s] = p]
  /\ owner'  = [q \in Project |-> IF q = p THEN s ELSE owner[q]]
  /\ acting' = acting \cup {s}

\* A session that is turned away never opens.
Refuse(s, p) ==
  /\ life[s] = "new"
  /\ life'   = [life EXCEPT ![s] = "closed"]
  /\ target' = [target EXCEPT ![s] = p]
  /\ UNCHANGED <<owner, acting>>

\* An open session may lose its worker, and get one again, but keeps its project.
Pause ==
  /\ acting' \in SUBSET acting
  /\ UNCHANGED <<life, target, owner>>

Resume(s) ==
  /\ life[s] = "open"
  /\ acting' = acting \cup {s}
  /\ UNCHANGED <<life, target, owner>>

\* Sessions end, and only that frees their projects.
Close(S) ==
  /\ \A s \in S : life[s] = "open"
  /\ life'   = [s \in Session |-> IF s \in S THEN "closed" ELSE life[s]]
  /\ owner'  = [p \in Project |-> IF owner[p] \in S THEN NoSession ELSE owner[p]]
  /\ acting' = acting \ S
  /\ UNCHANGED target

Next ==
  \/ \E s \in Session :
       \/ Resume(s)
       \/ \E p \in Project \cup {NoProject} : Open(s, p) \/ Refuse(s, p)
  \/ Pause
  \/ \E S \in SUBSET Session : Close(S)

Spec == Init /\ [][Next]_vars

TypeOK ==
  /\ life   \in [Session -> {"new", "open", "closed"}]
  /\ target \in [Session -> Project \cup {NoProject}]
  /\ owner  \in [Project -> Session \cup {NoSession}]
  /\ acting \in SUBSET Session

\* An acting session is open, and one that writes owns what it writes to.
Owned ==
  \A s \in Session :
    /\ s \in acting => life[s] = "open"
    /\ life[s] = "open" /\ target[s] # NoProject => owner[target[s]] = s

\* No two acting sessions write to one project.
Exclusive ==
  \A s, t \in acting : target[s] = target[t] /\ target[s] # NoProject => s = t
=============================================================================
