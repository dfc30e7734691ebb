---------------------- MODULE ExclusiveProjectsProofs ----------------------
(***************************************************************************)
(* The abstract specification keeps its promise for every set of sessions  *)
(* and projects: Owned is inductive together with the types, and two       *)
(* writers of one project would both own it.                               *)
(***************************************************************************)
EXTENDS ExclusiveProjects, TLAPS

\* Every step keeps the types.
LEMMA AbstractTypes == SentinelsDistinct /\ TypeOK /\ [Next]_vars => TypeOK'
BY DEF SentinelsDistinct, TypeOK, Next, vars, Open, Refuse, Pause, Resume, Close

\* Every step keeps an open writer the owner of its project.
LEMMA AbstractOwned == SentinelsDistinct /\ TypeOK /\ Owned /\ [Next]_vars => Owned'
<1> SUFFICES ASSUME SentinelsDistinct, TypeOK, Owned, [Next]_vars PROVE Owned'
  OBVIOUS
<1> USE DEF SentinelsDistinct, TypeOK, Owned
<1>1. ASSUME NEW s \in Session, NEW p \in Project \cup {NoProject}, Open(s, p)
      PROVE Owned'
  BY <1>1 DEF Open
<1>2. ASSUME NEW s \in Session, NEW p \in Project \cup {NoProject}, Refuse(s, p)
      PROVE Owned'
  BY <1>2 DEF Refuse
<1>3. CASE Pause
  BY <1>3 DEF Pause
<1>4. ASSUME NEW s \in Session, Resume(s) PROVE Owned'
  BY <1>4 DEF Resume
<1>5. ASSUME NEW S \in SUBSET Session, Close(S) PROVE Owned'
  BY <1>5 DEF Close
<1>6. CASE UNCHANGED vars
  BY <1>6 DEF vars
<1> QED
  BY <1>1, <1>2, <1>3, <1>4, <1>5, <1>6 DEF Next

\* An acting session is open, and a writer owns its project, in every state.
THEOREM AbstractOwnership ==
  ASSUME SentinelsDistinct PROVE Spec => [](TypeOK /\ Owned)
<1>1. Init => TypeOK /\ Owned
  BY DEF Init, TypeOK, Owned
<1>2. TypeOK /\ Owned /\ [Next]_vars => (TypeOK /\ Owned)'
  BY AbstractTypes, AbstractOwned
<1> QED
  BY <1>1, <1>2, PTL DEF Spec

\* No two acting sessions write to one project.
THEOREM AbstractExclusive ==
  ASSUME SentinelsDistinct PROVE Spec => []Exclusive
<1>1. TypeOK /\ Owned => Exclusive
  BY DEF TypeOK, Owned, Exclusive
<1>2. Spec => [](TypeOK /\ Owned)
  BY AbstractOwnership
<1> QED
  BY <1>1, <1>2, PTL
=============================================================================
