-------------------------- MODULE MCSessionManager --------------------------
(* Instances of SessionManager for TLC. *)
EXTENDS SessionManager, TLC

Symmetry ==
  Permutations(Session) \cup Permutations(Request) \cup Permutations(Caller)
=============================================================================
