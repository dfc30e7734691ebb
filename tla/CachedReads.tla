---------------------------- MODULE CachedReads -----------------------------
(***************************************************************************)
(* The five places that keep the answer of a slow read for a while: the    *)
(* project registry (a scan of the disk), the capabilities of the context  *)
(* providers, the health of the memory provider, the machines and the      *)
(* system status.  Callers overlap.  The first three let callers share a   *)
(* read that is running, the last two do not; all but the second and the   *)
(* third let a caller insist on a new read.                                *)
(***************************************************************************)
EXTENDS Naturals

CONSTANTS
  Reader,     \* the callers, each calls at most once; a read is named by who began it
  NoRead

ASSUME ReadsAssumption == NoRead \notin Reader

VARIABLES
  kind,       \* which of the five this is
  entry,      \* cache: the read it holds the answer of, and whether it has not expired
  running,    \* scanInFlight, healthInFlight: the read that callers may join
  caller,     \* every caller: what it asked for, and the read it waits for or got
  past        \* history: the reads a caller must not be answered with, as of its call

readsVars == <<kind, entry, running, caller, past>>

ReadsInit ==
  /\ kind \in {"projects", "capabilities", "health", "computers", "status"}
  /\ entry = [read |-> NoRead, live |-> FALSE]
  /\ running = NoRead
  /\ caller = [c \in Reader |-> [at |-> "idle", forced |-> FALSE, read |-> NoRead]]
  /\ past = [c \in Reader |-> {}]

Shares(k)  == k \in {"projects", "capabilities", "health"}
Insists(k) == k \notin {"capabilities", "health"}

Joins(forced) == Shares(kind) /\ running # NoRead /\ ~forced

\* A read that was begun before, if this caller insists; else one that is over and is
\* not what the cache holds.
PastFor(c, forced) ==
  {r \in Reader \ {c} : /\ caller[r].read = r
                        /\ \/ forced
                           \/ caller[r].at # "reading" /\ ~(entry.live /\ entry.read = r)}

\* list, get, cachedCapabilities and cachedHealth, up to their first await.
AskFor(c) ==
  /\ caller[c].at = "idle"
  /\ \E forced \in (IF Insists(kind) THEN BOOLEAN ELSE {FALSE}) :
       /\ past' = [past EXCEPT ![c] = PastFor(c, forced)]
       /\ \/ /\ ~forced /\ entry.live
             /\ caller' = [caller EXCEPT ![c] = [at |-> "answered", forced |-> forced, read |-> entry.read]]
             /\ UNCHANGED running
          \/ /\ ~(~forced /\ entry.live) /\ Joins(forced)
             /\ caller' = [caller EXCEPT ![c] = [at |-> "joined", forced |-> forced, read |-> running]]
             /\ UNCHANGED running
          \/ /\ ~(~forced /\ entry.live) /\ ~Joins(forced)
             /\ caller' = [caller EXCEPT ![c] = [at |-> "reading", forced |-> forced, read |-> c]]
             /\ running' = IF Shares(kind) THEN c ELSE NoRead
  /\ UNCHANGED <<kind, entry>>

\* Fault: only the caller who began a read has its outcome.
HandOutToStarter(c, how) == caller' = [caller EXCEPT ![c].at = how]

\* All who wait for a read have its outcome.
HandOut(c, how) ==
  caller' = [d \in Reader |-> IF caller[d].read = c /\ caller[d].at \in {"reading", "joined"}
                              THEN [caller[d] EXCEPT !.at = how] ELSE caller[d]]

\* Fault: a read that fails stays the one to join.
ClearOnSuccess(how) == IF how = "answered" THEN NoRead ELSE running

\* finally: whichever read is registered by now.
Clear(how) == NoRead

\* The read ends, is cached and handed out.
ReadEnds(c) ==
  /\ caller[c].at = "reading"
  /\ entry' = [read |-> c, live |-> TRUE]
  /\ running' = Clear("answered")
  /\ HandOut(c, "answered")
  /\ UNCHANGED <<kind, past>>

\* The read fails: that is handed out and not cached.
ReadFails(c) ==
  /\ caller[c].at = "reading"
  /\ running' = Clear("failed")
  /\ HandOut(c, "failed")
  /\ UNCHANGED <<kind, entry, past>>

\* expiresAt.
Expire ==
  /\ entry.live
  /\ entry' = [entry EXCEPT !.live = FALSE]
  /\ UNCHANGED <<kind, running, caller, past>>

ReadsNext == (\E c \in Reader : AskFor(c) \/ ReadEnds(c) \/ ReadFails(c)) \/ Expire

ReadsSpec == ReadsInit /\ [][ReadsNext]_readsVars

-----------------------------------------------------------------------------
ReadsTypeOK ==
  /\ kind \in {"projects", "capabilities", "health", "computers", "status"}
  /\ entry \in [read : Reader \cup {NoRead}, live : BOOLEAN]
  /\ running \in Reader \cup {NoRead}
  /\ caller \in [Reader -> [at : {"idle", "reading", "joined", "answered", "failed"},
                            forced : BOOLEAN, read : Reader \cup {NoRead}]]
  /\ past \in [Reader -> SUBSET Reader]

\* Nobody is given the outcome of a read that was over when they called, unless it is
\* cached and has not expired; who insists is given a read begun after the call
\* (project-registry.ts:264, "asking for state newer than that scan began with";
\* capability-cache.ts:34, "A failed probe is not cached").
AnswerIsFresh == \A c \in Reader : caller[c].read \notin past[c]

\* The read that c began is not over.
Runs(c) == caller[c].at = "reading" /\ caller[c].read = c

\* Whoever waits for a read waits for one that somebody began and that is not over, and
\* what callers may join is such a read; what is kept was begun and came to its end: though
\* a forced read takes the place of one that others still wait for, and whichever of the
\* two ends first clears it (project-registry.ts:260-268).
WaitsForARunningRead ==
  /\ running # NoRead => Runs(running) /\ Shares(kind)
  /\ \A c \in Reader : /\ caller[c].at = "reading" => Runs(c)
                       /\ caller[c].at = "joined" => caller[c].read \in Reader /\ Runs(caller[c].read)
  /\ entry.read # NoRead => entry.read \in Reader /\ caller[entry.read].at = "answered"
=============================================================================
