----------------------------- MODULE CacheProofs -----------------------------
(***************************************************************************)
(* Theorems about what is kept for later callers, for any callers, any     *)
(* providers and any budgets: nobody waits for a read that is over, or is  *)
(* handed one that is too old, or a section that was cut for less room     *)
(* than there is; no request asks too many at once, and no more is kept    *)
(* than may be.                                                            *)
(***************************************************************************)
EXTENDS CachedReads, ContextAssembler, FiniteSetTheorems, SequenceTheorems, TLAPS

(* Reads that are kept and shared.                                         *)

\* The read that callers may join is one that is still running.
JoinsARunningRead ==
  /\ running \in Reader \cup {NoRead}
  /\ caller \in [Reader -> [at : {"idle", "reading", "joined", "answered", "failed"},
                            forced : BOOLEAN, read : Reader \cup {NoRead}]]
  /\ past \in [Reader -> SUBSET Reader]
  /\ entry \in [read : Reader \cup {NoRead}, live : BOOLEAN]
  /\ running # NoRead => caller[running].at = "reading"

\* A call is answered with what is cached, with what runs, or with a read of its own;
\* none of them is past for it.
LEMMA AskForStep ==
  ASSUME JoinsARunningRead, AnswerIsFresh, NEW c \in Reader, AskFor(c)
  PROVE  JoinsARunningRead' /\ AnswerIsFresh'
<1>1. PICK forced \in BOOLEAN :
        /\ caller[c].at = "idle"
        /\ past' = [past EXCEPT ![c] = PastFor(c, forced)]
        /\ \/ /\ ~forced /\ entry.live
              /\ caller' = [caller EXCEPT ![c] = [at |-> "answered", forced |-> forced, read |-> entry.read]]
              /\ UNCHANGED running
           \/ /\ Joins(forced)
              /\ caller' = [caller EXCEPT ![c] = [at |-> "joined", forced |-> forced, read |-> running]]
              /\ UNCHANGED running
           \/ /\ caller' = [caller EXCEPT ![c] = [at |-> "reading", forced |-> forced, read |-> c]]
              /\ running' = IF Shares(kind) THEN c ELSE NoRead
        /\ UNCHANGED <<kind, entry>>
  BY DEF AskFor
<1>2. PastFor(c, forced) \in SUBSET Reader
  BY DEF PastFor
<1>3. past' \in [Reader -> SUBSET Reader] /\ entry' = entry
      /\ \A d \in Reader : past'[d] = IF d = c THEN PastFor(c, forced) ELSE past[d]
  BY <1>1, <1>2 DEF JoinsARunningRead
<1>4. CASE /\ ~forced /\ entry.live
           /\ caller' = [caller EXCEPT ![c] = [at |-> "answered", forced |-> forced, read |-> entry.read]]
           /\ UNCHANGED running
  <2>1. entry.read \notin PastFor(c, forced)
    BY <1>4 DEF PastFor
  <2> QED
    BY <1>1, <1>3, <1>4, <2>1 DEF JoinsARunningRead, AnswerIsFresh
<1>5. CASE /\ Joins(forced)
           /\ caller' = [caller EXCEPT ![c] = [at |-> "joined", forced |-> forced, read |-> running]]
           /\ UNCHANGED running
  <2>1. running \notin PastFor(c, forced) /\ running # NoRead
    BY <1>5 DEF PastFor, Joins, JoinsARunningRead
  <2> QED
    BY <1>1, <1>3, <1>5, <2>1 DEF JoinsARunningRead, AnswerIsFresh
<1>6. CASE /\ caller' = [caller EXCEPT ![c] = [at |-> "reading", forced |-> forced, read |-> c]]
           /\ running' = IF Shares(kind) THEN c ELSE NoRead
  <2>1. c \notin PastFor(c, forced)
    BY DEF PastFor
  <2>2. running' \in {c, NoRead}
    BY <1>6
  <2> QED
    BY <1>1, <1>3, <1>6, <2>1, <2>2, ReadsAssumption DEF JoinsARunningRead, AnswerIsFresh
<1> QED
  BY <1>1, <1>4, <1>5, <1>6

\* The end of a read changes neither what a caller waits for nor what is past for it.
LEMMA HandOutStep ==
  ASSUME JoinsARunningRead, AnswerIsFresh, NEW c \in Reader,
         NEW how \in {"answered", "failed"}, HandOut(c, how), running' = NoRead, UNCHANGED past,
         entry' \in [read : Reader \cup {NoRead}, live : BOOLEAN]
  PROVE  JoinsARunningRead' /\ AnswerIsFresh'
<1>1. /\ caller' \in [Reader -> [at : {"idle", "reading", "joined", "answered", "failed"},
                                forced : BOOLEAN, read : Reader \cup {NoRead}]]
      /\ \A d \in Reader : caller'[d].read = caller[d].read
  BY DEF HandOut, JoinsARunningRead
<1> QED
  BY <1>1, ReadsAssumption DEF JoinsARunningRead, AnswerIsFresh

\* Whatever happens to a read, those who join it join one that runs, and fresh for them.
LEMMA ReadsStep ==
  JoinsARunningRead /\ AnswerIsFresh /\ [ReadsNext]_readsVars => JoinsARunningRead' /\ AnswerIsFresh'
<1> SUFFICES ASSUME JoinsARunningRead, AnswerIsFresh, [ReadsNext]_readsVars
             PROVE  JoinsARunningRead' /\ AnswerIsFresh'
  OBVIOUS
<1>1. ASSUME NEW c \in Reader, AskFor(c) PROVE JoinsARunningRead' /\ AnswerIsFresh'
  BY <1>1, AskForStep
<1>2. ASSUME NEW c \in Reader, ReadEnds(c) PROVE JoinsARunningRead' /\ AnswerIsFresh'
  BY <1>2, HandOutStep DEF ReadEnds, Clear
<1>3. ASSUME NEW c \in Reader, ReadFails(c) PROVE JoinsARunningRead' /\ AnswerIsFresh'
  BY <1>3, HandOutStep DEF ReadFails, Clear, JoinsARunningRead
<1>4. CASE Expire
  BY <1>4 DEF Expire, JoinsARunningRead, AnswerIsFresh
<1>5. CASE UNCHANGED readsVars
  BY <1>5 DEF readsVars, JoinsARunningRead, AnswerIsFresh
<1> QED
  BY <1>1, <1>2, <1>3, <1>4, <1>5 DEF ReadsNext

\* Nobody is given a read that was over when they called, unless it was cached, or one
\* begun before they called when they insisted (project-registry.ts:264).
THEOREM AnswerIsFreshTheorem == ReadsSpec => []AnswerIsFresh
<1>1. ReadsInit => JoinsARunningRead /\ AnswerIsFresh
  BY DEF ReadsInit, JoinsARunningRead, AnswerIsFresh
<1> QED
  BY <1>1, ReadsStep, PTL DEF ReadsSpec

-----------------------------------------------------------------------------
(* Sections that are kept.                                                 *)

AssemblyFields == {"at", "wants", "budget", "focus", "todo", "phase", "got"}

\* A request that was not made has nothing; health is asked for only where nothing is
\* fitted; and a section was made for at least the budget of the request.
Fits(local) ==
  /\ DOMAIN local = AssemblyFields
  /\ local.budget \in Nat
  /\ local.phase \in [Provider -> {"off", "probing", "fetching", "checking"}]
  /\ local.got = [p \in Provider |-> local.got[p]]
  /\ local.at = "idle" =>
       \A p \in Provider : local.phase[p] = "off" /\ local.got[p].how = "none"
  /\ local.wants = "context" =>
       \A p \in Provider : /\ local.phase[p] # "checking"
                           /\ local.got[p].how = "section" => local.got[p].made >= local.budget

AllFit ==
  /\ asm = [a \in Assembly |-> asm[a]]
  /\ \A a \in Assembly : Fits(asm[a])

\* A step of one request preserves it when the new locals fit.
LEMMA AssemblyStep ==
  ASSUME AllFit, NEW a \in Assembly, NEW local, asm' = [asm EXCEPT ![a] = local], Fits(local)
  PROVE  AllFit'
<1>1. \A b \in Assembly : asm'[b] = IF b = a THEN local ELSE asm[b]
  BY DEF AllFit
<1>2. asm' = [b \in Assembly |-> asm'[b]]
  BY DEF AllFit
<1>3. ASSUME NEW b \in Assembly PROVE Fits(asm'[b])
  <2>1. CASE b = a
    BY <1>1, <2>1
  <2>2. CASE b # a
    BY <1>1, <2>2 DEF AllFit
  <2> QED
    BY <2>1, <2>2
<1> QED
  BY <1>2, <1>3 DEF AllFit

\* What a provider did fits when the result does.
LEMMA BecameStep ==
  ASSUME AllFit, NEW a \in Assembly, NEW p \in Provider, asm[a].phase[p] # "off",
         NEW phase \in {"off", "fetching", "checking"}, NEW how, NEW made,
         Became(a, p, phase, [how |-> how, made |-> made]),
         asm[a].wants = "context" => phase # "checking" /\ (how = "section" => made >= asm[a].budget)
  PROVE  AllFit'
<1> DEFINE phases == [asm[a].phase EXCEPT ![p] = phase]
           gots   == [asm[a].got EXCEPT ![p] = [how |-> how, made |-> made]]
           local  == [asm[a] EXCEPT !.phase = phases, !.got = gots]
<1>1. asm' = [asm EXCEPT ![a] = local]
  BY DEF Became, AllFit
<1>2. Fits(asm[a]) /\ asm[a].at # "idle"
  BY DEF AllFit, Fits
<1>3. /\ phases \in [Provider -> {"off", "probing", "fetching", "checking"}]
      /\ \A q \in Provider : phases[q] = IF q = p THEN phase ELSE asm[a].phase[q]
  BY <1>2 DEF Fits
<1>4. /\ gots = [q \in Provider |-> gots[q]]
      /\ gots[p].how = how /\ gots[p].made = made
      /\ \A q \in Provider \ {p} : gots[q] = asm[a].got[q]
  BY <1>2 DEF Fits
<1> HIDE DEF phases, gots
<1>5. /\ DOMAIN local = AssemblyFields
      /\ local.at = asm[a].at /\ local.wants = asm[a].wants /\ local.budget = asm[a].budget
      /\ local.phase = phases /\ local.got = gots
  BY <1>2 DEF Fits, AssemblyFields
<1> HIDE DEF local
<1>6. ASSUME NEW q \in Provider, local.wants = "context"
      PROVE  local.phase[q] # "checking" /\ (local.got[q].how = "section" => local.got[q].made >= local.budget)
  <2>1. CASE q = p
    BY <1>3, <1>4, <1>5, <1>6, <2>1
  <2>2. CASE q # p
    BY <1>2, <1>3, <1>4, <1>5, <1>6, <2>2 DEF Fits
  <2> QED
    BY <2>1, <2>2
<1>7. Fits(local)
  BY <1>2, <1>3, <1>4, <1>5, <1>6 DEF Fits
<1> QED
  BY <1>1, <1>7, AssemblyStep

\* What a request begins with: for context a budget and a focus, for health nothing.
LEMMA AssembleMoves ==
  ASSUME AllFit, NEW a \in Assembly, Assemble(a)
  PROVE  \E local : /\ asm' = [asm EXCEPT ![a] = local] /\ DOMAIN local = AssemblyFields
                    /\ local.at = "gathering" /\ local.phase = asm[a].phase /\ local.got = asm[a].got
                    /\ \/ /\ local.wants = asm[a].wants
                          /\ local.budget \in TokenBudget /\ local.focus \in Focus
                       \/ /\ local.wants = "capabilities" /\ local.todo = Order
                          /\ local.budget = asm[a].budget
<1>1. DOMAIN asm[a] = AssemblyFields
  BY DEF AllFit, Fits
<1>2. CASE \E chosen \in SUBSET Provider, budget \in TokenBudget, focus \in Focus :
             asm' = [asm EXCEPT ![a] = [@ EXCEPT !.at = "gathering", !.budget = budget, !.focus = focus,
                       !.todo = SelectSeq(Order, LAMBDA p : p \in chosen)]]
  <2>1. PICK budget \in TokenBudget, focus \in Focus :
          \E todo : asm' = [asm EXCEPT ![a] = [asm[a] EXCEPT !.at = "gathering", !.budget = budget,
                                                             !.focus = focus, !.todo = todo]]
    BY <1>2 DEF AllFit
  <2> PICK todo :
          asm' = [asm EXCEPT ![a] = [asm[a] EXCEPT !.at = "gathering", !.budget = budget,
                                                   !.focus = focus, !.todo = todo]]
    BY <2>1
  <2> DEFINE local == [asm[a] EXCEPT !.at = "gathering", !.budget = budget, !.focus = focus, !.todo = todo]
  <2>2. /\ DOMAIN local = AssemblyFields /\ local.at = "gathering" /\ local.budget = budget
        /\ local.focus = focus /\ local.phase = asm[a].phase /\ local.got = asm[a].got
        /\ local.wants = asm[a].wants
    BY <1>1 DEF AssemblyFields
  <2>3. asm' = [asm EXCEPT ![a] = local]
    OBVIOUS
  <2> HIDE DEF local
  <2> QED
    BY <2>2, <2>3
<1>3. CASE asm' = [asm EXCEPT ![a] = [@ EXCEPT !.at = "gathering", !.wants = "capabilities", !.todo = Order]]
  <2> DEFINE local == [asm[a] EXCEPT !.at = "gathering", !.wants = "capabilities", !.todo = Order]
  <2>1. asm' = [asm EXCEPT ![a] = local]
    BY <1>3 DEF AllFit
  <2>2. /\ DOMAIN local = AssemblyFields /\ local.at = "gathering" /\ local.wants = "capabilities"
        /\ local.budget = asm[a].budget /\ local.phase = asm[a].phase /\ local.got = asm[a].got
        /\ local.todo = Order
    BY <1>1 DEF AssemblyFields
  <2> HIDE DEF local
  <2> QED
    BY <2>1, <2>2
<1> QED
  BY <1>2, <1>3 DEF Assemble

\* A request begins with nothing fetched.
LEMMA AssembleStep == ASSUME AllFit, NEW a \in Assembly, Assemble(a) PROVE AllFit'
<1>1. Fits(asm[a]) /\ asm[a].at = "idle"
  BY DEF AllFit, Assemble
<1>2. PICK local : /\ asm' = [asm EXCEPT ![a] = local] /\ DOMAIN local = AssemblyFields
                   /\ local.at = "gathering" /\ local.phase = asm[a].phase /\ local.got = asm[a].got
                   /\ \/ local.wants = asm[a].wants /\ local.budget \in TokenBudget
                      \/ local.wants = "capabilities" /\ local.budget = asm[a].budget
  BY AssembleMoves
<1>3. Fits(local)
  BY <1>1, <1>2, AssemblerAssumption DEF Fits
<1> QED
  BY <1>2, <1>3, AssemblyStep

\* What is taken from the cache was made for this budget or a larger one.
LEMMA BeginFits == ASSUME AllFit, NEW a \in Assembly, Begin(a) PROVE AllFit'
<1> DEFINE p == Head(asm[a].todo)
           rest == Tail(asm[a].todo)
<1>1. Fits(asm[a]) /\ asm[a].at = "gathering"
  BY DEF AllFit, Begin
<1>2. ASSUME NEW how, NEW made, asm[a].wants = "context",
             how = "section" => made >= asm[a].budget,
             asm' = [asm EXCEPT ![a] = [[asm[a] EXCEPT !.todo = rest] EXCEPT !.got[p] = [how |-> how, made |-> made]]]
      PROVE  AllFit'
  <2> DEFINE gots  == [asm[a].got EXCEPT ![p] = [how |-> how, made |-> made]]
             local == [asm[a] EXCEPT !.todo = rest, !.got = gots]
  <2>1. asm' = [asm EXCEPT ![a] = local]
    BY <1>1, <1>2 DEF Fits, AssemblyFields
  <2>2. /\ gots = [q \in Provider |-> gots[q]]
        /\ \A q \in Provider : IF q = p THEN gots[q].how = how /\ gots[q].made = made
                               ELSE gots[q] = asm[a].got[q]
    BY <1>1 DEF Fits
  <2> HIDE DEF gots, rest, p
  <2>3. /\ DOMAIN local = AssemblyFields
        /\ local.at = asm[a].at /\ local.wants = asm[a].wants /\ local.budget = asm[a].budget
        /\ local.phase = asm[a].phase /\ local.got = gots
    BY <1>1 DEF Fits, AssemblyFields
  <2> HIDE DEF local
  <2>4. Fits(local)
    BY <1>1, <1>2, <2>2, <2>3 DEF Fits
  <2> QED
    BY <2>1, <2>4, AssemblyStep
<1>3. CASE \E k \in 1..Len(sections) :
             /\ asm[a].wants = "context" /\ Serves(sections[k], asm[a].budget)
             /\ asm' = [asm EXCEPT ![a] = [[asm[a] EXCEPT !.todo = rest]
                          EXCEPT !.got[p] = [how |-> sections[k].how, made |-> sections[k].made]]]
  <2>1. PICK k \in 1..Len(sections) :
             /\ asm[a].wants = "context" /\ Serves(sections[k], asm[a].budget)
             /\ asm' = [asm EXCEPT ![a] = [[asm[a] EXCEPT !.todo = rest]
                          EXCEPT !.got[p] = [how |-> sections[k].how, made |-> sections[k].made]]]
    BY <1>3
  <2>2. sections[k].made >= asm[a].budget
    BY <2>1 DEF Serves
  <2> QED
    BY <1>2, <2>1, <2>2
<1>4. CASE /\ asm[a].wants = "context"
           /\ asm' = [asm EXCEPT ![a] = [[asm[a] EXCEPT !.todo = rest]
                        EXCEPT !.got[p] = [how |-> "empty", made |-> asm[a].budget]]]
  <2>1. "empty" # "section"
    OBVIOUS
  <2> HIDE DEF rest, p
  <2> QED
    BY <1>2, <1>4, <2>1
<1>5. CASE asm' = [asm EXCEPT ![a] = [[asm[a] EXCEPT !.todo = rest] EXCEPT !.phase[p] = "probing"]]
  <2> DEFINE phases == [asm[a].phase EXCEPT ![p] = "probing"]
             local  == [asm[a] EXCEPT !.todo = rest, !.phase = phases]
  <2>1. asm' = [asm EXCEPT ![a] = local]
    BY <1>1, <1>5 DEF Fits, AssemblyFields
  <2>2. /\ phases \in [Provider -> {"off", "probing", "fetching", "checking"}]
        /\ \A q \in Provider : phases[q] = IF q = p THEN "probing" ELSE asm[a].phase[q]
    BY <1>1 DEF Fits
  <2> HIDE DEF phases, rest, p
  <2>3. /\ DOMAIN local = AssemblyFields
        /\ local.at = asm[a].at /\ local.wants = asm[a].wants /\ local.budget = asm[a].budget
        /\ local.phase = phases /\ local.got = asm[a].got
    BY <1>1 DEF Fits, AssemblyFields
  <2> HIDE DEF local
  <2>4. Fits(local)
    BY <1>1, <2>2, <2>3 DEF Fits
  <2> QED
    BY <2>1, <2>4, AssemblyStep
<1> QED
  BY <1>3, <1>4, <1>5, Zenon DEF Begin

\* The answer whether a provider is there brings no section to a request for context.
LEMMA ProbedStep == ASSUME AllFit, NEW a \in Assembly, NEW p \in Provider, Probed(a, p) PROVE AllFit'
<1>1. asm[a].phase[p] # "off"
  BY DEF Probed
<1>2. CASE Became(a, p, "off", [how |-> "missing", made |-> 0])
  BY <1>1, <1>2, BecameStep
<1>3. CASE Became(a, p, "fetching", Nothing)
  BY <1>1, <1>3, BecameStep DEF Nothing
<1>4. CASE asm[a].wants = "capabilities" /\ Became(a, p, "checking", Nothing)
  BY <1>1, <1>4, BecameStep DEF Nothing
<1>5. CASE asm[a].wants = "capabilities" /\ Became(a, p, "off", [how |-> "section", made |-> 0])
  BY <1>1, <1>5, BecameStep
<1> QED
  BY <1>2, <1>3, <1>4, <1>5 DEF Probed

\* What a provider returns was made for the budget of the request; its health is not
\* asked for by a request for context.
LEMMA FetchedStep == ASSUME AllFit, NEW a \in Assembly, NEW p \in Provider, Fetched(a, p) PROVE AllFit'
<1>1. asm[a].phase[p] # "off" /\ Fits(asm[a])
  BY DEF Fetched, AllFit
<1>2. ASSUME NEW how \in {"section", "empty"}, Became(a, p, "off", [how |-> how, made |-> asm[a].budget])
      PROVE  AllFit'
  <2>1. asm[a].budget >= asm[a].budget
    BY <1>1 DEF Fits
  <2> QED
    BY <1>1, <1>2, <2>1, BecameStep
<1>3. CASE asm[a].phase[p] = "checking" /\ Became(a, p, "off", [how |-> "section", made |-> 0])
  <2>1. asm[a].wants # "context"
    BY <1>1, <1>3 DEF Fits
  <2> QED
    BY <1>1, <1>3, <2>1, BecameStep
<1>4. CASE Became(a, p, "off", [how |-> "missing", made |-> 0])
  BY <1>1, <1>4, BecameStep
<1> QED
  BY <1>2, <1>3, <1>4 DEF Fetched

\* Nothing of a provider that missed its deadline is kept.
LEMMA TimesOutStep == ASSUME AllFit, NEW a \in Assembly, NEW p \in Provider, TimesOut(a, p) PROVE AllFit'
  BY BecameStep DEF TimesOut, Timed

\* The end of a request changes none of its sections.
LEMMA SettledStep == ASSUME AllFit, NEW a \in Assembly, Settled(a) PROVE AllFit'
<1>1. Fits(asm[a]) /\ asm[a].at = "gathering"
  BY DEF AllFit, Settled
<1>2. asm' = [asm EXCEPT ![a] = [asm[a] EXCEPT !.at = "done"]]
  BY DEF AllFit, Settled
<1>3. Fits([asm[a] EXCEPT !.at = "done"])
  BY <1>1 DEF Fits, AssemblyFields
<1> QED
  BY <1>2, <1>3, AssemblyStep

\* Throughout, what a request has fits it.
LEMMA AllFitInvariant == AssemblerSpec => []AllFit
<1>1. AssemblerInit => AllFit
  <2>1. Fits(NotAsked)
    BY DEF Fits, NotAsked, Nothing, AssemblyFields
  <2> QED
    BY <2>1 DEF AssemblerInit, AllFit
<1>2. AllFit /\ [AssemblerNext]_assemblerVars => AllFit'
  <2> SUFFICES ASSUME AllFit, [AssemblerNext]_assemblerVars PROVE AllFit'
    OBVIOUS
  <2>1. ASSUME NEW a \in Assembly, Assemble(a) PROVE AllFit'
    BY <2>1, AssembleStep
  <2>2. ASSUME NEW a \in Assembly, Begin(a) PROVE AllFit'
    BY <2>2, BeginFits
  <2>3. ASSUME NEW a \in Assembly, Settled(a) PROVE AllFit'
    BY <2>3, SettledStep
  <2>4. ASSUME NEW a \in Assembly, NEW p \in Provider, Probed(a, p) PROVE AllFit'
    BY <2>4, ProbedStep
  <2>5. ASSUME NEW a \in Assembly, NEW p \in Provider, Fetched(a, p) PROVE AllFit'
    BY <2>5, FetchedStep
  <2>6. ASSUME NEW a \in Assembly, NEW p \in Provider, TimesOut(a, p) PROVE AllFit'
    BY <2>6, TimesOutStep
  <2>7. CASE UNCHANGED asm
    BY <2>7 DEF AllFit, Fits
  <2> QED
    BY <2>1, <2>2, <2>3, <2>4, <2>5, <2>6, <2>7 DEF AssemblerNext, SectionExpires, assemblerVars
<1> QED
  BY <1>1, <1>2, PTL DEF AssemblerSpec

\* A section is never one that a provider shortened for a smaller budget than the
\* request has, whatever the requests that filled the cache had (assembler.ts:299).
THEOREM NeverServedUpTheorem == AssemblerSpec => []NeverServedUp
<1>1. AllFit => NeverServedUp
  BY DEF AllFit, Fits, NeverServedUp
<1> QED
  BY <1>1, AllFitInvariant, PTL

-----------------------------------------------------------------------------
(* How many providers are asked at once, and how much is kept.             *)

Phase == {"off", "probing", "fetching", "checking"}

Asked(phases) == {p \in Provider : phases[p] # "off"}

\* A request asks no more providers at once than it may, and fetches only for context.
Pooled(local) ==
  /\ local.at \in {"idle", "gathering", "done"} /\ local.wants \in {"context", "capabilities"}
  /\ local.budget \in TokenBudget \cup {0}
  /\ local.at # "idle" /\ local.wants = "context" => local.budget \in TokenBudget /\ local.focus \in Focus
  /\ \A p \in Provider : local.phase[p] = "fetching" => local.wants = "context"
  /\ IsFiniteSet(Asked(local.phase)) /\ Cardinality(Asked(local.phase)) <= Concurrency

\* What is kept: sections made for a budget, up to a number of them.
Stock == [key : Provider \X Focus, how : {"section", "empty"}, made : TokenBudget]

StockInv == sections \in Seq(Stock) /\ Len(sections) <= CacheLimit

PoolInv == AllFit /\ StockInv /\ \A a \in Assembly : Pooled(asm[a])

\* A step of one request after which it asks no more providers, or one of its few.
LEMMA PooledRequest ==
  ASSUME PoolInv, NEW a \in Assembly, NEW local, asm' = [asm EXCEPT ![a] = local], Pooled(local)
  PROVE  \A b \in Assembly : Pooled(asm'[b])
<1>1. \A b \in Assembly : asm'[b] = IF b = a THEN local ELSE asm[b]
  BY DEF PoolInv, AllFit
<1>2. ASSUME NEW b \in Assembly PROVE Pooled(asm'[b])
  <2>1. CASE b = a
    BY <1>1, <2>1
  <2>2. CASE b # a
    BY <1>1, <2>2 DEF PoolInv
  <2> QED
    BY <2>1, <2>2
<1> QED
  BY <1>2

\* Fewer providers, or one more when there is room for it.
LEMMA AskedProperties ==
  ASSUME NEW phases, IsFiniteSet(Asked(phases)), Cardinality(Asked(phases)) <= Concurrency,
         NEW after, NEW p,
         \/ Asked(after) \subseteq Asked(phases)
         \/ Asked(after) \subseteq Asked(phases) \cup {p} /\ Cardinality(Asked(phases)) < Concurrency
  PROVE  IsFiniteSet(Asked(after)) /\ Cardinality(Asked(after)) <= Concurrency
<1> DEFINE A == Asked(phases)  B == Asked(after)
<1> HIDE DEF A, B
<1>1. IsFiniteSet(A) /\ IsFiniteSet(A \cup {p}) /\ Cardinality(A) \in Nat /\ Cardinality(A \cup {p}) \in Nat
      /\ Cardinality(A \cup {p}) <= Cardinality(A) + 1 /\ Concurrency \in Nat
  <2>1. IsFiniteSet(A)
    BY DEF A
  <2>2. IsFiniteSet(A \cup {p}) /\ Cardinality(A \cup {p}) \in {Cardinality(A), Cardinality(A) + 1}
    BY <2>1, FS_AddElement
  <2>3. Cardinality(A) \in Nat /\ Cardinality(A \cup {p}) \in Nat
    BY <2>1, <2>2, FS_CardinalityType
  <2> QED
    BY <2>1, <2>2, <2>3, AssemblerAssumption
<1>2. CASE B \subseteq A
  <2>1. IsFiniteSet(B) /\ Cardinality(B) <= Cardinality(A) /\ Cardinality(B) \in Nat
    BY <1>1, <1>2, FS_Subset, FS_CardinalityType
  <2> QED
    BY <1>1, <2>1 DEF A, B
<1>3. CASE B \subseteq A \cup {p} /\ Cardinality(A) < Concurrency
  <2>1. IsFiniteSet(B) /\ Cardinality(B) <= Cardinality(A \cup {p}) /\ Cardinality(B) \in Nat
    BY <1>1, <1>3, FS_Subset, FS_CardinalityType
  <2> QED
    BY <1>1, <1>3, <2>1 DEF A, B
<1> QED
  BY <1>2, <1>3 DEF A, B

\* What a provider did makes room for another, or none.
LEMMA BecamePooled ==
  ASSUME PoolInv, NEW a \in Assembly, NEW p \in Provider, asm[a].phase[p] # "off", NEW phase, NEW result,
         Became(a, p, phase, result), phase = "fetching" => asm[a].wants = "context"
  PROVE  \A b \in Assembly : Pooled(asm'[b])
<1> DEFINE phases == [asm[a].phase EXCEPT ![p] = phase]
           gots   == [asm[a].got EXCEPT ![p] = result]
           local  == [asm[a] EXCEPT !.phase = phases, !.got = gots]
<1>1. asm' = [asm EXCEPT ![a] = local]
  BY DEF Became, PoolInv, AllFit
<1>2. Fits(asm[a]) /\ Pooled(asm[a])
  BY DEF PoolInv, AllFit
<1>3. phases[p] = phase /\ \A q \in Provider : q # p => phases[q] = asm[a].phase[q]
  BY <1>2 DEF Fits
<1> HIDE DEF phases, gots
<1>4. /\ local.at = asm[a].at /\ local.wants = asm[a].wants /\ local.budget = asm[a].budget
      /\ local.focus = asm[a].focus /\ local.phase = phases
  BY <1>2 DEF Fits, AssemblyFields
<1> HIDE DEF local
<1>5. Asked(phases) \subseteq Asked(asm[a].phase)
  BY <1>3 DEF Asked
<1>6. IsFiniteSet(Asked(phases)) /\ Cardinality(Asked(phases)) <= Concurrency
  BY <1>2, <1>5, AskedProperties DEF Pooled
<1>7. \A q \in Provider : local.phase[q] = "fetching" => local.wants = "context"
  BY <1>2, <1>3, <1>4 DEF Pooled
<1>8. Pooled(local)
  BY <1>2, <1>4, <1>6, <1>7 DEF Pooled
<1> QED
  BY <1>1, <1>8, PooledRequest

\* The beginning and the end of a request ask nobody.
LEMMA EdgesPooled ==
  ASSUME PoolInv, NEW a \in Assembly, Assemble(a) \/ Settled(a)
  PROVE  \A b \in Assembly : Pooled(asm'[b])
<1>1. Fits(asm[a]) /\ Pooled(asm[a])
  BY DEF PoolInv, AllFit
<1>2. ASSUME NEW local, asm' = [asm EXCEPT ![a] = local], local.phase = asm[a].phase,
             local.at \in {"gathering", "done"}, local.wants \in {"context", "capabilities"},
             local.budget \in TokenBudget \cup {0},
             \A p \in Provider : local.phase[p] = "fetching" => local.wants = "context",
             local.wants = "context" => local.budget \in TokenBudget /\ local.focus \in Focus
      PROVE  \A b \in Assembly : Pooled(asm'[b])
  <2>1. Pooled(local)
    BY <1>1, <1>2 DEF Pooled
  <2> QED
    BY <1>2, <2>1, PooledRequest
<1>3. CASE Assemble(a)
  <2>1. PICK local : /\ asm' = [asm EXCEPT ![a] = local]
                     /\ local.at = "gathering" /\ local.phase = asm[a].phase
                     /\ \/ /\ local.wants = asm[a].wants
                           /\ local.budget \in TokenBudget /\ local.focus \in Focus
                        \/ local.wants = "capabilities" /\ local.budget = asm[a].budget
    BY <1>3, AssembleMoves DEF PoolInv
  <2>2. \A p \in Provider : local.phase[p] = "off"
    BY <1>1, <1>3, <2>1 DEF Assemble, Fits
  <2>3. /\ local.at \in {"gathering", "done"} /\ local.wants \in {"context", "capabilities"}
        /\ local.budget \in TokenBudget \cup {0}
        /\ \A p \in Provider : local.phase[p] = "fetching" => local.wants = "context"
        /\ local.wants = "context" => local.budget \in TokenBudget /\ local.focus \in Focus
    BY <1>1, <1>3, <2>1, <2>2 DEF Pooled, Assemble
  <2> QED
    BY <1>2, <2>1, <2>3
<1>4. CASE Settled(a)
  <2> DEFINE local == [asm[a] EXCEPT !.at = "done"]
  <2>1. asm' = [asm EXCEPT ![a] = local] /\ asm[a].at = "gathering"
    BY <1>4 DEF Settled, PoolInv, AllFit
  <2>2. /\ local.at = "done" /\ local.wants = asm[a].wants /\ local.budget = asm[a].budget
        /\ local.phase = asm[a].phase /\ local.focus = asm[a].focus
    BY <1>1 DEF Fits, AssemblyFields
  <2> HIDE DEF local
  <2>3. /\ asm[a].wants \in {"context", "capabilities"} /\ asm[a].budget \in TokenBudget \cup {0}
        /\ \A p \in Provider : asm[a].phase[p] = "fetching" => asm[a].wants = "context"
        /\ asm[a].wants = "context" => asm[a].budget \in TokenBudget /\ asm[a].focus \in Focus
    BY <1>1, <2>1 DEF Pooled
  <2>4. /\ local.at \in {"gathering", "done"} /\ local.wants \in {"context", "capabilities"}
        /\ local.budget \in TokenBudget \cup {0}
    BY <2>2, <2>3
  <2>5. \A p \in Provider : local.phase[p] = "fetching" => local.wants = "context"
    BY <2>2, <2>3
  <2>6. local.wants = "context" => local.budget \in TokenBudget /\ local.focus \in Focus
    BY <2>2, <2>3
  <2> QED
    BY <1>2, <2>1, <2>2, <2>4, <2>5, <2>6
<1> QED
  BY <1>3, <1>4

\* A provider is asked only when there is room for it; from the cache it takes none.
LEMMA BeginPooled == ASSUME PoolInv, NEW a \in Assembly, Begin(a) PROVE \A b \in Assembly : Pooled(asm'[b])
<1> DEFINE p == Head(asm[a].todo)
           rest == Tail(asm[a].todo)
<1>1. /\ Fits(asm[a]) /\ Pooled(asm[a]) /\ asm[a].at = "gathering"
      /\ Cardinality(Asked(asm[a].phase)) < Concurrency
  BY DEF PoolInv, AllFit, Begin, Active, Asked
<1>2. ASSUME NEW result,
             asm' = [asm EXCEPT ![a] = [[asm[a] EXCEPT !.todo = rest] EXCEPT !.got[p] = result]]
      PROVE  \A b \in Assembly : Pooled(asm'[b])
  <2> DEFINE gots  == [asm[a].got EXCEPT ![p] = result]
             local == [asm[a] EXCEPT !.todo = rest, !.got = gots]
  <2>1. asm' = [asm EXCEPT ![a] = local]
    BY <1>1, <1>2 DEF Fits, AssemblyFields
  <2> HIDE DEF gots, rest, p
  <2>2. /\ local.at = asm[a].at /\ local.wants = asm[a].wants /\ local.budget = asm[a].budget
        /\ local.phase = asm[a].phase /\ local.focus = asm[a].focus
    BY <1>1 DEF Fits, AssemblyFields
  <2> HIDE DEF local
  <2>3. Pooled(local)
    BY <1>1, <2>2 DEF Pooled
  <2> QED
    BY <2>1, <2>3, PooledRequest
<1>3. CASE asm' = [asm EXCEPT ![a] = [[asm[a] EXCEPT !.todo = rest] EXCEPT !.phase[p] = "probing"]]
  <2> DEFINE phases == [asm[a].phase EXCEPT ![p] = "probing"]
             local  == [asm[a] EXCEPT !.todo = rest, !.phase = phases]
  <2>1. asm' = [asm EXCEPT ![a] = local]
    BY <1>1, <1>3 DEF Fits, AssemblyFields
  <2>2. \A q \in Provider : IF q = p THEN phases[q] = "probing" ELSE phases[q] = asm[a].phase[q]
    BY <1>1 DEF Fits
  <2> HIDE DEF phases, rest, p
  <2>3. Asked(phases) \subseteq Asked(asm[a].phase) \cup {p}
    BY <2>2 DEF Asked
  <2>4. IsFiniteSet(Asked(phases)) /\ Cardinality(Asked(phases)) <= Concurrency
    BY <1>1, <2>3, AskedProperties DEF Pooled
  <2>5. /\ local.at = asm[a].at /\ local.wants = asm[a].wants /\ local.budget = asm[a].budget
        /\ local.phase = phases /\ local.focus = asm[a].focus
    BY <1>1 DEF Fits, AssemblyFields
  <2> HIDE DEF local
  <2>6. \A q \in Provider : local.phase[q] = "fetching" => local.wants = "context"
    BY <1>1, <2>2, <2>5 DEF Pooled
  <2>7. Pooled(local)
    BY <1>1, <2>4, <2>5, <2>6 DEF Pooled
  <2> QED
    BY <2>1, <2>7, PooledRequest
<1>4. \/ \E result : asm' = [asm EXCEPT ![a] = [[asm[a] EXCEPT !.todo = rest] EXCEPT !.got[p] = result]]
      \/ asm' = [asm EXCEPT ![a] = [[asm[a] EXCEPT !.todo = rest] EXCEPT !.phase[p] = "probing"]]
  BY Zenon DEF Begin
<1> HIDE DEF p, rest
<1> QED
  BY <1>2, <1>3, <1>4

-----------------------------------------------------------------------------
\* What is kept stays within the limit: the oldest section goes when a new one comes.
LEMMA StoredStep ==
  ASSUME StockInv, NEW e \in Stock
  PROVE  Stored(e) \in Seq(Stock) /\ Len(Stored(e)) <= CacheLimit
<1> DEFINE at  == {k \in 1..Len(sections) : sections[k].key = e.key}
           all == IF at = {} THEN Append(sections, e) ELSE [sections EXCEPT ![CHOOSE k \in at : TRUE] = e]
<1>1. sections \in Seq(Stock) /\ Len(sections) \in Nat /\ Len(sections) <= CacheLimit /\ CacheLimit \in Nat \ {0}
  BY AssemblerAssumption DEF StockInv
<1>2. all \in Seq(Stock) /\ Len(all) \in {Len(sections), Len(sections) + 1}
  <2>1. CASE at = {}
    BY <1>1, <2>1
  <2>2. CASE at # {}
    <3> DEFINE k == CHOOSE k \in at : TRUE
    <3>1. k \in 1..Len(sections)
      BY <2>2
    <3> HIDE DEF k
    <3>2. [sections EXCEPT ![k] = e] \in Seq(Stock) /\ Len([sections EXCEPT ![k] = e]) = Len(sections)
      BY <1>1, <3>1
    <3> QED
      BY <2>2, <3>2 DEF k
  <2> QED
    BY <2>1, <2>2
<1>3. Stored(e) = IF Len(all) > CacheLimit THEN Tail(all) ELSE all
  BY DEF Stored
<1> HIDE DEF all, at
<1>4. CASE Len(all) > CacheLimit
  <2>1. Len(all) \in Nat /\ Len(all) > 0 /\ Len(all) - 1 <= CacheLimit
    BY <1>1, <1>2, <1>4
  <2>2. all # <<>>
    BY <2>1, EmptySeq
  <2>3. Tail(all) \in Seq(Stock) /\ Len(Tail(all)) = Len(all) - 1
    BY <1>2, <2>2, HeadTailProperties
  <2>4. Stored(e) = Tail(all)
    BY <1>3, <1>4
  <2> QED
    BY <2>1, <2>3, <2>4
<1>5. CASE ~(Len(all) > CacheLimit)
  <2>1. Len(all) \in Nat
    BY <1>2
  <2> QED
    BY <1>1, <1>2, <1>3, <1>5, <2>1
<1> QED
  BY <1>4, <1>5

\* An entry that expires leaves one less.
LEMMA ExpiredStep == ASSUME StockInv, NEW k, SectionExpires(k) PROVE StockInv'
<1> DEFINE front == SubSeq(sections, 1, k - 1)  back == SubSeq(sections, k + 1, Len(sections))
<1>1. /\ sections \in Seq(Stock) /\ Len(sections) \in Nat /\ Len(sections) <= CacheLimit /\ CacheLimit \in Nat
      /\ k \in 1..Len(sections) /\ \A i \in 1..Len(sections) : sections[i] \in Stock
  BY AssemblerAssumption DEF StockInv, SectionExpires
<1>2. front \in Seq(Stock) /\ Len(front) = k - 1
  BY <1>1, SubSeqProperties
<1>3. back \in Seq(Stock) /\ Len(back) = Len(sections) - k
  BY <1>1, SubSeqProperties
<1>4. sections' = front \o back
  BY DEF SectionExpires, RemoveAt
<1> HIDE DEF front, back
<1>5. front \o back \in Seq(Stock) /\ Len(front \o back) = Len(front) + Len(back)
  BY <1>2, <1>3, ConcatProperties
<1>6. Len(front \o back) <= CacheLimit
  BY <1>1, <1>2, <1>3, <1>5
<1> QED
  BY <1>4, <1>5, <1>6 DEF StockInv

\* What is kept of an answer was made for a budget.
LEMMA KeptStep == ASSUME PoolInv, NEW a \in Assembly, NEW p \in Provider, Fetched(a, p) PROVE StockInv'
<1>1. StockInv /\ Pooled(asm[a]) /\ Fits(asm[a])
  BY DEF PoolInv, AllFit
<1>2. CASE UNCHANGED sections
  BY <1>1, <1>2 DEF StockInv
<1>3. ASSUME NEW how \in {"section", "empty"}, asm[a].phase[p] = "fetching", asm[a].wants = "context",
             sections' = Stored([key |-> <<p, asm[a].focus>>, how |-> how, made |-> asm[a].budget])
      PROVE  StockInv'
  <2> DEFINE e == [key |-> <<p, asm[a].focus>>, how |-> how, made |-> asm[a].budget]
  <2>1. asm[a].at # "idle"
    BY <1>1, <1>3 DEF Fits
  <2>2. e \in Stock /\ sections' = Stored(e)
    BY <1>1, <1>3, <2>1 DEF Pooled, Stock
  <2> HIDE DEF e
  <2>3. Stored(e) \in Seq(Stock) /\ Len(Stored(e)) <= CacheLimit
    BY <1>1, <2>2, StoredStep
  <2> QED
    BY <2>2, <2>3 DEF StockInv
<1>4. asm[a].phase[p] = "fetching" => asm[a].wants = "context"
  BY <1>1 DEF Pooled
<1>5. \/ UNCHANGED sections
      \/ /\ asm[a].phase[p] = "fetching"
         /\ \E how \in {"section", "empty"} :
              sections' = Stored([key |-> <<p, asm[a].focus>>, how |-> how, made |-> asm[a].budget])
  BY DEF Fetched
<1> QED
  BY <1>2, <1>3, <1>4, <1>5

\* Whatever a request or a deadline does, no request asks too many and no more is kept.
LEMMA PoolStep == PoolInv /\ [AssemblerNext]_assemblerVars => PoolInv'
<1> SUFFICES ASSUME PoolInv, [AssemblerNext]_assemblerVars PROVE PoolInv'
  OBVIOUS
<1>0. AllFit /\ StockInv
  BY DEF PoolInv
<1>1. ASSUME UNCHANGED sections PROVE StockInv'
  BY <1>0, <1>1 DEF StockInv
<1>2. ASSUME NEW a \in Assembly, Assemble(a) PROVE PoolInv'
  <2>1. AllFit' /\ StockInv'
    BY <1>0, <1>1, <1>2, AssembleStep DEF Assemble
  <2>2. \A b \in Assembly : Pooled(asm'[b])
    BY <1>2, EdgesPooled
  <2> QED
    BY <2>1, <2>2 DEF PoolInv
<1>3. ASSUME NEW a \in Assembly, Begin(a) PROVE PoolInv'
  <2>1. AllFit' /\ StockInv'
    BY <1>0, <1>1, <1>3, BeginFits DEF Begin
  <2>2. \A b \in Assembly : Pooled(asm'[b])
    BY <1>3, BeginPooled
  <2> QED
    BY <2>1, <2>2 DEF PoolInv
<1>4. ASSUME NEW a \in Assembly, Settled(a) PROVE PoolInv'
  <2>1. AllFit' /\ StockInv'
    BY <1>0, <1>1, <1>4, SettledStep DEF Settled
  <2>2. \A b \in Assembly : Pooled(asm'[b])
    BY <1>4, EdgesPooled
  <2> QED
    BY <2>1, <2>2 DEF PoolInv
<1>5. ASSUME NEW a \in Assembly, NEW p \in Provider, Probed(a, p) PROVE PoolInv'
  <2>1. AllFit' /\ StockInv'
    BY <1>0, <1>1, <1>5, ProbedStep DEF Probed
  <2>2. asm[a].phase[p] # "off"
    BY <1>5 DEF Probed
  <2>3. \E phase, result : Became(a, p, phase, result) /\ (phase = "fetching" => asm[a].wants = "context")
    BY <1>5 DEF Probed
  <2>4. \A b \in Assembly : Pooled(asm'[b])
    BY <2>2, <2>3, BecamePooled
  <2> QED
    BY <2>1, <2>4 DEF PoolInv
<1>6. ASSUME NEW a \in Assembly, NEW p \in Provider, Fetched(a, p) PROVE PoolInv'
  <2>1. AllFit' /\ StockInv'
    BY <1>0, <1>6, FetchedStep, KeptStep
  <2>2. asm[a].phase[p] # "off"
    BY <1>6 DEF Fetched
  <2>3. \E result : Became(a, p, "off", result)
    BY <1>6 DEF Fetched
  <2>4. \A b \in Assembly : Pooled(asm'[b])
    BY <2>2, <2>3, BecamePooled
  <2> QED
    BY <2>1, <2>4 DEF PoolInv
<1>7. ASSUME NEW a \in Assembly, NEW p \in Provider, TimesOut(a, p) PROVE PoolInv'
  <2>1. AllFit' /\ StockInv'
    BY <1>0, <1>1, <1>7, TimesOutStep DEF TimesOut
  <2>2. asm[a].phase[p] # "off" /\ Became(a, p, "off", [how |-> "missing", made |-> 0])
    BY <1>7 DEF TimesOut, Timed
  <2>3. \A b \in Assembly : Pooled(asm'[b])
    BY <2>2, BecamePooled
  <2> QED
    BY <2>1, <2>3 DEF PoolInv
<1>8. ASSUME NEW k, SectionExpires(k) PROVE PoolInv'
  <2>1. StockInv' /\ asm' = asm
    BY <1>0, <1>8, ExpiredStep DEF SectionExpires
  <2> QED
    BY <2>1 DEF PoolInv, AllFit, Fits, Pooled
<1>9. CASE UNCHANGED assemblerVars
  BY <1>9 DEF assemblerVars, PoolInv, AllFit, Fits, Pooled, StockInv
<1> QED
  BY <1>2, <1>3, <1>4, <1>5, <1>6, <1>7, <1>8, <1>9 DEF AssemblerNext

\* However many requests overlap and whenever their providers answer or do not, none
\* asks more of them at once than retrievalConcurrency, and no more sections are kept
\* than the cache may hold (assembler.ts:256-267 and 364).
THEOREM AssemblerTypes == AssemblerSpec => []AssemblerTypeOK
<1>1. AssemblerInit => PoolInv
  <2> SUFFICES ASSUME AssemblerInit PROVE PoolInv
    OBVIOUS
  <2>1. Fits(NotAsked)
    BY DEF Fits, NotAsked, Nothing, AssemblyFields
  <2>2. Asked(NotAsked.phase) = {}
    BY DEF Asked, NotAsked
  <2>3. IsFiniteSet(Asked(NotAsked.phase)) /\ Cardinality(Asked(NotAsked.phase)) = 0
    BY <2>2, FS_EmptySet
  <2>4. /\ NotAsked.at = "idle" /\ NotAsked.wants = "context" /\ NotAsked.budget = 0
        /\ \A p \in Provider : NotAsked.phase[p] = "off"
    BY DEF NotAsked
  <2>5. Concurrency \in Nat /\ CacheLimit \in Nat
    BY AssemblerAssumption
  <2>6. Pooled(NotAsked)
    BY <2>3, <2>4, <2>5 DEF Pooled
  <2>7. StockInv
    BY <2>5 DEF StockInv, AssemblerInit
  <2>8. asm = [a \in Assembly |-> NotAsked]
    BY DEF AssemblerInit
  <2> HIDE DEF NotAsked
  <2> QED
    BY <2>1, <2>6, <2>7, <2>8 DEF PoolInv, AllFit
<1>2. PoolInv => AssemblerTypeOK
  <2> SUFFICES ASSUME PoolInv PROVE AssemblerTypeOK
    OBVIOUS
  <2>1. ASSUME NEW a \in Assembly
        PROVE  /\ asm[a].at \in {"idle", "gathering", "done"}
               /\ asm[a].wants \in {"context", "capabilities"}
               /\ asm[a].budget \in TokenBudget \cup {0}
               /\ asm[a].phase \in [Provider -> {"off", "probing", "fetching", "checking"}]
               /\ Cardinality(Active(a)) <= Concurrency
    <3>1. Fits(asm[a]) /\ Pooled(asm[a]) /\ Active(a) = Asked(asm[a].phase)
      BY DEF PoolInv, AllFit, Active, Asked
    <3> QED
      BY <3>1 DEF Fits, Pooled
  <2>2. /\ Len(sections) <= CacheLimit
        /\ \A k \in 1..Len(sections) : sections[k] \in Stock
    BY DEF PoolInv, StockInv
  <2> QED
    BY <2>1, <2>2 DEF AssemblerTypeOK, Stock
<1> QED
  BY <1>1, <1>2, PoolStep, PTL DEF AssemblerSpec

-----------------------------------------------------------------------------
(* Who is heard before a request is over.                                  *)

\* A request is not over while a provider is still asked, so no answer that comes late
\* changes the result; and a list of capabilities has every provider in it, whether it
\* answered, failed, was cut off or had to wait for its turn (assembler.ts:267).
EveryoneReported ==
  \A a \in Assembly, p \in Provider : asm[a].at = "done" =>
    /\ asm[a].phase[p] = "off"
    /\ asm[a].wants = "capabilities" => asm[a].got[p].how # "none"

\* Where health is asked for every provider waits for its turn, is being asked or was
\* heard; and a request that is over waits for nobody.
Heard(local) ==
  /\ local.at = "idle" => local.wants = "context"
  /\ local.wants = "capabilities" =>
       /\ local.todo \in Seq(Provider)
       /\ \A p \in Provider : \/ p \in Range(local.todo)
                              \/ local.phase[p] # "off" \/ local.got[p].how # "none"
  /\ local.at = "done" => local.todo = <<>> /\ \A p \in Provider : local.phase[p] = "off"

AllHeard == \A a \in Assembly : Heard(asm[a])

\* A step of one request leaves the others as they are.
LEMMA HeardRequest ==
  ASSUME AllFit, AllHeard, NEW a \in Assembly, NEW local, asm' = [asm EXCEPT ![a] = local], Heard(local)
  PROVE  AllHeard'
<1>1. \A b \in Assembly : asm'[b] = IF b = a THEN local ELSE asm[b]
  BY DEF AllFit
<1>2. ASSUME NEW b \in Assembly PROVE Heard(asm'[b])
  <2>1. CASE b = a
    BY <1>1, <2>1
  <2>2. CASE b # a
    BY <1>1, <2>2 DEF AllHeard
  <2> QED
    BY <2>1, <2>2
<1> QED
  BY <1>2 DEF AllHeard

\* A provider that is no longer asked has been heard, if only of its deadline.
LEMMA BecameHeard ==
  ASSUME AllFit, AllHeard, NEW a \in Assembly, NEW p \in Provider, asm[a].phase[p] # "off",
         NEW phase, NEW result, Became(a, p, phase, result), phase # "off" \/ result.how # "none"
  PROVE  AllHeard'
<1> DEFINE phases == [asm[a].phase EXCEPT ![p] = phase]
           gots   == [asm[a].got EXCEPT ![p] = result]
           local  == [asm[a] EXCEPT !.phase = phases, !.got = gots]
<1>1. asm' = [asm EXCEPT ![a] = local]
  BY DEF Became, AllFit
<1>2. Fits(asm[a]) /\ Heard(asm[a]) /\ asm[a].at # "idle" /\ asm[a].at # "done"
  BY DEF AllFit, AllHeard, Fits, Heard
<1>3. /\ phases[p] = phase /\ gots[p] = result
      /\ \A q \in Provider \ {p} : phases[q] = asm[a].phase[q] /\ gots[q] = asm[a].got[q]
  BY <1>2 DEF Fits
<1> HIDE DEF phases, gots
<1>4. /\ local.at = asm[a].at /\ local.wants = asm[a].wants /\ local.todo = asm[a].todo
      /\ local.phase = phases /\ local.got = gots
  BY <1>2 DEF Fits, AssemblyFields
<1> HIDE DEF local
<1>5. Heard(local)
  BY <1>2, <1>3, <1>4 DEF Heard
<1> QED
  BY <1>1, <1>5, HeardRequest

\* Who leaves the queue is asked.
LEMMA BeginHeard == ASSUME AllFit, AllHeard, NEW a \in Assembly, Begin(a) PROVE AllHeard'
<1> DEFINE p == Head(asm[a].todo)
           rest == Tail(asm[a].todo)
<1>1. Fits(asm[a]) /\ Heard(asm[a]) /\ asm[a].at = "gathering" /\ asm[a].todo # <<>>
  BY DEF AllFit, AllHeard, Begin
<1>2. ASSUME NEW result, asm[a].wants = "context",
             asm' = [asm EXCEPT ![a] = [[asm[a] EXCEPT !.todo = rest] EXCEPT !.got[p] = result]]
      PROVE  AllHeard'
  <2> DEFINE local == [[asm[a] EXCEPT !.todo = rest] EXCEPT !.got[p] = result]
  <2>1. local.at = "gathering" /\ local.wants = "context"
    BY <1>1, <1>2 DEF Fits, AssemblyFields
  <2>2. asm' = [asm EXCEPT ![a] = local]
    BY <1>2
  <2> HIDE DEF local
  <2>3. Heard(local)
    BY <2>1 DEF Heard
  <2> QED
    BY <2>2, <2>3, HeardRequest
<1>3. CASE asm' = [asm EXCEPT ![a] = [[asm[a] EXCEPT !.todo = rest] EXCEPT !.phase[p] = "probing"]]
  <2> DEFINE phases == [asm[a].phase EXCEPT ![p] = "probing"]
             local  == [asm[a] EXCEPT !.todo = rest, !.phase = phases]
  <2>1. asm' = [asm EXCEPT ![a] = local]
    BY <1>1, <1>3 DEF Fits, AssemblyFields
  <2>2. \A q \in Provider : phases[q] = IF q = p THEN "probing" ELSE asm[a].phase[q]
    BY <1>1 DEF Fits
  <2>3. ASSUME asm[a].wants = "capabilities"
        PROVE  /\ rest \in Seq(Provider)
               /\ \A q \in Provider : q \in Range(asm[a].todo) => q = p \/ q \in Range(rest)
    <3> DEFINE queue == asm[a].todo
    <3>1. queue \in Seq(Provider) /\ queue # <<>>
      BY <1>1, <2>3 DEF Heard
    <3> HIDE DEF queue
    <3>2. /\ Tail(queue) \in Seq(Provider) /\ Len(Tail(queue)) = Len(queue) - 1 /\ Head(queue) = queue[1]
          /\ \A i \in 1..Len(Tail(queue)) : Tail(queue)[i] = queue[i + 1]
      BY <3>1, HeadTailProperties
    <3>3. ASSUME NEW q \in Range(queue) PROVE q = Head(queue) \/ q \in Range(Tail(queue))
      <4>1. PICK k \in 1..Len(queue) : queue[k] = q
        BY <3>1 DEF Range
      <4>2. CASE k = 1
        BY <3>2, <4>1, <4>2
      <4>3. CASE k # 1
        <5>1. k - 1 \in 1..Len(Tail(queue)) /\ (k - 1) + 1 = k
          BY <3>1, <3>2, <4>1, <4>3
        <5> DEFINE others == Tail(queue)  i == k - 1
        <5>2. DOMAIN others = 1..Len(others) /\ i \in 1..Len(others) /\ others[i] = q
          BY <3>2, <4>1, <5>1
        <5> HIDE DEF others, i
        <5>3. q \in Range(others)
          BY <5>2 DEF Range
        <5> QED
          BY <5>3 DEF others
      <4> QED
        BY <4>2, <4>3
    <3> QED
      BY <3>2, <3>3 DEF queue
  <2> HIDE DEF phases, rest, p
  <2>4. /\ local.at = asm[a].at /\ local.wants = asm[a].wants /\ local.todo = rest
        /\ local.phase = phases /\ local.got = asm[a].got
    BY <1>1 DEF Fits, AssemblyFields
  <2> HIDE DEF local
  <2>5. Heard(local)
    BY <1>1, <2>2, <2>3, <2>4 DEF Heard
  <2> QED
    BY <2>1, <2>5, HeardRequest
<1>4. \/ /\ asm[a].wants = "context"
         /\ \E result : asm' = [asm EXCEPT ![a] = [[asm[a] EXCEPT !.todo = rest] EXCEPT !.got[p] = result]]
      \/ asm' = [asm EXCEPT ![a] = [[asm[a] EXCEPT !.todo = rest] EXCEPT !.phase[p] = "probing"]]
  BY Zenon DEF Begin
<1> HIDE DEF p, rest
<1> QED
  BY <1>2, <1>3, <1>4

\* A request begins with everybody before it, and ends with nobody.
LEMMA EdgesHeard == ASSUME AllFit, AllHeard, NEW a \in Assembly, Assemble(a) \/ Settled(a) PROVE AllHeard'
<1>1. Fits(asm[a]) /\ Heard(asm[a])
  BY DEF AllFit, AllHeard
<1>2. CASE Assemble(a)
  <2>1. PICK local : /\ asm' = [asm EXCEPT ![a] = local] /\ local.at = "gathering"
                     /\ \/ local.wants = asm[a].wants
                        \/ local.wants = "capabilities" /\ local.todo = Order
    BY <1>2, AssembleMoves
  <2>2. asm[a].wants = "context"
    BY <1>1, <1>2 DEF Assemble, Heard
  <2>3. Order \in Seq(Provider) /\ Range(Order) = Provider
    BY AssemblerAssumption
  <2>4. Heard(local)
    BY <2>1, <2>2, <2>3 DEF Heard
  <2> QED
    BY <2>1, <2>4, HeardRequest
<1>3. CASE Settled(a)
  <2> DEFINE local == [asm[a] EXCEPT !.at = "done"]
  <2>1. /\ asm' = [asm EXCEPT ![a] = local]
        /\ asm[a].todo = <<>> /\ \A p \in Provider : asm[a].phase[p] = "off"
    BY <1>3 DEF Settled, AllFit, Active
  <2>2. /\ local.at = "done" /\ local.wants = asm[a].wants /\ local.todo = asm[a].todo
        /\ local.phase = asm[a].phase /\ local.got = asm[a].got
    BY <1>1 DEF Fits, AssemblyFields
  <2> HIDE DEF local
  <2>3. Heard(local)
    BY <1>1, <2>1, <2>2 DEF Heard
  <2> QED
    BY <2>1, <2>3, HeardRequest
<1> QED
  BY <1>2, <1>3

\* A request is not over while a provider is asked, and a list of capabilities has every
\* provider in it, for any providers, however few are asked at once and whether they answer,
\* fail or run out of time.
THEOREM EveryoneReportedTheorem == AssemblerSpec => []EveryoneReported
<1>1. AssemblerInit => AllHeard
  <2>1. NotAsked.at = "idle" /\ NotAsked.wants = "context"
    BY DEF NotAsked
  <2> HIDE DEF NotAsked
  <2>2. Heard(NotAsked)
    BY <2>1 DEF Heard
  <2> QED
    BY <2>2 DEF AssemblerInit, AllHeard
<1>2. AllFit /\ AllHeard /\ [AssemblerNext]_assemblerVars => AllHeard'
  <2> SUFFICES ASSUME AllFit, AllHeard, [AssemblerNext]_assemblerVars PROVE AllHeard'
    OBVIOUS
  <2>1. ASSUME NEW a \in Assembly, Assemble(a) \/ Settled(a) PROVE AllHeard'
    BY <2>1, EdgesHeard
  <2>2. ASSUME NEW a \in Assembly, Begin(a) PROVE AllHeard'
    BY <2>2, BeginHeard
  <2>3. ASSUME NEW a \in Assembly, NEW p \in Provider, Probed(a, p) PROVE AllHeard'
    <3>1. asm[a].phase[p] # "off"
      BY <2>3 DEF Probed
    <3>2. \E phase, result : Became(a, p, phase, result) /\ (phase # "off" \/ result.how # "none")
      BY <2>3 DEF Probed
    <3> QED
      BY <3>1, <3>2, BecameHeard
  <2>4. ASSUME NEW a \in Assembly, NEW p \in Provider, Fetched(a, p) PROVE AllHeard'
    <3>1. asm[a].phase[p] # "off"
      BY <2>4 DEF Fetched
    <3>2. \E result : Became(a, p, "off", result) /\ result.how # "none"
      BY <2>4 DEF Fetched
    <3> QED
      BY <3>1, <3>2, BecameHeard
  <2>5. ASSUME NEW a \in Assembly, NEW p \in Provider, TimesOut(a, p) PROVE AllHeard'
    <3>1. asm[a].phase[p] # "off" /\ \E result : Became(a, p, "off", result) /\ result.how # "none"
      BY <2>5 DEF TimesOut, Timed
    <3> QED
      BY <3>1, BecameHeard
  <2>6. CASE UNCHANGED asm
    BY <2>6 DEF AllHeard, Heard
  <2> QED
    BY <2>1, <2>2, <2>3, <2>4, <2>5, <2>6 DEF AssemblerNext, SectionExpires, assemblerVars
<1>3. AllHeard => EveryoneReported
  BY DEF AllHeard, Heard, EveryoneReported, Range
<1> QED
  BY <1>1, <1>2, <1>3, AllFitInvariant, PTL DEF AssemblerSpec

-----------------------------------------------------------------------------
(* Who waits for which read.                                               *)

\* The types hold throughout.
LEMMA ReadsTypesInvariant == ReadsSpec => []ReadsTypeOK
<1> DEFINE Kinds == {"projects", "capabilities", "health", "computers", "status"}
           Inv == JoinsARunningRead /\ AnswerIsFresh /\ kind \in Kinds
<1>1. ReadsInit => Inv
  BY DEF ReadsInit, JoinsARunningRead, AnswerIsFresh
<1>2. Inv /\ [ReadsNext]_readsVars => Inv'
  <2> SUFFICES ASSUME Inv, [ReadsNext]_readsVars PROVE Inv'
    OBVIOUS
  <2>1. kind' \in Kinds
    BY DEF ReadsNext, AskFor, ReadEnds, ReadFails, Expire, readsVars
  <2> QED
    BY <2>1, ReadsStep
<1>3. Inv => ReadsTypeOK
  BY DEF JoinsARunningRead, ReadsTypeOK
<1> QED
  BY <1>1, <1>2, <1>3, PTL DEF ReadsSpec

\* Who calls waits for a read of its own or for the one that is registered, and gets what
\* is kept otherwise; nobody else is disturbed.
LEMMA AskForWaits ==
  ASSUME ReadsTypeOK, WaitsForARunningRead, NEW c \in Reader, AskFor(c)
  PROVE  WaitsForARunningRead'
<1>1. PICK forced \in BOOLEAN :
        \/ /\ caller' = [caller EXCEPT ![c] = [at |-> "answered", forced |-> forced, read |-> entry.read]]
           /\ UNCHANGED running
        \/ /\ Joins(forced)
           /\ caller' = [caller EXCEPT ![c] = [at |-> "joined", forced |-> forced, read |-> running]]
           /\ UNCHANGED running
        \/ /\ caller' = [caller EXCEPT ![c] = [at |-> "reading", forced |-> forced, read |-> c]]
           /\ running' = IF Shares(kind) THEN c ELSE NoRead
  BY DEF AskFor
<1>2. caller[c].at = "idle" /\ UNCHANGED <<kind, entry>>
  BY DEF AskFor
<1>3. \A d \in Reader : ~Runs(c) /\ (d # c => caller'[d] = caller[d])
  BY <1>1, <1>2 DEF ReadsTypeOK, Runs
<1>4. \A d \in Reader : Runs(d) => Runs(d)'
  BY <1>3 DEF Runs
<1>5. entry'.read # NoRead => entry'.read \in Reader /\ caller'[entry'.read].at = "answered"
  BY <1>2, <1>3 DEF WaitsForARunningRead
<1>6. running' # NoRead => Runs(running)' /\ Shares(kind)'
  <2>1. CASE UNCHANGED running
    BY <1>2, <1>4, <2>1 DEF WaitsForARunningRead, ReadsTypeOK, Runs, Shares
  <2>2. CASE /\ caller' = [caller EXCEPT ![c] = [at |-> "reading", forced |-> forced, read |-> c]]
             /\ running' = IF Shares(kind) THEN c ELSE NoRead
    BY <1>2, <2>2 DEF ReadsTypeOK, Runs, Shares
  <2> QED
    BY <1>1, <2>1, <2>2
<1>7. ASSUME NEW d \in Reader, caller'[d].at \in {"reading", "joined"}
      PROVE  /\ caller'[d].at = "reading" => caller'[d].read = d
             /\ caller'[d].read \in Reader /\ Runs(caller[d].read)'
  <2>1. CASE d # c
    BY <1>3, <1>4, <1>7, <2>1 DEF WaitsForARunningRead, Runs
  <2>2. CASE d = c /\ caller'[c] = [at |-> "joined", forced |-> forced, read |-> running] /\ Joins(forced)
    BY <1>4, <2>2 DEF Joins, WaitsForARunningRead, ReadsTypeOK, Runs
  <2>3. CASE d = c /\ caller'[c] = [at |-> "reading", forced |-> forced, read |-> c]
    BY <2>3 DEF Runs
  <2>4. d = c => \/ caller'[c] = [at |-> "answered", forced |-> forced, read |-> entry.read]
                 \/ caller'[c] = [at |-> "joined", forced |-> forced, read |-> running] /\ Joins(forced)
                 \/ caller'[c] = [at |-> "reading", forced |-> forced, read |-> c]
    BY <1>1 DEF ReadsTypeOK
  <2>5. caller'[d].at # "answered"
    BY <1>7
  <2> QED
    BY <2>1, <2>2, <2>3, <2>4, <2>5
<1> QED
  BY <1>5, <1>6, <1>7 DEF WaitsForARunningRead, Runs

\* A read that is over is handed to all who wait for it; those who wait for another go on.
LEMMA HandOutWaits ==
  ASSUME ReadsTypeOK, WaitsForARunningRead, NEW c \in Reader, NEW how \in {"answered", "failed"},
         HandOut(c, how), caller[c].at = "reading", running' = NoRead, UNCHANGED kind,
         \/ UNCHANGED entry
         \/ how = "answered" /\ entry' = [read |-> c, live |-> TRUE]
  PROVE  WaitsForARunningRead'
<1>1. \A d \in Reader : caller'[d] = IF caller[d].read = c /\ caller[d].at \in {"reading", "joined"}
                                     THEN [caller[d] EXCEPT !.at = how] ELSE caller[d]
  BY DEF HandOut
<1>2. \A d \in Reader : /\ caller'[d].read = caller[d].read
                        /\ caller'[d].at = IF caller[d].read = c /\ caller[d].at \in {"reading", "joined"}
                                           THEN how ELSE caller[d].at
  BY <1>1 DEF ReadsTypeOK
<1>3. Runs(c)
  BY DEF WaitsForARunningRead, Runs
<1>4. entry'.read # NoRead => entry'.read \in Reader /\ caller'[entry'.read].at = "answered"
  <2>1. CASE UNCHANGED entry
    BY <1>2, <2>1 DEF WaitsForARunningRead
  <2>2. CASE how = "answered" /\ entry' = [read |-> c, live |-> TRUE]
    BY <1>2, <1>3, <2>2 DEF Runs
  <2> QED
    BY <2>1, <2>2
<1>5. ASSUME NEW d \in Reader, caller'[d].at \in {"reading", "joined"}
      PROVE  /\ caller'[d].at = "reading" => caller'[d].read = d
             /\ caller'[d].read \in Reader /\ Runs(caller[d].read)'
  <2>1. caller'[d].at = caller[d].at /\ caller'[d].read = caller[d].read /\ caller[d].read # c
    BY <1>2, <1>5
  <2>2. (caller[d].at = "reading" => caller[d].read = d)
        /\ caller[d].read \in Reader /\ caller[caller[d].read].at = "reading"
        /\ caller[caller[d].read].read = caller[d].read
    BY <1>5, <2>1 DEF WaitsForARunningRead, Runs
  <2> QED
    BY <1>2, <2>1, <2>2 DEF Runs
<1> QED
  BY <1>4, <1>5 DEF WaitsForARunningRead, Runs

\* Whoever waits for a read waits for one that somebody began and that is not over, for any
\* callers and each of the five caches, however reads overlap and fail, although a read that
\* was forced replaces another and the first to end clears whichever is registered.
THEOREM WaitsForARunningReadTheorem == ReadsSpec => [](ReadsTypeOK /\ WaitsForARunningRead)
<1>1. ReadsInit => WaitsForARunningRead
  BY DEF ReadsInit, WaitsForARunningRead
<1>2. ReadsTypeOK /\ WaitsForARunningRead /\ [ReadsNext]_readsVars => WaitsForARunningRead'
  <2> SUFFICES ASSUME ReadsTypeOK, WaitsForARunningRead, [ReadsNext]_readsVars
               PROVE  WaitsForARunningRead'
    OBVIOUS
  <2>1. ASSUME NEW c \in Reader, AskFor(c) PROVE WaitsForARunningRead'
    BY <2>1, AskForWaits
  <2>2. ASSUME NEW c \in Reader, ReadEnds(c) PROVE WaitsForARunningRead'
    BY <2>2, HandOutWaits DEF ReadEnds, Clear
  <2>3. ASSUME NEW c \in Reader, ReadFails(c) PROVE WaitsForARunningRead'
    BY <2>3, HandOutWaits DEF ReadFails, Clear
  <2>4. CASE Expire
    BY <2>4 DEF Expire, WaitsForARunningRead, ReadsTypeOK, Runs, Shares
  <2>5. CASE UNCHANGED readsVars
    BY <2>5 DEF readsVars, WaitsForARunningRead, Runs, Shares
  <2> QED
    BY <2>1, <2>2, <2>3, <2>4, <2>5 DEF ReadsNext
<1> QED
  BY <1>1, <1>2, ReadsTypesInvariant, PTL DEF ReadsSpec
=============================================================================
