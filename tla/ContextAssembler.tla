-------------------------- MODULE ContextAssembler --------------------------
(***************************************************************************)
(* The context that is put together for a request: providers asked at      *)
(* once, but no more than a few at a time and each with one deadline, what *)
(* they return kept for a while, and the sections fitted into a budget of  *)
(* tokens.  Requests overlap and share the cache.                          *)
(*                                                                         *)
(* A text is its length in characters.                                     *)
(***************************************************************************)
EXTENDS Integers, Sequences, FiniteSets, SequencesExt

CONSTANTS
  Provider, Order,    \* the providers, and all of them by priority
  Section,            \* what each has: length of the title and of every line, minLines
  Honours,            \* providers that return less for a smaller budget
  Kept,               \* providers with a cacheTtlMs
  Healthy,            \* providers with a health check
  Unknown,            \* how many providers a request names that there are not
  Assembly,           \* the requests, each made at most once
  Focus, TokenBudget, \* what they may ask for
  Concurrency,        \* retrievalConcurrency
  CacheLimit,         \* 200 entries
  NoticeHead, NoticeLine   \* lengths of the notice about gaps: its first line, every other

ASSUME AssemblerAssumption ==
  /\ Order \in Seq(Provider) /\ Range(Order) = Provider /\ Len(Order) = Cardinality(Provider)
  /\ Section \in [Provider -> [title : Nat, lines : Seq(Nat), minLines : Nat]]
  /\ TokenBudget \subseteq Nat \ {0}
  /\ {Concurrency, CacheLimit} \subseteq Nat \ {0} /\ Unknown \in Nat

VARIABLES
  asm,       \* every request: its locals, and what each provider returned
  sections   \* sectionCache: the entries, the oldest first

assemblerVars == <<asm, sections>>

Nothing == [how |-> "none", made |-> 0]

NotAsked == [at |-> "idle", wants |-> "context", budget |-> 0, focus |-> "", todo |-> <<>>,
             phase |-> [p \in Provider |-> "off"], got |-> [p \in Provider |-> Nothing]]

AssemblerInit ==
  /\ asm = [a \in Assembly |-> NotAsked]
  /\ sections = <<>>

-----------------------------------------------------------------------------
(* Fitting.                                                                *)

Larger(a, b)  == IF a >= b THEN a ELSE b
Smaller(a, b) == IF a <= b THEN a ELSE b

EstimateTokens(length) == Larger(1, (length + 3) \div 4)

TrimToTokens(length, maxTokens) == IF maxTokens <= 0 THEN 0 ELSE Smaller(length, 4 * maxTokens)

\* The length of a title with lines below it.
Rendered(title, lines) == FoldLeft(LAMBDA sum, length : sum + 1 + length, title, lines)

\* The tokens of a title and the first k lines below it, estimated one by one.
Cost(sec, k) ==
  FoldLeft(LAMBDA sum, length : sum + EstimateTokens(length), EstimateTokens(sec.title),
           SubSeq(sec.lines, 1, k))

Required(sec) == Larger(1, Smaller(sec.minLines, Len(sec.lines)))

\* The whole lines that fit, and the next one cut when lines are needed.
Fitted(sec, budget, whole) ==
  LET cut == IF whole < Smaller(Required(sec), Len(sec.lines))
             THEN TrimToTokens(sec.lines[whole + 1], budget - Cost(sec, whole)) ELSE 0
  IN SubSeq(sec.lines, 1, whole) \o (IF cut > 0 THEN <<cut>> ELSE <<>>)

NoneBelow(lines, required) == IF Len(lines) < required THEN <<>> ELSE lines

\* The lines of a section that fit, or none when fewer do than it needs.
FitSection(sec, budget) ==
  NoneBelow(Fitted(sec, budget, Cardinality({k \in 1..Len(sec.lines) : Cost(sec, k) <= budget})),
            Required(sec))

\* What a provider returns for a budget.
Given(p, budget) ==
  IF p \in Honours THEN [Section[p] EXCEPT !.lines = SubSeq(@, 1, Smaller(Len(@), budget \div 2))] ELSE Section[p]

\* gapNotice: the length of the notice, zero for none.
GapNotice(gaps) == IF gaps = 0 THEN 0 ELSE NoticeHead + gaps * (1 + NoticeLine)

Gaps(a) == Unknown + Cardinality({p \in Provider : a.got[p].how = "missing"})

\* Fault: nothing is set aside for the notice.
RoomUnreserved(budget, notice) == budget

\* The budget that is left for the sections.
Room(budget, notice) == Larger(1, budget - (IF notice = 0 THEN 0 ELSE EstimateTokens(notice)))

\* A section is appended, if lines of it are left.
Retain(acc, p, title, lines) ==
  LET gap == IF acc.length = 0 THEN 0 ELSE 2 IN
    IF lines = <<>> THEN acc
    ELSE [kept   |-> Append(acc.kept, p),
          used   |-> acc.used + EstimateTokens(Rendered(title, lines)),
          length |-> acc.length + gap + Rendered(title, lines),
          breaks |-> acc.breaks + gap + Len(lines)]

\* The sections that are kept, by priority.
Retained(a, room) ==
  FoldLeft(LAMBDA acc, p :
             IF a.got[p].how # "section" \/ acc.used >= room THEN acc
             ELSE Retain(acc, p, Section[p].title,
                         FitSection(Given(p, a.got[p].made), room - acc.used)),
           [kept |-> <<>>, used |-> 0, length |-> 0, breaks |-> 0], Order)

\* The text: its sections, and the notice below them.
Joined(all, notice) ==
  LET joint == IF notice > 0 /\ all.length > 0 THEN 2 ELSE 0 IN
    [kept |-> all.kept, length |-> all.length + joint + notice, breaks |-> all.breaks + joint,
     notice |-> notice]

\* The rest of assemble, once every provider has settled: the sections kept, the size of
\* the text, and how many of its characters are line breaks that join lines and sections.
Compose(a) ==
  LET notice == GapNotice(Gaps(a)) IN Joined(Retained(a, Room(a.budget, notice)), notice)

-----------------------------------------------------------------------------
(* A request.                                                              *)

\* assemble, and capabilities, which asks every provider and has no budget.
Assemble(a) ==
  /\ asm[a].at = "idle"
  /\ \/ \E chosen \in SUBSET Provider, budget \in TokenBudget, focus \in Focus :
          asm' = [asm EXCEPT ![a] = [@ EXCEPT !.at = "gathering", !.budget = budget, !.focus = focus,
                    !.todo = SelectSeq(Order, LAMBDA p : p \in chosen)]]
     \/ asm' = [asm EXCEPT ![a] = [@ EXCEPT !.at = "gathering", !.wants = "capabilities", !.todo = Order]]
  /\ UNCHANGED sections

Active(a) == {p \in Provider : asm[a].phase[p] # "off"}

Became(a, p, phase, result) ==
  asm' = [asm EXCEPT ![a] = [@ EXCEPT !.phase[p] = phase, !.got[p] = result]]

\* Fault: what is cached is served to any budget.
ServesAny(e, budget) == TRUE

Serves(e, budget) == budget <= e.made

\* The next provider: from the cache, not applicable, or asked whether it is there.
Begin(a) ==
  LET q == asm[a]  p == Head(q.todo)  taken == [q EXCEPT !.todo = Tail(@)] IN
    /\ q.at = "gathering" /\ q.todo # <<>> /\ Cardinality(Active(a)) < Concurrency
    /\ \/ \E k \in 1..Len(sections) :
            /\ q.wants = "context" /\ p \in Kept
            /\ sections[k].key = <<p, q.focus>> /\ Serves(sections[k], q.budget)
            /\ asm' = [asm EXCEPT ![a] = [taken EXCEPT !.got[p] = [how |-> sections[k].how, made |-> sections[k].made]]]
       \/ q.wants = "context" /\ asm' = [asm EXCEPT ![a] = [taken EXCEPT !.got[p] = [how |-> "empty", made |-> q.budget]]]
       \/ asm' = [asm EXCEPT ![a] = [taken EXCEPT !.phase[p] = "probing"]]
    /\ UNCHANGED sections

\* isAvailable has an answer.
Probed(a, p) ==
  LET q == asm[a] IN
    /\ q.phase[p] = "probing"
    /\ \/ Became(a, p, "off", [how |-> "missing", made |-> 0])
       \/ q.wants = "context" /\ Became(a, p, "fetching", Nothing)
       \/ q.wants = "capabilities" /\ p \in Healthy /\ Became(a, p, "checking", Nothing)
       \/ q.wants = "capabilities" /\ p \notin Healthy /\ Became(a, p, "off", [how |-> "section", made |-> 0])
    /\ UNCHANGED sections

Stored(e) ==
  LET at  == {k \in 1..Len(sections) : sections[k].key = e.key}
      all == IF at = {} THEN Append(sections, e) ELSE [sections EXCEPT ![CHOOSE k \in at : TRUE] = e]
  IN IF Len(all) > CacheLimit THEN Tail(all) ELSE all

\* getContext or health has an answer, malformed ones and errors included.
Fetched(a, p) ==
  LET q == asm[a] IN
    /\ \/ /\ q.phase[p] = "fetching"
          /\ \E how \in {"section", "empty"} :
               /\ Became(a, p, "off", [how |-> how, made |-> q.budget])
               /\ sections' = IF p \in Kept THEN Stored([key |-> <<p, q.focus>>, how |-> how, made |-> q.budget])
                              ELSE sections
       \/ /\ q.phase[p] = "checking"
          /\ Became(a, p, "off", [how |-> "section", made |-> 0]) /\ UNCHANGED sections
       \/ /\ q.phase[p] \in {"fetching", "checking"}
          /\ Became(a, p, "off", [how |-> "missing", made |-> 0]) /\ UNCHANGED sections

\* Fault: only the context has a deadline, not the question whether a provider is there.
TimedFetchOnly(phase) == phase \in {"fetching", "checking"}

Timed(phase) == phase # "off"

\* The deadline of a provider; what it answers later is lost.
TimesOut(a, p) ==
  /\ Timed(asm[a].phase[p])
  /\ Became(a, p, "off", [how |-> "missing", made |-> 0])
  /\ UNCHANGED sections

Settled(a) ==
  LET q == asm[a] IN
    /\ q.at = "gathering" /\ q.todo = <<>> /\ Active(a) = {}
    /\ asm' = [asm EXCEPT ![a].at = "done"]
    /\ UNCHANGED sections

\* An entry expires; it is of no use from then on.
SectionExpires(k) ==
  /\ k \in 1..Len(sections)
  /\ sections' = RemoveAt(sections, k)
  /\ UNCHANGED asm

AssemblerNext ==
  \/ \E a \in Assembly : \/ Assemble(a) \/ Begin(a) \/ Settled(a)
                         \/ \E p \in Provider : Probed(a, p) \/ Fetched(a, p) \/ TimesOut(a, p)
  \/ \E k \in 1..CacheLimit : SectionExpires(k)

\* The event loop goes on and timers fire; no provider need ever answer.
AssemblerFairness ==
  WF_assemblerVars(\E a \in Assembly : Begin(a) \/ Settled(a) \/ \E p \in Provider : TimesOut(a, p))

AssemblerSpec == AssemblerInit /\ [][AssemblerNext]_assemblerVars /\ AssemblerFairness

-----------------------------------------------------------------------------
AssemblerTypeOK ==
  /\ \A a \in Assembly :
       /\ asm[a].at \in {"idle", "gathering", "done"}
       /\ asm[a].wants \in {"context", "capabilities"}
       /\ asm[a].budget \in TokenBudget \cup {0}
       /\ asm[a].phase \in [Provider -> {"off", "probing", "fetching", "checking"}]
       /\ Cardinality(Active(a)) <= Concurrency
  /\ Len(sections) <= CacheLimit
  /\ \A k \in 1..Len(sections) : sections[k].key \in Provider \X Focus /\ sections[k].made \in TokenBudget

\* A section is never one that a provider shortened for a smaller budget than this
\* request has, though requests of any budget share the cache (assembler.ts:299,
\* "Serve down, never up").
NeverServedUp ==
  \A a \in Assembly, p \in Provider :
    asm[a].wants = "context" /\ asm[a].got[p].how = "section" => asm[a].got[p].made >= asm[a].budget

\* A request is answered though no provider ever answers (assembler.ts:52, "A single
\* provider can time out").
AssemblyReturns ==
  (\E a \in Assembly : asm[a].at = "gathering") ~> \A a \in Assembly : asm[a].at # "gathering"

FitsIn(text, budget) ==
  \/ EstimateTokens(text.length - text.breaks) <= budget
  \/ text.kept = <<>> /\ text.length = text.notice

\* A text passes its budget by no more than the line breaks that join its lines and
\* sections, which assemble does not count, though sections are cut, dropped, and made for
\* other budgets, and the notice about gaps takes its room before them; or it is the notice
\* alone (assembler.ts:111, a caller "is entitled to have it mean something").
FitsButForBreaks ==
  \A a \in Assembly :
    asm[a].at = "done" /\ asm[a].wants = "context" => FitsIn(Compose(asm[a]), asm[a].budget)
=============================================================================
