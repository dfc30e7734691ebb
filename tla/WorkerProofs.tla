---------------------------- MODULE WorkerProofs ----------------------------
(***************************************************************************)
(* Theorems about the workers, for any number of instructions and of calls *)
(* that stop a worker.  A Claude session: instructions reach the SDK once  *)
(* and in order, and a call, whichever it is, only runs when the policy    *)
(* allows it, or leaves it to the user who has approved it, which is       *)
(* enough for what a call may open and change.  A Codex session: the       *)
(* types, one child at a time, and that it implements TurnQueue.           *)
(***************************************************************************)
EXTENDS ClaudeWorker, CodexWorker, SequenceTheorems, TLAPS

-----------------------------------------------------------------------------
(* Claude: the input queue.                                                *)

\* What the reader was handed and has not taken yet.
Handed(item) == IF item = NoItem THEN <<>> ELSE <<item>>

\* The instructions the SDK got, the one on its way and those in the buffer.
Line == taken \o Handed(handed) \o buffer

Numbers(n) == [k \in 1..n |-> k]

\* The inductive invariant: an item is handed to a reader that waited beside an empty
\* buffer, and the queue is closed by the disposal after which nothing is pushed.
InputInv ==
  /\ sent \in Nat /\ taken \in Seq(Nat) /\ buffer \in Seq(Nat) /\ handed \in Nat
  /\ Line = Numbers(sent)
  /\ inputClosed => claudeDisposed
  /\ handed # NoItem => reader = "handed"
  /\ reader = "waiting" => buffer = <<>> /\ ~inputClosed
  /\ reader = "ended" => buffer = <<>> /\ inputClosed
  /\ reader = "handed" /\ handed = NoItem => buffer = <<>> /\ inputClosed

-----------------------------------------------------------------------------
\* One number more.
LEMMA NumbersGrow ==
  ASSUME NEW n \in Nat
  PROVE  Numbers(n) \in Seq(Nat) /\ Numbers(n) \o <<n + 1>> = Numbers(n + 1)
<1>1. Numbers(n) \in Seq(Nat) /\ Numbers(n + 1) \in Seq(Nat)
  BY DEF Numbers
<1>2. Len(Numbers(n)) = n /\ Len(Numbers(n + 1)) = n + 1
  BY DEF Numbers
<1>3. <<n + 1>> \in Seq(Nat)
  OBVIOUS
<1>4. Len(<<n + 1>>) = 1 /\ <<n + 1>>[1] = n + 1
  OBVIOUS
<1>5. /\ Numbers(n) \o <<n + 1>> \in Seq(Nat)
      /\ Len(Numbers(n) \o <<n + 1>>) = n + 1
      /\ \A k \in 1..(n + 1) : (Numbers(n) \o <<n + 1>>)[k] =
           IF k <= n THEN Numbers(n)[k] ELSE <<n + 1>>[k - n]
  BY <1>1, <1>2, <1>3, <1>4, ConcatProperties
<1>6. \A k \in 1..(n + 1) : (Numbers(n) \o <<n + 1>>)[k] = Numbers(n + 1)[k]
  BY <1>4, <1>5 DEF Numbers
<1> QED
  BY <1>1, <1>2, <1>5, <1>6, SeqEqual

\* What the library says of every sequence, for those of numbers.
LEMMA LinesAssociate ==
  ASSUME NEW s \in Seq(Nat), NEW t \in Seq(Nat), NEW u \in Seq(Nat)
  PROVE  (s \o t) \o u = s \o (t \o u)
  BY ConcatAssociative

\* An item joins the line at the end, in the buffer or in the hands of the reader.
LEMMA JoinsLine ==
  ASSUME NEW t \in Seq(Nat), NEW h \in Seq(Nat), NEW b \in Seq(Nat), NEW x \in Nat
  PROVE  /\ t \o h \o Append(b, x) = (t \o h \o b) \o <<x>>
         /\ t \o <<x>> \o <<>> = (t \o <<>> \o <<>>) \o <<x>>
<1>1. <<x>> \in Seq(Nat) /\ <<>> \in Seq(Nat) /\ Append(b, x) = b \o <<x>> /\ t \o h \in Seq(Nat)
  BY AppendIsConcat, ConcatProperties
<1>2. t \o <<>> = t /\ t \o <<>> \o <<>> = t /\ t \o <<x>> \in Seq(Nat)
  BY <1>1, ConcatEmptySeq, ConcatProperties
<1>3. t \o <<x>> \o <<>> = t \o <<x>>
  BY <1>2, ConcatEmptySeq
<1>4. (t \o h) \o (b \o <<x>>) = ((t \o h) \o b) \o <<x>>
  <2>1. ASSUME NEW u \in Seq(Nat), NEW v \in Seq(Nat)
        PROVE  u \o (b \o v) = (u \o b) \o v
    BY LinesAssociate
  <2> QED
    BY <1>1, <2>1
<1> QED
  BY <1>1, <1>2, <1>3, <1>4

\* The first of the buffer, or what was handed, becomes the last that was taken.
LEMMA Leaves ==
  ASSUME NEW t \in Seq(Nat), NEW b \in Seq(Nat), NEW x \in Nat
  PROVE  /\ Append(t, x) \in Seq(Nat)
         /\ Append(t, x) \o <<>> \o b = t \o <<x>> \o b
         /\ b # <<>> => Tail(b) \in Seq(Nat) /\ Append(t, Head(b)) \in Seq(Nat)
                        /\ Append(t, Head(b)) \o <<>> \o Tail(b) = t \o <<>> \o b
<1>1. ASSUME NEW y \in Nat, NEW c \in Seq(Nat)
      PROVE  Append(t, y) \in Seq(Nat) /\ Append(t, y) \o <<>> \o c = t \o <<y>> \o c
  <2>1. Append(t, y) = t \o <<y>> /\ Append(t, y) \in Seq(Nat)
    BY AppendIsConcat, AppendProperties
  <2>2. Append(t, y) \o <<>> = Append(t, y)
    BY <2>1, ConcatEmptySeq
  <2> QED
    BY <2>1, <2>2
<1>2. ASSUME b # <<>> PROVE /\ Tail(b) \in Seq(Nat) /\ Head(b) \in Nat
                            /\ <<Head(b)>> \o Tail(b) = b
  <2>1. Tail(b) \in Seq(Nat) /\ Head(b) \in Nat /\ Len(Tail(b)) = Len(b) - 1
        /\ \A i \in 1..Len(Tail(b)) : Tail(b)[i] = b[i + 1]
    BY <1>2, HeadTailProperties
  <2>2. Len(b) \in Nat \ {0} /\ Head(b) = b[1]
    BY <1>2, EmptySeq
  <2>3. <<Head(b)>> \in Seq(Nat)
    BY <2>1
  <2>4. Len(<<Head(b)>>) = 1 /\ <<Head(b)>>[1] = Head(b)
    OBVIOUS
  <2>5. /\ <<Head(b)>> \o Tail(b) \in Seq(Nat) /\ Len(<<Head(b)>> \o Tail(b)) = Len(b)
        /\ \A i \in 1..Len(b) : (<<Head(b)>> \o Tail(b))[i] =
             IF i <= 1 THEN <<Head(b)>>[i] ELSE Tail(b)[i - 1]
    BY <2>1, <2>2, <2>3, <2>4, ConcatProperties
  <2>6. \A i \in 1..Len(b) : (<<Head(b)>> \o Tail(b))[i] = b[i]
    BY <2>1, <2>2, <2>4, <2>5
  <2> QED
    BY <2>1, <2>5, <2>6, SeqEqual
<1>3. ASSUME b # <<>> PROVE t \o <<Head(b)>> \o Tail(b) = t \o <<>> \o b
  <2> DEFINE first == <<Head(b)>>
             rest  == Tail(b)
  <2>1. first \in Seq(Nat) /\ rest \in Seq(Nat) /\ first \o rest = b
    BY <1>2, <1>3
  <2>2. t \o <<>> = t
    BY ConcatEmptySeq
  <2> HIDE DEF first, rest
  <2>3. (t \o first) \o rest = t \o (first \o rest)
    BY <2>1, LinesAssociate
  <2>4. t \o first \o rest = t \o <<>> \o b
    BY <2>1, <2>2, <2>3
  <2> QED
    BY <2>4 DEF first, rest
<1> QED
  BY <1>1, <1>2, <1>3

-----------------------------------------------------------------------------
\* A push into an open queue.
LEMMA PushStep ==
  ASSUME InputInv, Push, ~claudeDisposed, UNCHANGED <<taken, inputClosed, claudeDisposed>>
  PROVE  InputInv'
<1>1. /\ sent' = sent + 1 /\ ~inputClosed /\ sent' \in Nat \ {NoItem}
      /\ Line \o <<sent'>> = Numbers(sent')
  <2>1. sent' = sent + 1 /\ ~inputClosed /\ sent \in Nat /\ Line = Numbers(sent)
    BY DEF Push, InputInv
  <2>2. Numbers(sent) \o <<sent + 1>> = Numbers(sent + 1)
    BY <2>1, NumbersGrow
  <2> QED
    BY <2>1, <2>2 DEF NoItem
<1>2. CASE reader = "waiting"
  <2>1. reader' = "handed" /\ handed' = sent' /\ buffer' = buffer /\ buffer = <<>> /\ handed = NoItem
    BY <1>1, <1>2 DEF Push, InputInv
  <2>2. Line' = taken \o <<sent'>> \o <<>> /\ Line = taken \o <<>> \o <<>>
    BY <1>1, <2>1 DEF Line, Handed
  <2>3. Line' = Line \o <<sent'>>
    BY <1>1, <2>2, JoinsLine DEF InputInv
  <2> QED
    BY <1>1, <1>2, <2>1, <2>3 DEF InputInv
<1>3. CASE reader # "waiting"
  <2>1. buffer' = Append(buffer, sent') /\ UNCHANGED <<reader, handed>>
    BY <1>1, <1>3 DEF Push
  <2>2. buffer' \in Seq(Nat) /\ Handed(handed) \in Seq(Nat)
    BY <1>1, <2>1, AppendProperties DEF InputInv, Handed
  <2>3. Line' = taken \o Handed(handed) \o Append(buffer, sent')
    BY <2>1 DEF Line
  <2>4. Line' = Line \o <<sent'>>
    <3>1. taken \in Seq(Nat) /\ buffer \in Seq(Nat) /\ sent' \in Nat
      BY <1>1 DEF InputInv
    <3>2. taken \o Handed(handed) \o Append(buffer, sent')
            = (taken \o Handed(handed) \o buffer) \o <<sent'>>
      BY <2>2, <3>1, JoinsLine
    <3>3. Line = taken \o Handed(handed) \o buffer
      BY DEF Line
    <3> QED
      BY <2>3, <3>2, <3>3
  <2> QED
    BY <1>1, <1>3, <2>1, <2>2, <2>4 DEF InputInv
<1> QED
  BY <1>2, <1>3

\* The loop takes the oldest turn that waits, or parks: order and number are kept.
LEMMA PullNextStep == ASSUME InputInv, PullNext PROVE InputInv'
<1>1. reader = "away" /\ handed = NoItem /\ UNCHANGED <<sent, handed, inputClosed, claudeDisposed>>
  BY DEF PullNext, InputInv, ending
<1>2. CASE buffer # <<>>
  <2>1. buffer' = Tail(buffer) /\ taken' = Append(taken, Head(buffer)) /\ reader' = reader
    BY <1>2 DEF PullNext
  <2>2. Line' = Line /\ buffer' \in Seq(Nat) /\ taken' \in Seq(Nat)
    BY <1>1, <1>2, <2>1, Leaves DEF Line, Handed, InputInv
  <2> QED
    BY <1>1, <2>1, <2>2 DEF InputInv
<1>3. CASE buffer = <<>>
  <2>1. reader' = (IF inputClosed THEN "ended" ELSE "waiting") /\ UNCHANGED <<buffer, taken>>
    BY <1>3 DEF PullNext
  <2> QED
    BY <1>1, <1>3, <2>1 DEF InputInv, Line
<1> QED
  BY <1>2, <1>3

\* A turn handed to the parked loop was the only one on its way.
LEMMA TakeHandedStep == ASSUME InputInv, TakeHanded PROVE InputInv'
<1>1. /\ reader = "handed" /\ handed' = NoItem /\ NoItem \in Nat
      /\ UNCHANGED <<sent, buffer, inputClosed, claudeDisposed>>
  BY DEF TakeHanded, ending, NoItem
<1>2. CASE handed = NoItem
  BY <1>1, <1>2 DEF TakeHanded, InputInv, Line
<1>3. CASE handed # NoItem
  <2>1. reader' = "away" /\ taken' = Append(taken, handed)
    BY <1>3 DEF TakeHanded
  <2>2. Line' = Line /\ taken' \in Seq(Nat)
    BY <1>1, <1>3, <2>1, Leaves DEF Line, Handed, InputInv
  <2> QED
    BY <1>1, <2>1, <2>2 DEF InputInv
<1> QED
  BY <1>2, <1>3

\* Dispose empties the input; what was taken stays a prefix of what was sent.
LEMMA DisposeInputStep == ASSUME InputInv, NEW c \in ClaudeDisposer, ClaudeDispose(c) PROVE InputInv'
<1>1. CASE claudeDisposed
  BY <1>1 DEF ClaudeDispose, InputInv, Line
<1>2. CASE ~claudeDisposed
  <2>1. /\ claudeDisposed' /\ inputClosed' /\ UNCHANGED <<sent, buffer, handed, taken>>
        /\ reader' = IF reader = "waiting" THEN "handed" ELSE reader
    BY <1>2 DEF ClaudeDispose, CloseInput
  <2>2. Line' = Line
    BY <2>1 DEF Line
  <2> QED
    BY <2>1, <2>2 DEF InputInv
<1> QED
  BY <1>1, <1>2

\* The other actions leave the input alone.
LEMMA InputElsewhere == ASSUME InputInv, UNCHANGED <<input, claudeDisposed>> PROVE InputInv'
BY DEF InputInv, Line, input

\* Every step keeps the input in order.
LEMMA InputStep == InputInv /\ [ClaudeNext]_claudeVars => InputInv'
<1> SUFFICES ASSUME InputInv, [ClaudeNext]_claudeVars PROVE InputInv'
  OBVIOUS
<1>1. CASE ClaudeStart
  BY <1>1, PushStep DEF ClaudeStart
<1>2. CASE ClaudeSend
  BY <1>2, PushStep DEF ClaudeSend, ending
<1>3. CASE \E c \in ClaudeInterrupter : ClaudeInterrupt(c) \/ InterruptHeard(c) \/ InterruptAborts(c)
  BY <1>3, InputElsewhere DEF ClaudeInterrupt, InterruptHeard, InterruptAborts
<1>4. CASE \E c \in ClaudeDisposer : DisposeReturns(c)
  BY <1>4, InputElsewhere DEF DisposeReturns
<1>5. CASE StreamEnds
  BY <1>5, InputElsewhere DEF StreamEnds
<1>6. CASE ToolStep
  BY <1>6, InputElsewhere DEF ToolStep, Propose, Permit, Answered, RunTool, Result, ending
<1>7. CASE UNCHANGED claudeVars
  BY <1>7, InputElsewhere DEF claudeVars, ending
<1> QED
  BY <1>1, <1>2, <1>3, <1>4, <1>5, <1>6, <1>7, PullNextStep, TakeHandedStep, DisposeInputStep
     DEF ClaudeNext, StreamStep

\* However pushes, reads and a close interleave, every instruction arrives once and in
\* order, and the reader neither waits beside a full buffer or a closed queue nor stops
\* before the queue is drained (asyncQueue.ts:23).
THEOREM InputTheorem == ClaudeSpec => []InputInOrder
<1>1. ClaudeInit => InputInv
  <2> SUFFICES ASSUME ClaudeInit PROVE InputInv
    OBVIOUS
  <2>1. <<>> \in Seq(Nat) /\ Line = <<>>
    BY ConcatEmptySeq DEF ClaudeInit, Line, Handed
  <2>2. Numbers(0) = <<>>
    BY DEF Numbers
  <2> QED
    BY <2>1, <2>2 DEF ClaudeInit, InputInv, NoItem
<1>2. InputInv => InputInOrder
  BY DEF InputInv, InputInOrder, Line, Handed, Numbers
<1> QED
  BY <1>1, <1>2, InputStep, PTL DEF ClaudeSpec

-----------------------------------------------------------------------------
(* The policy: what a call that was not denied may open and change.        *)

\* The worst of some classes is one of them, and none is worse.
LEMMA WorstClass ==
  ASSUME NEW S, S \subseteq PermissionClass, S # {}
  PROVE  MaxClass(S) \in S /\ \A d \in S : Severity[d] <= Severity[MaxClass(S)]
<1>1. PermissionClass = {"READ_ONLY", "LOCAL_REVERSIBLE", "EXTERNAL_SIDE_EFFECT", "DESTRUCTIVE", "PROHIBITED"}
  BY DEF PermissionClass, Severity
<1>2. /\ Severity["READ_ONLY"] = 0 /\ Severity["LOCAL_REVERSIBLE"] = 1 /\ Severity["EXTERNAL_SIDE_EFFECT"] = 2
      /\ Severity["DESTRUCTIVE"] = 3 /\ Severity["PROHIBITED"] = 4
  BY DEF Severity
<1>3. \E c \in S : \A d \in S : Severity[d] <= Severity[c]
  <2>1. CASE "PROHIBITED" \in S
    BY <1>1, <1>2, <2>1
  <2>2. CASE "PROHIBITED" \notin S /\ "DESTRUCTIVE" \in S
    BY <1>1, <1>2, <2>2
  <2>3. CASE S \cap {"PROHIBITED", "DESTRUCTIVE"} = {} /\ "EXTERNAL_SIDE_EFFECT" \in S
    BY <1>1, <1>2, <2>3
  <2>4. CASE S \subseteq {"READ_ONLY", "LOCAL_REVERSIBLE"} /\ "LOCAL_REVERSIBLE" \in S
    BY <1>1, <1>2, <2>4
  <2>5. CASE S = {"READ_ONLY"}
    BY <1>1, <1>2, <2>5
  <2> QED
    BY <1>1, <2>1, <2>2, <2>3, <2>4, <2>5
<1> QED
  BY <1>3 DEF MaxClass

\* What the classes below a bound say: READ_ONLY is the least, and what reaches outside
\* is at least EXTERNAL_SIDE_EFFECT.
LEMMA ClassOfCommand ==
  ASSUME NEW call \in Call
  PROVE  /\ CommandClass(call) \in PermissionClass
         /\ CommandClass(call) = "READ_ONLY" => call.segments \subseteq {"READ_ONLY"}
<1> DEFINE S == {"READ_ONLY"} \cup call.segments
<1>1. S \subseteq PermissionClass /\ S # {}
  BY DEF Call, PermissionClass, Severity
<1>2. MaxClass(S) \in S /\ \A d \in S : Severity[d] <= Severity[MaxClass(S)]
  BY <1>1, WorstClass
<1>3. ASSUME MaxClass(S) = "READ_ONLY", NEW d \in S PROVE d = "READ_ONLY"
  BY <1>1, <1>2, <1>3 DEF PermissionClass, Severity
<1> QED
  BY <1>1, <1>2, <1>3 DEF CommandClass

\* A command has one of the classes.
LEMMA BashClassIsOne == ASSUME NEW call \in Call PROVE BashClass(call) \in PermissionClass
<1> DEFINE S == {CommandClass(call)} \cup
                  IF call.mentions \/ ~AllAllowed({p \in call.paths : p.kind # "benign"}, "read")
                  THEN {"EXTERNAL_SIDE_EFFECT"} ELSE {}
<1>1. S \subseteq PermissionClass /\ S # {}
  BY ClassOfCommand DEF PermissionClass, Severity
<1>2. BashClass(call) \in {"PROHIBITED", MaxClass(S)}
  BY DEF BashClass
<1> HIDE DEF S
<1>3. MaxClass(S) \in PermissionClass
  BY <1>1, WorstClass
<1> QED
  BY <1>2, <1>3 DEF PermissionClass, Severity

\* A command that is not prohibited names nothing sensitive; one whose class is lower than
\* EXTERNAL_SIDE_EFFECT opens only what may be read, and a READ_ONLY one changes nothing.
LEMMA ClassOfBash ==
  ASSUME NEW call \in Call, BashClass(call) # "PROHIBITED"
  PROVE  /\ ~call.climbs /\ \A p \in call.paths : p.kind \notin {"sensitive", "home", "foreign"}
         /\ BashClass(call) \in {"READ_ONLY", "LOCAL_REVERSIBLE"} =>
              AllAllowed({p \in call.paths : p.kind # "benign"}, "read")
         /\ BashClass(call) = "READ_ONLY" => call.segments \subseteq {"READ_ONLY"}
<1> DEFINE beyond == call.mentions \/ ~AllAllowed({p \in call.paths : p.kind # "benign"}, "read")
           S      == {CommandClass(call)} \cup IF beyond THEN {"EXTERNAL_SIDE_EFFECT"} ELSE {}
<1>1. ~call.climbs /\ \A p \in call.paths : p.kind \notin {"sensitive", "home", "foreign"}
  BY DEF BashClass
<1>2. BashClass(call) = MaxClass(S)
  BY DEF BashClass
<1>3. CommandClass(call) \in S /\ (beyond => "EXTERNAL_SIDE_EFFECT" \in S)
  OBVIOUS
<1>4. S \subseteq PermissionClass /\ S # {}
  BY ClassOfCommand DEF PermissionClass, Severity
<1> HIDE DEF S
<1>5. MaxClass(S) \in S /\ \A d \in S : Severity[d] <= Severity[MaxClass(S)]
  BY <1>4, WorstClass
<1>6. ASSUME MaxClass(S) \in {"READ_ONLY", "LOCAL_REVERSIBLE"} PROVE "EXTERNAL_SIDE_EFFECT" \notin S
  BY <1>5, <1>6 DEF Severity
<1>7. ASSUME MaxClass(S) = "READ_ONLY" PROVE CommandClass(call) = "READ_ONLY"
  BY <1>3, <1>4, <1>5, <1>7 DEF PermissionClass, Severity
<1> QED
  BY <1>1, <1>2, <1>3, <1>6, <1>7, ClassOfCommand

VerdictOf(call, started) == Decision(call, started = "work")

\* A decision other than deny rules out the class PROHIBITED, and without the right to
\* write it rules out all but READ_ONLY.
LEMMA NotDenied ==
  ASSUME NEW call \in Call, NEW started, call.tool # "own", VerdictOf(call, started) # "deny"
  PROVE  /\ started # "work" => ClassForWriteCheck(call) = "READ_ONLY"
         /\ ClassByTool(call) # "PROHIBITED"
         /\ VerdictOf(call, started) = "allow" => ClassByTool(call) \notin {"EXTERNAL_SIDE_EFFECT", "DESTRUCTIVE"}
<1>1. VerdictOf(call, started) = Policy[ClassifyToolCall(call, started = "work")]
  BY DEF VerdictOf, Decision
<1>2. /\ Policy["PROHIBITED"] = "deny"
      /\ Policy["EXTERNAL_SIDE_EFFECT"] = "ask" /\ Policy["DESTRUCTIVE"] = "ask"
  BY DEF Policy
<1>3. ClassifyToolCall(call, started = "work") # "PROHIBITED"
  BY <1>1, <1>2
<1>4. /\ started # "work" => ClassForWriteCheck(call) = "READ_ONLY"
      /\ ClassifyToolCall(call, started = "work") = ClassByTool(call)
  BY <1>3 DEF ClassifyToolCall
<1> QED
  BY <1>1, <1>2, <1>3, <1>4

\* What every call that was allowed, or was approved and not denied, keeps to.
LEMMA AllowedKeepsTo ==
  ASSUME NEW call \in CallOf, NEW agreed \in BOOLEAN,
         \/ VerdictOf(call, mode) = "allow"
         \/ VerdictOf(call, mode) # "deny" /\ agreed
  PROVE  IF call.tool = "bash" THEN CommandShows(call, agreed) ELSE FileToolsKeepTo(call)
<1>0. call \in Call /\ (call.tool \in {"read", "control", "own"} => ~call.changes)
  BY ClaudeAssumption
<1>1. CASE call.tool = "own"
  BY <1>0, <1>1 DEF FileToolsKeepTo
<1>2. ASSUME call.tool # "own"
      PROVE  /\ mode # "work" => ClassForWriteCheck(call) = "READ_ONLY"
             /\ ClassByTool(call) # "PROHIBITED"
             /\ VerdictOf(call, mode) = "allow" => ClassByTool(call) \notin {"EXTERNAL_SIDE_EFFECT", "DESTRUCTIVE"}
  BY <1>0, <1>2, NotDenied
<1>3. CASE call.tool = "bash"
  <2>1. BashClass(call) # "PROHIBITED" /\ (VerdictOf(call, mode) = "allow" => BashClass(call) \notin {"EXTERNAL_SIDE_EFFECT", "DESTRUCTIVE"})
    BY <1>2, <1>3 DEF ClassByTool
  <2>2. /\ ~call.climbs /\ \A p \in call.paths : p.kind # "sensitive"
        /\ BashClass(call) \in {"READ_ONLY", "LOCAL_REVERSIBLE"} =>
             AllAllowed({p \in call.paths : p.kind # "benign"}, "read")
        /\ BashClass(call) = "READ_ONLY" => call.segments \subseteq {"READ_ONLY"}
    BY <1>0, <2>1, ClassOfBash
  <2>3. mode # "work" => BashClass(call) = "READ_ONLY"
    BY <1>2, <1>3 DEF ClassForWriteCheck
  <2>4. BashClass(call) \in PermissionClass
    BY <1>0, BashClassIsOne
  <2>5. ~agreed => AllAllowed({p \in call.paths : p.kind # "benign"}, "read")
    BY <2>1, <2>2, <2>4 DEF PermissionClass, Severity
  <2>6. ~agreed /\ ~OutsideRead => Reaches(call) \subseteq {"project", "readable"}
    BY <1>3, <2>5 DEF AllAllowed, Allowed, Reaches
  <2> QED
    BY <1>3, <2>2, <2>3, <2>6 DEF CommandShows
<1>4. CASE call.tool = "write"
  <2>1. mode = "work"
    BY <1>2, <1>4 DEF ClassForWriteCheck
  <2>2. (\A p \in call.paths : p.kind # "sensitive") /\ AllAllowed(call.paths, "write")
    BY <1>2, <1>4 DEF ClassByTool
  <2>3. \A p \in call.paths : p.real # "denied" /\ (~OutsideWrite => p.real = "project")
    BY <2>2 DEF AllAllowed, Allowed
  <2> QED
    BY <1>4, <2>1, <2>2, <2>3 DEF Reaches, FileToolsKeepTo
<1>5. CASE call.tool = "read"
  <2>1. (\A p \in call.paths : p.kind # "sensitive") /\ AllAllowed(call.paths, "read")
    BY <1>2, <1>5 DEF ClassByTool
  <2>2. \A p \in call.paths : p.real # "denied" /\ (~OutsideRead => p.real \in {"project", "readable"})
    BY <2>1 DEF AllAllowed, Allowed
  <2> QED
    BY <1>0, <1>5, <2>1, <2>2 DEF Reaches, FileToolsKeepTo
<1>6. CASE call.tool \in {"slash", "mcp", "unknown"}
  BY <1>2, <1>6 DEF ClassForWriteCheck, FileToolsKeepTo
<1>7. CASE call.tool = "control"
  BY <1>0, <1>7 DEF FileToolsKeepTo
<1>8. call.tool \in ToolKind
  BY <1>0 DEF Call
<1> QED
  BY <1>1, <1>3, <1>4, <1>5, <1>6, <1>7, <1>8 DEF ToolKind

-----------------------------------------------------------------------------
(* The tool calls.                                                         *)

Begun   == Over \cup {"proposed", "asking", "allowed", "running"}
ToolUses == {NoUse} \cup [call : CallOf, at : Begun]

\* Where a use is once it was let through.
LetThrough == {"allowed", "running", "good", "bad", "cut", "background"}

\* The user is only asked about what was not denied, and what was let through was
\* allowed, or not denied and approved.
Sanctioned(t, u, started, agreed) ==
  /\ u.at = "asking" => VerdictOf(u.call, started) # "deny"
  /\ u.at \in LetThrough =>
       \/ VerdictOf(u.call, started) = "allow"
       \/ VerdictOf(u.call, started) # "deny" /\ t \in agreed

\* The inductive invariant; before the start there is no call to decide about, so the
\* mode that a call was decided under is the mode it runs under.
CallsInv ==
  /\ use \in [ToolUse -> ToolUses]
  /\ mode = "none" => stream = "none" /\ \A t \in ToolUse : use[t] = NoUse
  /\ \A t \in ToolUse : Sanctioned(t, use[t], mode, approved)

-----------------------------------------------------------------------------
\* A step of one use that has begun, or begins now.
LEMMA UseStep ==
  ASSUME CallsInv, NEW t \in ToolUse, NEW u \in ToolUses, use' = [use EXCEPT ![t] = u], mode # "none",
         UNCHANGED <<mode, stream>>, approved \subseteq approved', Sanctioned(t, u, mode, approved')
  PROVE  CallsInv'
<1>1. ASSUME NEW o \in ToolUse PROVE Sanctioned(o, use'[o], mode', approved')
  BY DEF CallsInv, Sanctioned
<1>2. use' \in [ToolUse -> ToolUses]
  BY DEF CallsInv
<1> QED
  BY <1>1, <1>2 DEF CallsInv

\* A use that moves from one place to another keeps its call.
LEMMA Moves ==
  ASSUME CallsInv, NEW t \in ToolUse, NEW from \in Begun, NEW to \in Begun, At(t, from, to),
         UNCHANGED <<mode, stream>>, approved \subseteq approved',
         Sanctioned(t, [call |-> use[t].call, at |-> to], mode, approved')
  PROVE  CallsInv'
<1> DEFINE u == [call |-> use[t].call, at |-> to]
<1>1. use[t].at = from /\ use[t] # NoUse
  BY DEF At, NoUse, Begun, Over
<1>2. use[t] \in [call : CallOf, at : Begun] /\ mode # "none"
  BY <1>1 DEF CallsInv, ToolUses
<1>3. u \in ToolUses
  BY <1>2 DEF ToolUses
<1>4. use' = [use EXCEPT ![t] = u]
  <2>1. use' = [use EXCEPT ![t] = [use[t] EXCEPT !.at = to]]
    BY DEF At
  <2>2. [use[t] EXCEPT !.at = to] = u
    BY <1>2
  <2> QED
    BY <2>1, <2>2
<1> HIDE DEF u
<1>5. Sanctioned(t, u, mode, approved')
  BY DEF u
<1> QED
  BY <1>2, <1>3, <1>4, <1>5, UseStep

\* A call that is proposed is sanctioned by the mode, or not yet let through.
LEMMA ProposeStep == ASSUME CallsInv, NEW t \in ToolUse, Propose(t) PROVE CallsInv'
<1>1. mode # "none" /\ UNCHANGED <<mode, stream, approved>>
  BY DEF CallsInv, Propose, ending
<1>2. PICK call \in CallOf : use' = [use EXCEPT ![t] = [call |-> call, at |-> "proposed"]]
  BY DEF Propose
<1>3. [call |-> call, at |-> "proposed"] \in ToolUses
  BY ClaudeAssumption DEF ToolUses, Begun
<1>4. Sanctioned(t, [call |-> call, at |-> "proposed"], mode, approved')
  BY DEF Sanctioned, LetThrough
<1> QED
  BY <1>1, <1>2, <1>3, <1>4, UseStep

\* The policy lets a call through only as the mode and the two switches say.
LEMMA PermitStep == ASSUME CallsInv, NEW t \in ToolUse, Permit(t) PROVE CallsInv'
<1> DEFINE says == VerdictOf(use[t].call, mode)
           to   == CASE says = "allow" -> "allowed" [] says = "deny" -> "denied" [] OTHER -> "asking"
<1>1. At(t, "proposed", to) /\ UNCHANGED <<mode, stream, approved>>
  BY DEF Permit, VerdictOf, ending
<1>2. Sanctioned(t, [call |-> use[t].call, at |-> to], mode, approved')
  BY DEF Sanctioned, LetThrough
<1>3. to \in Begun /\ "proposed" \in Begun
  BY DEF Begun, Over
<1> HIDE DEF to
<1> QED
  BY <1>1, <1>2, <1>3, Moves

\* A call the policy left open runs on an approval, which is then on record.
LEMMA AnsweredStep == ASSUME CallsInv, NEW t \in ToolUse, Answered(t) PROVE CallsInv'
<1>1. use[t].at = "asking" /\ approved \subseteq approved' /\ UNCHANGED <<mode, stream>>
  BY DEF Answered, At, ending
<1>2. VerdictOf(use[t].call, mode) # "deny"
  BY <1>1 DEF CallsInv, Sanctioned
<1>3. {"asking", "allowed", "denied"} \subseteq Begun
  BY DEF Begun, Over
<1>4. CASE At(t, "asking", "allowed") /\ approved' = approved \cup {t}
  <2>1. Sanctioned(t, [call |-> use[t].call, at |-> "allowed"], mode, approved')
    BY <1>2, <1>4 DEF Sanctioned
  <2> QED
    BY <1>1, <1>3, <1>4, <2>1, Moves
<1>5. CASE At(t, "asking", "denied")
  <2>1. Sanctioned(t, [call |-> use[t].call, at |-> "denied"], mode, approved')
    BY DEF Sanctioned, LetThrough
  <2> QED
    BY <1>1, <1>3, <1>5, <2>1, Moves
<1> QED
  BY <1>4, <1>5 DEF Answered

\* Running a call changes neither what it is nor why it may run.
LEMMA RunToolStep == ASSUME CallsInv, NEW t \in ToolUse, RunTool(t) PROVE CallsInv'
<1>1. PICK from \in {"allowed", "running"}, to \in {"running", "good", "bad", "cut", "background"} : At(t, from, to)
  BY DEF RunTool
<1>2. from \in Begun /\ to \in Begun /\ UNCHANGED <<mode, stream, approved>>
  BY <1>1 DEF RunTool, Begun, Over, ending
<1>3. use[t].at \in LetThrough
  BY <1>1 DEF At, LetThrough
<1>4. Sanctioned(t, [call |-> use[t].call, at |-> to], mode, approved')
  BY <1>2, <1>3 DEF CallsInv, Sanctioned
<1> QED
  BY <1>1, <1>2, <1>4, Moves

\* The other actions leave the uses, their approvals and the mode alone.
LEMMA CallsElsewhere ==
  ASSUME CallsInv, UNCHANGED <<mode, use, approved>>, stream' = stream \/ mode # "none"
  PROVE  CallsInv'
BY DEF CallsInv

\* Every step keeps the invariant of the calls.
LEMMA CallsStep == CallsInv /\ [ClaudeNext]_claudeVars => CallsInv'
<1> SUFFICES ASSUME CallsInv, [ClaudeNext]_claudeVars PROVE CallsInv'
  OBVIOUS
<1>1. CASE ClaudeStart
  <2>1. /\ mode = "none" /\ mode' # "none" /\ UNCHANGED <<use, approved>>
        /\ \A t \in ToolUse : use[t] = NoUse
    BY <1>1 DEF ClaudeStart, CallsInv, tools
  <2>2. \A t \in ToolUse : Sanctioned(t, use'[t], mode', approved')
    BY <2>1 DEF Sanctioned, NoUse, LetThrough
  <2> QED
    BY <2>1, <2>2 DEF CallsInv
<1>2. CASE ClaudeSend
  BY <1>2, CallsElsewhere DEF ClaudeSend, ending, tools
<1>3. CASE PullNext \/ TakeHanded
  BY <1>3, CallsElsewhere DEF PullNext, TakeHanded, ending, tools
<1>4. CASE \E c \in ClaudeInterrupter : ClaudeInterrupt(c) \/ InterruptHeard(c) \/ InterruptAborts(c)
  BY <1>4, CallsElsewhere DEF ClaudeInterrupt, InterruptHeard, InterruptAborts, tools
<1>5. CASE \E c \in ClaudeDisposer : ClaudeDispose(c) \/ DisposeReturns(c)
  BY <1>5, CallsElsewhere DEF ClaudeDispose, DisposeReturns, tools
<1>6. CASE StreamEnds
  BY <1>6, CallsElsewhere DEF StreamEnds, CallsInv, tools
<1>7. CASE \E t \in ToolUse : Result(t)
  BY <1>7, CallsElsewhere DEF Result, ending
<1>8. CASE UNCHANGED claudeVars
  BY <1>8, CallsElsewhere DEF claudeVars, ending, tools
<1> QED
  BY <1>1, <1>2, <1>3, <1>4, <1>5, <1>6, <1>7, <1>8, ProposeStep, PermitStep, AnsweredStep, RunToolStep
     DEF ClaudeNext, StreamStep, ToolStep

\* No call has been made at first.
LEMMA CallsInitially == ASSUME ClaudeInit PROVE CallsInv
BY DEF ClaudeInit, CallsInv, ToolUses, NoUse, Sanctioned, LetThrough

\* For any configuration and any calls: a file tool that ran changed nothing in a session
\* that was not started to work and kept to the places it may open or write, whatever was
\* approved; a command that ran showed nothing but inspections in such a session, and
\* named nothing out of bounds that was not approved in that call (permissions.ts:435).
\* What a command does beyond its text is no part of it.
THEOREM SanctionTheorem == ClaudeSpec => []CallsAreSanctioned
<1>1. ClaudeInit => CallsInv
  BY CallsInitially
<1>2. CallsInv => CallsAreSanctioned
  <2> SUFFICES ASSUME CallsInv, NEW t \in ToolUse, Ran(t)
               PROVE  IF use[t].call.tool = "bash" THEN CommandShows(use[t].call, t \in approved)
                                                   ELSE FileToolsKeepTo(use[t].call)
    BY DEF CallsAreSanctioned
  <2> DEFINE call   == use[t].call
             agreed == t \in approved
  <2>1. call \in CallOf /\ agreed \in BOOLEAN
    BY DEF CallsInv, ToolUses, NoUse, Ran
  <2>2. \/ VerdictOf(call, mode) = "allow"
        \/ VerdictOf(call, mode) # "deny" /\ agreed
    BY DEF CallsInv, Sanctioned, Ran, LetThrough
  <2> HIDE DEF call, agreed
  <2>3. IF call.tool = "bash" THEN CommandShows(call, agreed) ELSE FileToolsKeepTo(call)
    BY <2>1, <2>2, AllowedKeepsTo
  <2> QED
    BY <2>3 DEF call, agreed
<1> QED
  BY <1>1, <1>2, CallsStep, PTL DEF ClaudeSpec

-----------------------------------------------------------------------------
(* Types.                                                                  *)

\* A push stays within the bound that its guard names.
LEMMA PushTyped ==
  ASSUME ClaudeTypeOK, Push, sent < MaxSent
  PROVE  /\ sent' \in 0..MaxSent /\ buffer' \in Seq(1..MaxSent)
         /\ reader' \in {"away", "waiting", "handed", "ended"} /\ handed' \in 0..MaxSent
<1>1. sent' = sent + 1 /\ sent' \in 1..MaxSent /\ sent' \in 0..MaxSent
  BY ClaudeAssumption DEF Push, ClaudeTypeOK
<1>2. Append(buffer, sent') \in Seq(1..MaxSent)
  BY <1>1, AppendProperties DEF ClaudeTypeOK
<1>3. /\ buffer' \in {buffer, Append(buffer, sent')} /\ reader' \in {reader, "handed"}
      /\ handed' \in {handed, sent'}
  BY DEF Push
<1>4. /\ buffer \in Seq(1..MaxSent) /\ handed \in 0..MaxSent
      /\ reader \in {"away", "waiting", "handed", "ended"}
  BY DEF ClaudeTypeOK
<1> QED
  BY <1>1, <1>2, <1>3, <1>4

\* Every step keeps the types; those of the uses follow from the invariant of the calls.
LEMMA ClaudeTypedStep ==
  ASSUME ClaudeTypeOK, CallsInv', [ClaudeNext]_claudeVars
  PROVE  ClaudeTypeOK'
<1>1. \A t \in ToolUse :
        \/ use'[t] = NoUse
        \/ /\ use'[t].call \in Call
           /\ use'[t].at \in Over \cup {"proposed", "asking", "allowed", "running"}
  BY ClaudeAssumption DEF CallsInv, ToolUses, Begun
<1> USE DEF ClaudeTypeOK
<1>2. CASE ClaudeStart
  BY <1>1, <1>2, PushTyped DEF ClaudeStart, tools
<1>3. CASE ClaudeSend
  BY <1>1, <1>3, PushTyped DEF ClaudeSend, ending, tools
<1>4. CASE PullNext
  <2>1. CASE buffer # <<>>
    <3>1. Tail(buffer) \in Seq(1..MaxSent) /\ Append(taken, Head(buffer)) \in Seq(1..MaxSent)
      BY <2>1, HeadTailProperties, AppendProperties
    <3> QED
      BY <1>1, <1>4, <2>1, <3>1 DEF PullNext, ending, tools
  <2>2. CASE buffer = <<>>
    BY <1>1, <1>4, <2>2 DEF PullNext, ending, tools
  <2> QED
    BY <2>1, <2>2
<1>5. CASE TakeHanded
  <2>1. handed # NoItem => Append(taken, handed) \in Seq(1..MaxSent)
    BY AppendProperties DEF NoItem
  <2>2. NoItem \in 0..MaxSent
    BY ClaudeAssumption DEF NoItem
  <2> QED
    BY <1>1, <1>5, <2>1, <2>2 DEF TakeHanded, ending, tools
<1>6. ASSUME NEW c \in ClaudeStopper, NEW how \in {"waiting", "returned"},
             claudeStop' = [claudeStop EXCEPT ![c] = how]
      PROVE  claudeStop' \in [ClaudeStopper -> {"idle", "waiting", "returned"}]
  BY <1>6
<1>7. ASSUME NEW c \in ClaudeInterrupter, ClaudeInterrupt(c) \/ InterruptHeard(c) \/ InterruptAborts(c)
      PROVE  ClaudeTypeOK'
  <2>1. claudeStop' \in [ClaudeStopper -> {"idle", "waiting", "returned"}]
    BY <1>6, <1>7 DEF ClaudeInterrupt, InterruptHeard, InterruptAborts, ClaudeStopper
  <2>2. UNCHANGED <<mode, input, stream, claudeDisposed, tools>> /\ aborted' \in BOOLEAN
    BY <1>7 DEF ClaudeInterrupt, InterruptHeard, InterruptAborts
  <2> QED
    BY <1>1, <2>1, <2>2 DEF input, tools
<1>8. ASSUME NEW c \in ClaudeDisposer, ClaudeDispose(c) \/ DisposeReturns(c) PROVE ClaudeTypeOK'
  <2>1. claudeStop' \in [ClaudeStopper -> {"idle", "waiting", "returned"}]
    BY <1>6, <1>8 DEF ClaudeDispose, DisposeReturns, ClaudeStopper
  <2>2. /\ UNCHANGED <<mode, sent, buffer, handed, taken, stream, tools>>
        /\ aborted' \in BOOLEAN /\ inputClosed' \in BOOLEAN /\ claudeDisposed' \in BOOLEAN
        /\ reader' \in {"away", "waiting", "handed", "ended"}
    BY <1>8 DEF ClaudeDispose, DisposeReturns, CloseInput, input
  <2> QED
    BY <1>1, <2>1, <2>2 DEF tools
<1>9. CASE StreamEnds
  BY <1>1, <1>9 DEF StreamEnds, input, tools
<1>10. CASE ToolStep
  <2>1. UNCHANGED <<mode, input, ending>>
    BY <1>10 DEF ToolStep, Propose, Permit, Answered, RunTool, Result
  <2>2. inFlight' \subseteq ToolUse /\ approved' \subseteq ToolUse
    BY <1>10 DEF ToolStep, Propose, Permit, Answered, RunTool, Result
  <2>3. tests' \in {NoTest} \cup [outcome : {"passed", "failed"}, of : ToolUse]
    BY <1>10 DEF ToolStep, Propose, Permit, Answered, RunTool, Result, TestOutcome
  <2> QED
    BY <1>1, <2>1, <2>2, <2>3 DEF input, ending
<1>11. CASE UNCHANGED claudeVars
  BY <1>1, <1>11 DEF claudeVars, input, ending, tools
<1> QED
  BY <1>2, <1>3, <1>4, <1>5, <1>7, <1>8, <1>9, <1>10, <1>11 DEF ClaudeNext, StreamStep

\* Every variable of a Claude session keeps its type, for any bound on the instructions.
THEOREM ClaudeTypes == ClaudeSpec => []ClaudeTypeOK
<1>1. ClaudeInit => ClaudeTypeOK /\ CallsInv
  <2> SUFFICES ASSUME ClaudeInit PROVE ClaudeTypeOK /\ CallsInv
    OBVIOUS
  <2>1. CallsInv
    BY CallsInitially
  <2>2. <<>> \in Seq(1..MaxSent) /\ 0 \in 0..MaxSent
    BY ClaudeAssumption
  <2> QED
    BY <2>1, <2>2 DEF ClaudeInit, ClaudeTypeOK, NoItem, NoUse, NoTest
<1> QED
  BY <1>1, CallsStep, ClaudeTypedStep, PTL DEF ClaudeSpec

-----------------------------------------------------------------------------
(* Codex.                                                                  *)

USE DEF turn, stops

-----------------------------------------------------------------------------
(* Types.                                                                  *)

\* A turn is always about an instruction; needed for what Continue reports.
TurnHasInstr == drain # "idle" => current \in Instr

Typed == CodexTypeOK /\ TurnHasInstr

\* No instruction waits when the queue was emptied.
LEMMA EmptyQueue == <<>> \in Seq(Instr)
  OBVIOUS

\* The head of the loop keeps the types, whatever queue of instructions it is given.
LEMMA RunNextTyped ==
  ASSUME Typed, NEW q \in Seq(Instr), RunNext(q)
  PROVE  /\ queue' \in Seq(Instr)
         /\ drain' \in {"idle", "turn", "settled"}
         /\ current' \in Instr \cup {None}
         /\ drain' # "idle" => current' \in Instr
         /\ proc' \in [Instr -> {"none", "unspawned", "alive", "done", "broken", "killed", "closed"}]
         /\ pipes' \in [Instr -> BOOLEAN]
         /\ streamError' \in BOOLEAN
         /\ verdict' \in {"pending", "good", "bad"}
<1>1. CASE MayRun(q)
  <2>1. Head(q) \in Instr /\ Tail(q) \in Seq(Instr)
    BY <1>1 DEF MayRun
  <2> QED
    BY <1>1, <2>1 DEF RunNext, Typed, CodexTypeOK, TurnHasInstr
<1>2. CASE ~MayRun(q)
  BY <1>2 DEF RunNext, Typed, CodexTypeOK, TurnHasInstr
<1> QED
  BY <1>1, <1>2

\* Every step keeps the types.
LEMMA TypedStep == Typed /\ [CodexNext]_codexVars => Typed'
<1> SUFFICES ASSUME Typed, [CodexNext]_codexVars PROVE Typed'
  OBVIOUS
<1> USE DEF Typed, CodexTypeOK, TurnHasInstr
<1>1. CASE Accept
  <2>1. cxAccepted' \in Instr
    BY <1>1, CodexAssumption DEF Accept, Instr
  <2>2. Append(queue, cxAccepted') \in Seq(Instr)
    BY <2>1
  <2>3. CASE Free
    <3>1. RunNext(Append(queue, cxAccepted'))
      BY <1>1, <2>3 DEF Accept
    <3>2. /\ queue' \in Seq(Instr)
          /\ drain' \in {"idle", "turn", "settled"}
          /\ current' \in Instr \cup {None}
          /\ drain' # "idle" => current' \in Instr
          /\ proc' \in [Instr -> {"none", "unspawned", "alive", "done", "broken", "killed", "closed"}]
          /\ pipes' \in [Instr -> BOOLEAN]
          /\ streamError' \in BOOLEAN
          /\ verdict' \in {"pending", "good", "bad"}
      BY <2>2, <3>1, RunNextTyped
    <3>3. UNCHANGED <<stops, reported, errors>>
      BY <1>1, Zenon DEF Accept
    <3>4. cxAccepted' \in 0..MaxInstr
      BY <2>1, CodexAssumption DEF Instr
    <3> QED
      BY <3>2, <3>3, <3>4
  <2>4. CASE ~Free
    <3>1. /\ queue' = Append(queue, cxAccepted')
          /\ UNCHANGED <<turn, stops, reported, errors>>
      BY <1>1, <2>4, Zenon DEF Accept
    <3> QED
      BY <2>1, <2>2, <3>1, CodexAssumption DEF Instr
  <2> QED
    BY <2>3, <2>4
<1>2. ASSUME NEW i \in Instr, Settle(i) PROVE Typed'
  BY <1>2 DEF Settle
<1>3. CASE Continue
  <2>1. CASE Succeeded
    <3>1. RunNext(queue) /\ reported' = Append(reported, current) /\ UNCHANGED <<cxAccepted, stops, errors>>
      BY <1>3, <2>1 DEF Continue
    <3>2. reported' \in Seq(Instr)
      BY <1>3, <3>1 DEF Continue
    <3> QED
      BY <3>1, <3>2, RunNextTyped
  <2>2. CASE ~Succeeded
    <3>1. /\ queue' = <<>> /\ drain' = "idle"
          /\ UNCHANGED <<current, proc, pipes, streamError, verdict, reported, cxAccepted, stops>>
      BY <1>3, <2>2, Zenon DEF Continue
    <3>2. errors' \in Nat
      BY <1>3, <2>2 DEF Continue, Stopped
    <3>3. queue' \in Seq(Instr)
      BY <3>1, EmptyQueue, Zenon
    <3> QED
      BY <3>1, <3>2, <3>3
  <2> QED
    BY <2>1, <2>2
<1>4. ASSUME NEW c \in Interrupter, CallInterrupt(c) PROVE Typed'
  BY <1>4 DEF CallInterrupt, Interrupt, Stopper
<1>5. ASSUME NEW c \in Disposer, CallDispose(c) PROVE Typed'
  BY <1>5, EmptyQueue DEF CallDispose, Interrupt, Stopper
<1>6. ASSUME NEW c \in Stopper, CloseSeen(c) PROVE Typed'
  BY <1>6 DEF CloseSeen
<1>7. ASSUME NEW c \in Stopper, GraceOver(c) PROVE Typed'
  BY <1>7 DEF GraceOver
<1>8. CASE StreamFails
  BY <1>8 DEF StreamFails
<1>9. ASSUME NEW i \in Instr, Exit(i) PROVE Typed'
  BY <1>9 DEF Exit
<1>10. ASSUME NEW i \in Instr, ReleasePipes(i) PROVE Typed'
  BY <1>10 DEF ReleasePipes
<1>11. ASSUME NEW i \in Instr, ObeyTerm(i) PROVE Typed'
  BY <1>11 DEF ObeyTerm
<1>12. CASE UNCHANGED codexVars
  BY <1>12 DEF codexVars
<1> QED
  BY <1>1, <1>2, <1>3, <1>4, <1>5, <1>6, <1>7, <1>8, <1>9, <1>10, <1>11, <1>12
     DEF CodexNext, ChildStep

\* The types hold in every state of every Codex session.
LEMMA AlwaysTyped == CodexSpec => []Typed
<1>1. CodexInit => Typed
  <2> SUFFICES ASSUME CodexInit PROVE Typed
    OBVIOUS
  <2>1. queue \in Seq(Instr) /\ reported \in Seq(Instr)
    BY EmptyQueue DEF CodexInit
  <2>2. /\ proc \in [Instr -> {"none", "unspawned", "alive", "done", "broken", "killed", "closed"}]
        /\ pipes \in [Instr -> BOOLEAN]
        /\ stopper \in [Stopper -> {"idle", "waiting", "returned"}]
    BY DEF CodexInit
  <2>3. cxAccepted \in 0..MaxInstr
    BY CodexAssumption DEF CodexInit
  <2> QED
    BY <2>1, <2>2, <2>3 DEF CodexInit, None, Typed, CodexTypeOK, TurnHasInstr
<1> QED
  BY <1>1, TypedStep, PTL DEF CodexSpec

\* Every reachable state of a Codex session is well typed.
THEOREM CodexTypes == CodexSpec => []CodexTypeOK
<1>1. Typed => CodexTypeOK
  BY DEF Typed
<1> QED
  BY <1>1, AlwaysTyped, PTL

-----------------------------------------------------------------------------
(* One child at a time.                                                    *)

\* The head of the loop spawns a child only where every earlier one has closed.
LEMMA RunNextOneChild ==
  ASSUME Typed, OneChildAtATime, drain # "turn", NEW q \in Seq(Instr), RunNext(q)
  PROVE  OneChildAtATime'
<1>1. \A i \in Instr : proc[i] \in {"none", "closed"}
  BY DEF OneChildAtATime
<1>2. CASE MayRun(q)
  <2>1. Head(q) \in Instr
    BY <1>2 DEF MayRun
  <2>2. drain' = "turn" /\ current' = Head(q) /\ \E p : proc' = [proc EXCEPT ![Head(q)] = p]
    BY <1>2, Zenon DEF RunNext
  <2> QED
    BY <1>1, <2>1, <2>2 DEF OneChildAtATime, Typed, CodexTypeOK
<1>3. CASE ~MayRun(q)
  <2>1. UNCHANGED proc
    BY <1>3, Zenon DEF RunNext
  <2> QED
    BY <1>1, <2>1 DEF OneChildAtATime
<1> QED
  BY <1>2, <1>3

\* No step leaves a child beside the one of the turn.
LEMMA OneChildStep ==
  Typed /\ OneChildAtATime /\ [CodexNext]_codexVars => OneChildAtATime'
<1> SUFFICES ASSUME Typed, OneChildAtATime, [CodexNext]_codexVars PROVE OneChildAtATime'
  OBVIOUS
<1> USE DEF Typed, CodexTypeOK, OneChildAtATime
<1>1. CASE Accept
  <2>1. CASE Free
    <3>1. Append(queue, cxAccepted') \in Seq(Instr)
      BY <1>1, CodexAssumption DEF Accept, Instr
    <3>2. RunNext(Append(queue, cxAccepted'))
      BY <1>1, <2>1, Zenon DEF Accept
    <3>3. drain # "turn"
      BY <2>1 DEF Free
    <3> QED
      BY <3>1, <3>2, <3>3, RunNextOneChild
  <2>2. CASE ~Free
    <3>1. UNCHANGED turn
      BY <1>1, <2>2, Zenon DEF Accept
    <3> QED
      BY <3>1
  <2> QED
    BY <2>1, <2>2
<1>2. ASSUME NEW i \in Instr, Settle(i) PROVE OneChildAtATime'
  BY <1>2 DEF Settle
<1>3. CASE Continue
  <2>1. drain = "settled"
    BY <1>3, Zenon DEF Continue
  <2>2. CASE RunNext(queue)
    BY <2>1, <2>2, RunNextOneChild
  <2>3. CASE ~RunNext(queue)
    <3>1. UNCHANGED proc
      BY <1>3, <2>3, Zenon DEF Continue
    <3> QED
      BY <2>1, <3>1
  <2> QED
    BY <2>2, <2>3
<1>4. ASSUME NEW c \in Interrupter, CallInterrupt(c) PROVE OneChildAtATime'
  BY <1>4 DEF CallInterrupt
<1>5. ASSUME NEW c \in Disposer, CallDispose(c) PROVE OneChildAtATime'
  BY <1>5 DEF CallDispose
<1>6. ASSUME NEW c \in Stopper, CloseSeen(c) PROVE OneChildAtATime'
  BY <1>6 DEF CloseSeen
<1>7. ASSUME NEW c \in Stopper, GraceOver(c) PROVE OneChildAtATime'
  BY <1>7 DEF GraceOver
<1>8. CASE StreamFails
  BY <1>8 DEF StreamFails
<1>9. ASSUME NEW i \in Instr, Exit(i) PROVE OneChildAtATime'
  BY <1>9 DEF Exit
<1>10. ASSUME NEW i \in Instr, ReleasePipes(i) PROVE OneChildAtATime'
  BY <1>10 DEF ReleasePipes
<1>11. ASSUME NEW i \in Instr, ObeyTerm(i) PROVE OneChildAtATime'
  BY <1>11 DEF ObeyTerm
<1>12. CASE UNCHANGED codexVars
  BY <1>12 DEF codexVars
<1> QED
  BY <1>1, <1>2, <1>3, <1>4, <1>5, <1>6, <1>7, <1>8, <1>9, <1>10, <1>11, <1>12
     DEF CodexNext, ChildStep

\* However many instructions and calls that stop the worker there are, a child that
\* has not closed is the one that drain awaits.
THEOREM OneChildTheorem == CodexSpec => []OneChildAtATime
<1>1. CodexInit => OneChildAtATime
  BY DEF CodexInit, OneChildAtATime
<1> QED
  BY <1>1, OneChildStep, AlwaysTyped, PTL DEF CodexSpec

-----------------------------------------------------------------------------
(* A Codex session implements TurnQueue.                                   *)

\* The queue holds the instructions accepted last, in order, and behind the turn.
QueueIsTheRest ==
  \A n \in 1..Len(queue) : queue[n] = cxAccepted - Len(queue) + n

\* Until the worker is stopped, nothing waits while nothing runs, and the turn is
\* about the instruction before the ones that wait.
TurnIsNext ==
  /\ ~Stopped /\ drain = "idle" => queue = <<>>
  /\ ~Stopped /\ drain # "idle" => current = cxAccepted - Len(queue)

Queued == Typed /\ QueueIsTheRest /\ TurnIsNext

\* The head of the loop on a queue that is the rest of n instructions leaves one
\* that is, and a turn about the instruction before it.
LEMMA RunNextInOrder ==
  ASSUME NEW n \in Nat, NEW q \in Seq(Instr), RunNext(q),
         disposed \in BOOLEAN, interrupted \in BOOLEAN,
         \A k \in 1..Len(q) : q[k] = n - Len(q) + k
  PROVE  /\ \A k \in 1..Len(queue') : queue'[k] = n - Len(queue') + k
         /\ MayRun(q) => /\ drain' # "idle"
                         /\ Len(queue') = Len(q) - 1
                         /\ current' = n - Len(queue')
         /\ ~MayRun(q) => /\ drain' = "idle"
                          /\ queue' = q
                          /\ ~Stopped => queue' = <<>>
<1>1. CASE MayRun(q)
  <2>1. queue' = Tail(q) /\ drain' = "turn" /\ current' = Head(q)
    BY <1>1, Zenon DEF RunNext
  <2>2. q # <<>>
    BY <1>1, Zenon DEF MayRun
  <2>3. Len(q) \in Nat /\ Len(q) >= 1
    BY <2>2
  <2>4. Len(queue') = Len(q) - 1 /\ \A k \in 1..Len(queue') : queue'[k] = q[k + 1]
    BY <2>1, <2>2, <2>3
  <2>5. current' = q[1]
    BY <2>1, <2>2
  <2>6. current' = n - Len(queue')
    BY <2>3, <2>4, <2>5
  <2>7. ASSUME NEW k \in 1..Len(queue') PROVE queue'[k] = n - Len(queue') + k
    BY <2>3, <2>4
  <2> QED
    BY <1>1, <2>1, <2>4, <2>6, <2>7
<1>2. CASE ~MayRun(q)
  <2>1. queue' = q /\ drain' = "idle"
    BY <1>2, Zenon DEF RunNext
  <2>2. ~Stopped => q = <<>>
    BY <1>2 DEF MayRun, Stopped
  <2> QED
    BY <1>2, <2>1, <2>2
<1> QED
  BY <1>1, <1>2

\* What a step that touches neither the queue nor what is reported preserves.
LEMMA QuietStep ==
  ASSUME Queued, UNCHANGED <<cxAccepted, queue, current, interrupted, disposed, reported, errors>>,
         (drain' # "idle") <=> (drain # "idle")
  PROVE  /\ QueueIsTheRest' /\ TurnIsNext'
         /\ UNCHANGED Turns!turnVars
<1>1. Stopped' <=> Stopped
  BY DEF Stopped
<1>2. QueueIsTheRest' /\ TurnIsNext'
  BY <1>1 DEF Queued, QueueIsTheRest, TurnIsNext
<1>3. UNCHANGED Turns!turnVars
  BY <1>1 DEF Turns!turnVars, Stopped
<1> QED
  BY <1>2, <1>3

\* The set of reported instructions grows by the one reported.
LEMMA ReportedGrows ==
  ASSUME NEW r \in Seq(Instr), NEW i
  PROVE  {Append(r, i)[n] : n \in 1..Len(Append(r, i))} = {r[n] : n \in 1..Len(r)} \cup {i}
<1> DEFINE a == Append(r, i)
<1>1. Len(r) \in Nat /\ Len(a) = Len(r) + 1
  OBVIOUS
<1>2. (\A n \in 1..Len(r) : a[n] = r[n]) /\ a[Len(r) + 1] = i
  OBVIOUS
<1>3. ASSUME NEW x PROVE x \in {a[n] : n \in 1..Len(a)} <=> x \in {r[n] : n \in 1..Len(r)} \cup {i}
  BY <1>1, <1>2
<1> QED
  BY <1>3

InStep == QueueIsTheRest' /\ TurnIsNext' /\ [Turns!TurnNext]_(Turns!turnVars)

\* An accepted instruction is submitted: begun at once when nothing runs.
LEMMA AcceptSubmits == Queued /\ Accept => InStep
<1> SUFFICES ASSUME Queued, Accept PROVE InStep
  OBVIOUS
<1> DEFINE q == Append(queue, cxAccepted')
<1>1. /\ cxAccepted \in Nat /\ cxAccepted < MaxInstr /\ cxAccepted' = cxAccepted + 1
      /\ cxAccepted' \in Instr
  BY CodexAssumption DEF Queued, Typed, CodexTypeOK, Accept, Instr
<1>2. UNCHANGED <<stops, reported, errors>>
  BY Zenon DEF Accept
<1>3. queue \in Seq(Instr) /\ disposed \in BOOLEAN /\ interrupted \in BOOLEAN
  BY DEF Queued, Typed, CodexTypeOK
<1>4. q \in Seq(Instr) /\ Len(q) = Len(queue) + 1 /\ Len(queue) \in Nat
  BY <1>1, <1>3
<1>5. \A k \in 1..Len(q) : q[k] = cxAccepted' - Len(q) + k
  <2> SUFFICES ASSUME NEW k \in 1..Len(q) PROVE q[k] = cxAccepted' - Len(q) + k
    OBVIOUS
  <2>1. CASE k = Len(q)
    BY <1>1, <1>3, <1>4, <2>1
  <2>2. CASE k \in 1..Len(queue)
    <3>1. q[k] = queue[k]
      BY <1>3, <2>2
    <3>2. queue[k] = cxAccepted - Len(queue) + k
      BY <2>2 DEF Queued, QueueIsTheRest
    <3> QED
      BY <1>1, <1>4, <2>2, <3>1, <3>2
  <2> QED
    BY <1>4, <2>1, <2>2
<1>6. Stopped' <=> Stopped
  BY <1>2 DEF Stopped
<1> HIDE DEF q
<1>7. CASE Free
  <2>1. RunNext(q)
    BY <1>7, Zenon DEF Accept, q
  <2>2. /\ \A k \in 1..Len(queue') : queue'[k] = cxAccepted' - Len(queue') + k
        /\ MayRun(q) => /\ drain' # "idle"
                        /\ Len(queue') = Len(q) - 1
                        /\ current' = cxAccepted' - Len(queue')
        /\ ~MayRun(q) => /\ drain' = "idle"
                         /\ queue' = q
                         /\ ~Stopped => queue' = <<>>
    <3>1. cxAccepted' \in Nat /\ q \in Seq(Instr)
      BY <1>1, <1>4
    <3> QED
      BY <1>3, <1>5, <2>1, <3>1, RunNextInOrder, Zenon
  <2>3. QueueIsTheRest'
    BY <2>2 DEF QueueIsTheRest
  <2>4. MayRun(q) <=> ~Stopped
    BY <1>4 DEF MayRun, Stopped
  <2>5. TurnIsNext'
    BY <1>6, <2>2, <2>4 DEF TurnIsNext
  <2>6. drain = "idle" /\ (~Stopped => Len(queue) = 0)
    BY <1>7 DEF Free, Queued, TurnIsNext
  <2>7. Turns!Submit
    <3>1. IF drain # "idle" \/ Stopped
          THEN UNCHANGED <<cxAccepted - Len(queue), drain # "idle">>
          ELSE cxAccepted' - Len(queue') = cxAccepted' /\ (drain' # "idle") = TRUE
      <4>1. CASE Stopped
        BY <1>1, <1>4, <2>2, <2>4, <2>6, <4>1
      <4>2. CASE ~Stopped
        BY <1>1, <1>4, <2>2, <2>4, <2>6, <4>2
      <4> QED
        BY <4>1, <4>2
    <3> QED
      BY <1>1, <1>2, <1>6, <3>1 DEF Turns!Submit, Stopped
  <2> QED
    BY <2>3, <2>5, <2>7 DEF InStep, Turns!TurnNext
<1>8. CASE ~Free
  <2>1. queue' = q /\ UNCHANGED turn
    BY <1>8, Zenon DEF Accept, q
  <2>2. QueueIsTheRest'
    BY <1>5, <2>1 DEF QueueIsTheRest
  <2>3. drain # "idle" /\ drain' # "idle"
    BY <1>8, <2>1 DEF Free
  <2>4. TurnIsNext'
    BY <1>1, <1>4, <1>6, <2>1, <2>3 DEF TurnIsNext, Queued
  <2>5. Turns!Submit
    BY <1>1, <1>2, <1>4, <1>6, <2>1, <2>3 DEF Turns!Submit, Stopped
  <2> QED
    BY <2>2, <2>4, <2>5 DEF InStep, Turns!TurnNext
<1> QED
  BY <1>7, <1>8

\* A turn that ends is a completion, a failure, or the winding down of a stop.
LEMMA ContinueSettles == Queued /\ Continue => InStep
<1> SUFFICES ASSUME Queued, Continue PROVE InStep
  OBVIOUS
<1>1. /\ queue \in Seq(Instr) /\ Len(queue) \in Nat /\ cxAccepted \in Nat
      /\ reported \in Seq(Instr) /\ errors \in Nat
      /\ disposed \in BOOLEAN /\ interrupted \in BOOLEAN
  BY CodexAssumption DEF Queued, Typed, CodexTypeOK
<1>2. drain = "settled" /\ UNCHANGED <<cxAccepted, stops>>
  BY Zenon DEF Continue
<1>3. Stopped' <=> Stopped
  BY <1>2 DEF Stopped
<1>4. CASE Succeeded
  <2>1. ~Stopped
    BY <1>4 DEF Succeeded
  <2>2. RunNext(queue) /\ reported' = Append(reported, current) /\ UNCHANGED errors
    BY <1>4, Zenon DEF Continue
  <2>3. /\ \A k \in 1..Len(queue') : queue'[k] = cxAccepted - Len(queue') + k
        /\ MayRun(queue) => /\ drain' # "idle"
                            /\ Len(queue') = Len(queue) - 1
                            /\ current' = cxAccepted - Len(queue')
        /\ ~MayRun(queue) => /\ drain' = "idle"
                             /\ queue' = queue
                             /\ ~Stopped => queue' = <<>>
    BY <1>1, <2>2, RunNextInOrder, Zenon DEF Queued, QueueIsTheRest
  <2>4. QueueIsTheRest' /\ TurnIsNext'
    BY <1>2, <1>3, <2>1, <2>3 DEF QueueIsTheRest, TurnIsNext
  <2>5. current = cxAccepted - Len(queue)
    BY <1>2, <2>1 DEF Queued, TurnIsNext
  <2>6. {reported'[n] : n \in 1..Len(reported')}
          = {reported[n] : n \in 1..Len(reported)} \cup {cxAccepted - Len(queue)}
    BY <1>1, <2>2, <2>5, ReportedGrows
  <2>7. MayRun(queue) <=> Len(queue) > 0
    BY <1>1, <2>1 DEF MayRun, Stopped
  <2>8. IF cxAccepted - Len(queue) < cxAccepted
        THEN cxAccepted' - Len(queue') = cxAccepted - Len(queue) + 1 /\ UNCHANGED (drain # "idle")
        ELSE (drain' # "idle") = FALSE /\ UNCHANGED (cxAccepted - Len(queue))
    <3>1. CASE Len(queue) > 0
      <4>1. drain' # "idle" /\ Len(queue') = Len(queue) - 1
        BY <2>3, <2>7, <3>1, Zenon
      <4> QED
        BY <1>1, <1>2, <3>1, <4>1
    <3>2. CASE ~(Len(queue) > 0)
      <4>1. drain' = "idle" /\ queue' = queue
        BY <2>3, <2>7, <3>2, Zenon
      <4> QED
        BY <1>1, <1>2, <3>2, <4>1
    <3> QED
      BY <3>1, <3>2
  <2>9. Turns!Complete
    BY <1>2, <1>3, <2>1, <2>2, <2>6, <2>8 DEF Turns!Complete
  <2> QED
    BY <2>4, <2>9 DEF InStep, Turns!TurnNext
<1>5. CASE ~Succeeded
  <2>1. /\ queue' = <<>> /\ drain' = "idle" /\ UNCHANGED <<reported, cxAccepted, stops>>
        /\ errors' = IF Stopped THEN errors ELSE errors + 1
    BY <1>5, Zenon DEF Continue
  <2>2. Len(queue') = 0
    BY <2>1
  <2>3. QueueIsTheRest' /\ TurnIsNext'
    BY <2>1, <2>2 DEF QueueIsTheRest, TurnIsNext
  <2>4. cxAccepted' - Len(queue') = cxAccepted
    BY <1>1, <2>1, <2>2
  <2>5. CASE Stopped
    <3>1. errors' = errors /\ Stopped' /\ drain # "idle"
      BY <1>2, <1>3, <2>1, <2>5
    <3>2. Turns!WindDown
      BY <2>1, <2>4, <2>5, <3>1 DEF Turns!WindDown, Stopped
    <3> QED
      BY <2>3, <3>2 DEF InStep, Turns!TurnNext
  <2>6. CASE ~Stopped
    <3>1. errors' > 0 /\ ~Stopped' /\ drain # "idle"
      BY <1>1, <1>2, <1>3, <2>1, <2>6
    <3>2. Turns!Fail
      BY <2>1, <2>4, <2>6, <3>1 DEF Turns!Fail, Stopped
    <3> QED
      BY <2>3, <3>2 DEF InStep, Turns!TurnNext
  <2> QED
    BY <2>5, <2>6
<1> QED
  BY <1>4, <1>5

\* A call that stops the worker stops it, and nothing waits any more.
LEMMA StopperStops ==
  ASSUME Queued, NEW c, Interrupt(c), Stopped',
         UNCHANGED <<cxAccepted, drain, reported, errors>>
  PROVE  InStep
<1>1. queue' = <<>> /\ Len(queue') = 0
  BY DEF Interrupt
<1>2. cxAccepted' - Len(queue') = cxAccepted
  BY <1>1, CodexAssumption DEF Queued, Typed, CodexTypeOK
<1>3. QueueIsTheRest' /\ TurnIsNext'
  BY <1>1 DEF QueueIsTheRest, TurnIsNext
<1>4. Stopped' = TRUE
  BY DEF Stopped
<1>5. Turns!Stop
  BY <1>2, <1>4 DEF Turns!Stop
<1> QED
  BY <1>3, <1>5 DEF InStep, Turns!TurnNext

\* Every step is one of TurnQueue's, or one that TurnQueue does not see.
LEMMA TurnStep == Queued /\ [CodexNext]_codexVars => InStep
<1> SUFFICES ASSUME Queued, [CodexNext]_codexVars PROVE InStep
  OBVIOUS
<1>1. CASE Accept
  BY <1>1, AcceptSubmits
<1>2. ASSUME NEW i \in Instr, Settle(i) PROVE InStep
  BY <1>2, QuietStep DEF Settle, InStep
<1>3. CASE Continue
  BY <1>3, ContinueSettles
<1>4. ASSUME NEW c \in Interrupter, CallInterrupt(c) PROVE InStep
  <2>1. Stopped'
    BY <1>4 DEF CallInterrupt, Interrupt, Stopped
  <2> QED
    BY <1>4, <2>1, StopperStops DEF CallInterrupt
<1>5. ASSUME NEW c \in Disposer, CallDispose(c) PROVE InStep
  <2>1. Stopped'
    BY <1>5 DEF CallDispose, Stopped
  <2>2. CASE disposed
    <3>1. UNCHANGED <<cxAccepted, queue, current, drain, interrupted, reported, errors>> /\ disposed'
      BY <1>5, <2>2 DEF CallDispose
    <3>2. UNCHANGED disposed
      BY <2>2, <3>1, <1>5, Zenon DEF CallDispose, Queued, Typed, CodexTypeOK
    <3> QED
      BY <3>1, <3>2, QuietStep DEF InStep
  <2>3. CASE ~disposed
    BY <1>5, <2>1, <2>3, StopperStops DEF CallDispose
  <2> QED
    BY <2>2, <2>3
<1>6. ASSUME NEW c \in Stopper, CloseSeen(c) PROVE InStep
  BY <1>6, QuietStep DEF CloseSeen, InStep
<1>7. ASSUME NEW c \in Stopper, GraceOver(c) PROVE InStep
  BY <1>7, QuietStep DEF GraceOver, InStep
<1>8. CASE StreamFails
  BY <1>8, QuietStep DEF StreamFails, InStep
<1>9. ASSUME NEW i \in Instr, Exit(i) PROVE InStep
  BY <1>9, QuietStep DEF Exit, InStep
<1>10. ASSUME NEW i \in Instr, ReleasePipes(i) PROVE InStep
  BY <1>10, QuietStep DEF ReleasePipes, InStep
<1>11. ASSUME NEW i \in Instr, ObeyTerm(i) PROVE InStep
  BY <1>11, QuietStep DEF ObeyTerm, InStep
<1>12. CASE UNCHANGED codexVars
  BY <1>12, QuietStep DEF codexVars, InStep
<1> QED
  BY <1>1, <1>2, <1>3, <1>4, <1>5, <1>6, <1>7, <1>8, <1>9, <1>10, <1>11, <1>12
     DEF CodexNext, ChildStep

\* A Codex session does what TurnQueue says: instructions are worked on one by one and
\* in order, none waits while nothing runs, each is reported once, and nothing is
\* reported after a stop.
THEOREM CodexImplementsTurnQueue == CodexSpec => ImplementsTurnQueue
<1>1. CodexInit => QueueIsTheRest /\ TurnIsNext /\ Turns!TurnInit
  <2> SUFFICES ASSUME CodexInit PROVE QueueIsTheRest /\ TurnIsNext /\ Turns!TurnInit
    OBVIOUS
  <2>1. Len(queue) = 0 /\ {reported[n] : n \in 1..Len(reported)} = {}
    BY DEF CodexInit
  <2>2. QueueIsTheRest /\ TurnIsNext
    BY <2>1 DEF CodexInit, QueueIsTheRest, TurnIsNext
  <2>3. Turns!TurnInit
    <3>1. cxAccepted = 0 /\ errors = 0 /\ drain = "idle" /\ ~Stopped
      BY Zenon DEF CodexInit, Stopped
    <3>2. cxAccepted - Len(queue) = 0 /\ (errors > 0) = FALSE /\ (drain # "idle") = FALSE
      BY <2>1, <3>1
    <3>3. Stopped = FALSE
      BY <3>1 DEF Stopped
    <3> QED
      BY <2>1, <3>1, <3>2, <3>3, Zenon DEF Turns!TurnInit
  <2> QED
    BY <2>2, <2>3
<1>2. Queued /\ [CodexNext]_codexVars =>
        QueueIsTheRest' /\ TurnIsNext' /\ [Turns!TurnNext]_(Turns!turnVars)
  BY TurnStep DEF InStep
<1>3. Typed /\ QueueIsTheRest /\ TurnIsNext => Queued
  BY DEF Queued
<1> QED
  BY <1>1, <1>2, <1>3, AlwaysTyped, PTL DEF CodexSpec, ImplementsTurnQueue, Turns!TurnSpec
=============================================================================
