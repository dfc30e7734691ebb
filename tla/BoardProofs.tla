----------------------------- MODULE BoardProofs -----------------------------
(***************************************************************************)
(* Theorems about the coordination services.  About the client, for any    *)
(* calls and any number of nodes, epochs and retries: a write is executed  *)
(* once, no call goes back behind what the client had heard, and no node   *)
(* is asked twice but to repeat a busy one, so calls run out.  About       *)
(* the tools, for any requests, identities, agents and credentials: an     *)
(* operation is sent with the credential of the agent configured for the   *)
(* identity that asked, and a job is taken or reported on only where that  *)
(* agent may.                                                              *)
(***************************************************************************)
EXTENDS BoardClient, BoardServices, FiniteSetTheorems, SequenceTheorems, TLAPS

-----------------------------------------------------------------------------
(* The client.                                                             *)

Fields == {"at", "minEpoch", "queue", "node", "attempt", "anyAnswer", "reply", "floor"}

\* A call asks for an epoch at least as high as its floor, and so was what answered it.
Floored(local) ==
  /\ DOMAIN local = Fields
  /\ local.at \in {"idle", "posting", "answered", "ended"}
  /\ local.floor \in Nat /\ local.minEpoch = local.floor
  /\ local.reply.epoch \in Nat
  /\ local.reply.by # 0 => local.reply.by >= local.floor

\* A write that is still to be sent was not executed; one that was executed got a reply
\* after which it is not sent again.
Unrepeated(c, local) ==
  c \in BoardWrite \ strange =>
    /\ executed[c] \in {0, 1}
    /\ local.at \in {"idle", "posting"} => executed[c] = 0
    /\ local.at = "answered" /\ executed[c] # 0 =>
         \/ local.reply.kind \in {"ok", "lost"}
         \/ local.reply.kind = "broke" /\ backend = "agentcoord"

\* The inductive invariant; known and heard are forgotten and raised together.
BoardInv ==
  /\ backend \in {"agentcoord", "board"}
  /\ known.epoch \in Nat /\ heard = known.epoch
  /\ epochOf \in [Node -> Nat]
  /\ executed \in [BoardWrite -> Nat]
  /\ bcall = [c \in BoardCall |-> bcall[c]]
  /\ \A c \in BoardCall : Floored(bcall[c]) /\ Unrepeated(c, bcall[c])

-----------------------------------------------------------------------------
\* A step of one call preserves the invariant when its new locals fit.
LEMMA LocalStep ==
  ASSUME BoardInv, NEW c \in BoardCall, NEW local,
         bcall' = [bcall EXCEPT ![c] = local], Floored(local), Unrepeated(c, local),
         UNCHANGED <<backend, epochOf, executed, strange>>,
         known'.epoch \in Nat, heard' = known'.epoch
  PROVE  BoardInv'
<1>1. \A d \in BoardCall : bcall'[d] = IF d = c THEN local ELSE bcall[d]
  BY DEF BoardInv
<1>2. bcall' = [d \in BoardCall |-> bcall'[d]]
  BY DEF BoardInv
<1>3. ASSUME NEW d \in BoardCall PROVE Floored(bcall[d])' /\ Unrepeated(d, bcall[d])'
  <2>1. CASE d = c
    BY <1>1, <2>1 DEF Floored, Unrepeated
  <2>2. CASE d # c
    BY <1>1, <2>2 DEF BoardInv, Floored, Unrepeated
  <2> QED
    BY <2>1, <2>2
<1> QED
  BY <1>2, <1>3 DEF BoardInv

\* Going on to another node is safe for a call that was not executed.
LEMMA NextNodeStep ==
  ASSUME BoardInv, NEW c \in BoardCall, NEW r, Floored(r),
         c \in BoardWrite \ strange => executed[c] = 0,
         NextNode(c, r), UNCHANGED <<backend, known, epochOf, executed, strange, heard>>
  PROVE  BoardInv'
<1>1. CASE r.queue # <<>>
  <2> DEFINE next == [r EXCEPT !.queue = Tail(@), !.node = Head(r.queue), !.attempt = 0,
                               !.at = "posting", !.reply = NoReply]
  <2>1. bcall' = [bcall EXCEPT ![c] = next]
    BY <1>1 DEF NextNode
  <2>2. Floored(next)
    BY DEF Floored, Fields, NoReply
  <2>3. Unrepeated(c, next)
    BY DEF Unrepeated, Floored, Fields
  <2> HIDE DEF next
  <2> QED
    BY <2>1, <2>2, <2>3, LocalStep DEF BoardInv
<1>2. CASE r.queue = <<>>
  <2>1. bcall' = [bcall EXCEPT ![c] = Finished]
    BY <1>2 DEF NextNode
  <2>2. Floored(Finished) /\ Unrepeated(c, Finished)
    BY DEF Floored, Unrepeated, Fields, Finished, NotBegun, NoReply
  <2> QED
    BY <2>1, <2>2, LocalStep DEF BoardInv
<1> QED
  BY <1>1, <1>2

\* A call may end whatever was made of it.
LEMMA DoneStep ==
  ASSUME BoardInv, NEW c \in BoardCall, Done(c),
         UNCHANGED <<backend, epochOf, executed, strange>>,
         known'.epoch \in Nat, heard' = known'.epoch
  PROVE  BoardInv'
<1>1. bcall' = [bcall EXCEPT ![c] = Finished]
  BY DEF Done
<1>2. Floored(Finished)
  BY DEF Floored, Fields, Finished, NotBegun, NoReply
<1>3. Unrepeated(c, Finished)
  BY DEF BoardInv, Unrepeated, Finished, NotBegun
<1> QED
  BY <1>1, <1>2, <1>3, LocalStep

-----------------------------------------------------------------------------
\* A call begins with the epoch the client knows.
LEMMA BeginStep ==
  ASSUME BoardInv, NEW c \in BoardCall, BeginCall(c) PROVE BoardInv'
<1> DEFINE order == MovedUp(known.name, [n \in Node |-> n])
           begun == [NotBegun EXCEPT !.at = "posting", !.floor = heard, !.minEpoch = known.epoch,
                                     !.queue = Tail(order), !.node = Head(order)]
<1>1. /\ bcall' = [bcall EXCEPT ![c] = IF down THEN Finished ELSE begun]
      /\ UNCHANGED <<backend, known, epochOf, executed, strange, heard>>
  BY DEF BeginCall
<1>2. Floored(Finished) /\ Floored(begun)
  BY DEF BoardInv, Floored, Fields, Finished, NotBegun, NoReply
<1>3. Unrepeated(c, Finished) /\ Unrepeated(c, begun)
  BY BoardAssumption DEF BeginCall, BoardInv, Unrepeated, Finished, NotBegun
<1> HIDE DEF begun
<1>4. known'.epoch \in Nat /\ heard' = known'.epoch
  BY <1>1 DEF BoardInv
<1>5. CASE down
  BY <1>1, <1>2, <1>3, <1>4, <1>5, LocalStep
<1>6. CASE ~down
  BY <1>1, <1>2, <1>3, <1>4, <1>6, LocalStep
<1> QED
  BY <1>5, <1>6

\* A transport that failed leads to another node only when nothing was executed.
LEMMA TransportStep ==
  ASSUME BoardInv, NEW c \in BoardCall, TransportFails(c) PROVE BoardInv'
<1> DEFINE r == bcall[c]
<1>1. /\ r.at = "answered" /\ r.reply.kind \in {"unreachable", "lost"}
      /\ UNCHANGED <<backend, known, epochOf, executed, strange, heard>>
  BY DEF TransportFails
<1>2. Floored(r) /\ Unrepeated(c, r) /\ known.epoch \in Nat /\ heard = known.epoch
  BY DEF BoardInv
<1>3. CASE SafeElsewhere(r.reply.kind, c \in BoardWrite)
  <2>1. c \in BoardWrite \ strange => executed[c] = 0
    BY <1>1, <1>2, <1>3 DEF SafeElsewhere, Unrepeated
  <2>2. NextNode(c, r)
    BY <1>3, Zenon DEF TransportFails
  <2> QED
    BY <1>1, <1>2, <2>1, <2>2, NextNodeStep
<1>4. CASE ~SafeElsewhere(r.reply.kind, c \in BoardWrite)
  <2>1. Done(c)
    BY <1>4, Zenon DEF TransportFails
  <2> QED
    BY <1>1, <1>2, <2>1, DoneStep
<1> QED
  BY <1>3, <1>4

\* A reply that can be read raises what is known, or was not an execution.
LEMMA ReplyStep ==
  ASSUME BoardInv, NEW c \in BoardCall, ReplyRead(c) PROVE BoardInv'
<1> DEFINE r    == [bcall[c] EXCEPT !.anyAnswer = TRUE]
           kind == bcall[c].reply.kind
           what == IF backend = "agentcoord" THEN Agentcoord(kind) ELSE Board(kind)
<1>1. /\ bcall[c].at = "answered" /\ kind \notin {"unreachable", "lost"}
      /\ UNCHANGED <<backend, epochOf, executed, strange>>
  BY DEF ReplyRead
<1>2. /\ Floored(bcall[c]) /\ Unrepeated(c, bcall[c])
      /\ known.epoch \in Nat /\ heard = known.epoch
      /\ backend \in {"agentcoord", "board"}
  BY DEF BoardInv
<1>3. Floored(r) /\ r.reply = bcall[c].reply
  BY <1>2 DEF Floored, Fields
<1>4. what \notin {"return", "refuse"} /\ c \in BoardWrite \ strange => executed[c] = 0
  BY <1>1, <1>2 DEF Unrepeated, Agentcoord, Board
<1>5. \/ /\ what \in {"return", "refuse"}
         /\ Remember(r.node, r.reply.epoch) /\ heard' = Largest(heard, r.reply.epoch)
         /\ Done(c)
      \/ /\ what = "follow"
         /\ NextNode(c, [r EXCEPT !.queue = MovedUp(r.reply.hint, @)])
         /\ UNCHANGED <<known, heard>>
      \/ /\ what = "again"
         /\ bcall' = [bcall EXCEPT ![c] = [r EXCEPT !.at = "posting", !.reply = NoReply,
                                                    !.attempt = Counted(@)]]
         /\ UNCHANGED <<known, down, heard>>
      \/ /\ what \in {"next", "again"}
         /\ NextNode(c, r)
         /\ UNCHANGED <<known, heard>>
  BY <1>3 DEF ReplyRead
<1> HIDE DEF r, what
<1>6. CASE /\ what \in {"return", "refuse"}
           /\ Remember(r.node, r.reply.epoch) /\ heard' = Largest(heard, r.reply.epoch)
           /\ Done(c)
  <2>1. r.reply.epoch \in Nat
    BY <1>3 DEF Floored
  <2>2. known'.epoch \in Nat /\ heard' = known'.epoch
    BY <1>2, <1>6, <2>1 DEF Remember, Largest
  <2> QED
    BY <1>1, <1>6, <2>2, DoneStep
<1>7. CASE /\ what = "follow"
           /\ NextNode(c, [r EXCEPT !.queue = MovedUp(r.reply.hint, @)])
           /\ UNCHANGED <<known, heard>>
  <2> DEFINE led == [r EXCEPT !.queue = MovedUp(r.reply.hint, @)]
  <2>1. Floored(led)
    BY <1>3 DEF Floored, Fields
  <2>2. NextNode(c, led)
    BY <1>7
  <2> HIDE DEF led
  <2> QED
    BY <1>1, <1>4, <1>7, <2>1, <2>2, NextNodeStep
<1>8. CASE /\ what = "again"
           /\ bcall' = [bcall EXCEPT ![c] = [r EXCEPT !.at = "posting", !.reply = NoReply,
                                                      !.attempt = Counted(@)]]
           /\ UNCHANGED <<known, down, heard>>
  <2> DEFINE again == [r EXCEPT !.at = "posting", !.reply = NoReply,
                                !.attempt = Counted(@)]
  <2>1. Floored(again) /\ again.at = "posting"
    BY <1>3 DEF Floored, Fields, NoReply
  <2>2. bcall' = [bcall EXCEPT ![c] = again]
    BY <1>8
  <2> HIDE DEF again
  <2>3. Unrepeated(c, again)
    BY <1>4, <1>8, <2>1 DEF Unrepeated
  <2> QED
    BY <1>1, <1>2, <1>8, <2>1, <2>2, <2>3, LocalStep
<1>9. CASE /\ what \in {"next", "again"}
           /\ NextNode(c, r)
           /\ UNCHANGED <<known, heard>>
  BY <1>1, <1>3, <1>4, <1>9, NextNodeStep
<1> QED
  BY <1>5, <1>6, <1>7, <1>8, <1>9

-----------------------------------------------------------------------------
\* A node executes a call only in an epoch the call allows, and a write for the first time.
LEMMA ExecuteStep ==
  ASSUME BoardInv, NEW c \in BoardCall, Execute(c) PROVE BoardInv'
<1>1. PICK n \in Node, kind \in {"ok", "lost", "garbled", "broke"} :
        /\ bcall[c].at = "posting" /\ bcall[c].node = n
        /\ epochOf[n] # 0 /\ bcall[c].minEpoch <= epochOf[n]
        /\ executed' = IF c \in BoardWrite THEN [executed EXCEPT ![c] = @ + 1] ELSE executed
        /\ kind = "broke" => backend = "agentcoord"
        /\ Answer(c, kind, IF kind \in {"ok", "broke"} THEN epochOf[n] ELSE 0, NoNode, epochOf[n])
        /\ strange' = IF kind = "garbled" THEN strange \cup ({c} \cap BoardWrite) ELSE strange
        /\ UNCHANGED <<backend, known, epochOf, heard>>
  BY DEF Execute
<1> DEFINE answer == [kind |-> kind, epoch |-> IF kind \in {"ok", "broke"} THEN epochOf[n] ELSE 0,
                      hint |-> NoNode, by |-> epochOf[n]]
           local  == [bcall[c] EXCEPT !.at = "answered", !.reply = answer]
<1>2. Floored(bcall[c]) /\ Unrepeated(c, bcall[c]) /\ epochOf[n] \in Nat
  BY DEF BoardInv
<1>3. bcall' = [bcall EXCEPT ![c] = local]
  BY <1>1, <1>2 DEF Answer, BoardInv, Floored, Fields
<1>4. Floored(local) /\ local.at = "answered" /\ local.reply = answer
  BY <1>1, <1>2 DEF Floored, Fields
<1>5. \A d \in BoardCall : bcall'[d] = IF d = c THEN local ELSE bcall[d]
  BY <1>3 DEF BoardInv
<1>6. executed' \in [BoardWrite -> Nat] /\ \A d \in BoardWrite \ {c} : executed'[d] = executed[d]
  BY <1>1 DEF BoardInv
<1>7. \A d \in BoardCall : Floored(bcall[d])'
  BY <1>4, <1>5 DEF BoardInv, Floored
<1>8. ASSUME NEW d \in BoardCall PROVE Unrepeated(d, bcall[d])'
  <2>1. CASE d # c
    BY <1>1, <1>5, <1>6, <2>1 DEF BoardInv, Unrepeated
  <2>2. CASE d = c
    <3> SUFFICES ASSUME c \in BoardWrite \ strange' PROVE Unrepeated(c, bcall[c])'
      BY <2>2 DEF Unrepeated
    <3>1. kind # "garbled" /\ c \in BoardWrite \ strange
      BY <1>1
    <3>2. executed'[c] = 1
      BY <1>1, <1>2, <3>1 DEF Unrepeated, BoardInv
    <3>3. bcall'[c].at = "answered" /\ bcall'[c].reply.kind = kind
      <4>1. bcall'[c] = local
        BY <1>5
      <4>2. answer.kind = kind
        OBVIOUS
      <4> HIDE DEF local, answer
      <4> QED
        BY <1>4, <4>1, <4>2
    <3>4. \/ kind \in {"ok", "lost"}
          \/ kind = "broke" /\ backend' = "agentcoord"
      BY <1>1, <3>1
    <3> HIDE DEF local, answer
    <3> QED
      BY <3>2, <3>3, <3>4 DEF Unrepeated
  <2> QED
    BY <2>1, <2>2
<1>9. bcall' = [d \in BoardCall |-> bcall'[d]]
  BY <1>3 DEF BoardInv
<1> QED
  BY <1>1, <1>6, <1>7, <1>8, <1>9 DEF BoardInv

\* What was not executed is answered without an epoch that did it.
LEMMA AnswerStep ==
  ASSUME BoardInv, NEW c \in BoardCall, bcall[c].at = "posting",
         NEW kind, NEW epoch \in Nat, NEW hint, Answer(c, kind, epoch, hint, 0),
         UNCHANGED <<backend, known, epochOf, executed, strange, heard>>
  PROVE  BoardInv'
<1> DEFINE answer == [kind |-> kind, epoch |-> epoch, hint |-> hint, by |-> 0]
           local  == [bcall[c] EXCEPT !.at = "answered", !.reply = answer]
<1>1. Floored(bcall[c]) /\ Unrepeated(c, bcall[c])
  BY DEF BoardInv
<1>2. bcall' = [bcall EXCEPT ![c] = local]
  BY <1>1 DEF Answer, BoardInv, Floored, Fields
<1>3. Floored(local)
  BY <1>1 DEF Floored, Fields
<1>4. c \in BoardWrite \ strange => executed[c] = 0
  BY <1>1 DEF Unrepeated
<1> HIDE DEF local
<1>5. Unrepeated(c, local)
  BY <1>4 DEF Unrepeated
<1> QED
  BY <1>2, <1>3, <1>5, LocalStep DEF BoardInv

\* The ways in which a request is not executed.
LEMMA NotExecutedStep ==
  ASSUME BoardInv, NEW c \in BoardCall, NotExecuted(c) PROVE BoardInv'
<1>1. PICK n \in Node :
        /\ \/ Answer(c, "refused", epochOf[n], NoNode, 0)
           \/ Answer(c, "stale", 0, NoNode, 0)
           \/ \E hint : Answer(c, "notLeader", 0, hint, 0)
           \/ \E kind : Answer(c, kind, 0, NoNode, 0)
        /\ bcall[c].at = "posting"
        /\ UNCHANGED <<backend, known, epochOf, executed, strange, heard>>
  BY DEF NotExecuted
<1>2. epochOf[n] \in Nat /\ 0 \in Nat
  BY DEF BoardInv
<1>3. CASE Answer(c, "refused", epochOf[n], NoNode, 0)
  BY <1>1, <1>2, <1>3, AnswerStep
<1>4. CASE Answer(c, "stale", 0, NoNode, 0)
  BY <1>1, <1>2, <1>4, AnswerStep
<1>5. CASE \E hint : Answer(c, "notLeader", 0, hint, 0)
  BY <1>1, <1>2, <1>5, AnswerStep
<1>6. CASE \E kind : Answer(c, kind, 0, NoNode, 0)
  BY <1>1, <1>2, <1>6, AnswerStep
<1> QED
  BY <1>1, <1>3, <1>4, <1>5, <1>6

-----------------------------------------------------------------------------
\* The cluster and the clocks touch no call.
LEMMA OutsideStep ==
  ASSUME BoardInv, UNCHANGED <<backend, bcall, executed, strange>>,
         known'.epoch \in Nat, heard' = known'.epoch, epochOf' \in [Node -> Nat]
  PROVE  BoardInv'
BY DEF BoardInv, Floored, Unrepeated

\* Every step preserves the invariant.
LEMMA BoardStep == BoardInv /\ [BoardNext]_boardVars => BoardInv'
<1> SUFFICES ASSUME BoardInv, [BoardNext]_boardVars PROVE BoardInv'
  OBVIOUS
<1>1. ASSUME NEW c \in BoardCall, BeginCall(c) PROVE BoardInv'
  BY <1>1, BeginStep
<1>2. ASSUME NEW c \in BoardCall, TransportFails(c) PROVE BoardInv'
  BY <1>2, TransportStep
<1>3. ASSUME NEW c \in BoardCall, ReplyRead(c) PROVE BoardInv'
  BY <1>3, ReplyStep
<1>4. ASSUME NEW c \in BoardCall, Execute(c) PROVE BoardInv'
  BY <1>4, ExecuteStep
<1>5. ASSUME NEW c \in BoardCall, NotExecuted(c) PROVE BoardInv'
  BY <1>5, NotExecutedStep
<1>6. ASSUME NEW n \in Node, Elect(n) PROVE BoardInv'
  <2>1. PICK e \in 1..(MaxEpoch - 1) : epochOf' = [epochOf EXCEPT ![n] = e + 1]
    BY <1>6 DEF Elect
  <2>2. epochOf' \in [Node -> Nat]
    BY <2>1, BoardAssumption DEF BoardInv
  <2> QED
    BY <1>6, <2>2, OutsideStep DEF Elect, BoardInv
<1>7. ASSUME NEW n \in Node, StepDown(n) PROVE BoardInv'
  <2>1. epochOf' \in [Node -> Nat]
    BY <1>7 DEF StepDown, BoardInv
  <2> QED
    BY <1>7, <2>1, OutsideStep DEF StepDown, BoardInv
<1>8. CASE Forget
  BY <1>8, OutsideStep DEF Forget, Forgotten, BoardInv
<1>9. CASE DownOver
  BY <1>9, OutsideStep DEF DownOver, BoardInv
<1>10. CASE UNCHANGED boardVars
  BY <1>10, OutsideStep DEF boardVars, BoardInv
<1> QED
  BY <1>1, <1>2, <1>3, <1>4, <1>5, <1>6, <1>7, <1>8, <1>9, <1>10 DEF BoardNext

\* The invariant holds in every state of every run of the clients.
LEMMA BoardInvariant == BoardSpec => []BoardInv
<1>1. BoardInit => BoardInv
  <2> SUFFICES ASSUME BoardInit PROVE BoardInv
    OBVIOUS
  <2>1. ASSUME NEW c \in BoardCall PROVE Floored(bcall[c]) /\ Unrepeated(c, bcall[c])
    BY DEF BoardInit, Floored, Unrepeated, Fields, NotBegun, NoReply
  <2>2. epochOf \in [Node -> Nat] /\ executed \in [BoardWrite -> Nat]
    BY DEF BoardInit
  <2> QED
    BY <2>1, <2>2 DEF BoardInit, BoardInv, Forgotten
<1> QED
  BY <1>1, BoardStep, PTL DEF BoardSpec

\* Whatever fails on the way and whoever leads, a write whose replies can be read is
\* executed at most once (agentcoord-client.ts:222).
THEOREM WriteAppliedOnceTheorem == BoardSpec => []WriteAppliedOnce
<1>1. BoardInv => WriteAppliedOnce
  BY BoardAssumption DEF BoardInv, Unrepeated, WriteAppliedOnce
<1> QED
  BY <1>1, BoardInvariant, PTL

\* No call is executed in an epoch behind the one known when it began, unless the
\* client forgot it in between (http-board-client.ts:130).
THEOREM NoStepBackTheorem == BoardSpec => []NoStepBack
<1>1. BoardInv => NoStepBack
  BY DEF BoardInv, Floored, NoStepBack
<1> QED
  BY <1>1, BoardInvariant, PTL

-----------------------------------------------------------------------------
(* The client: types.                                                      *)

\* A call has only nodes to go to, is with one of them, and asks a busy one no more than
\* it may; epochs are those of leaders.
Routed(local) ==
  /\ local.queue \in Seq(Node) /\ local.attempt \in 0..BusyRetries
  /\ local.node \in Node \cup {NoNode}
  /\ local.at \in {"posting", "answered"} => local.node \in Node
  /\ local.minEpoch \in 0..MaxEpoch /\ local.floor \in 0..MaxEpoch
  /\ local.reply.epoch \in 0..MaxEpoch /\ local.reply.by \in 0..MaxEpoch

Routes ==
  /\ known \in [name : Node \cup {NoNode}, epoch : 0..MaxEpoch]
  /\ down \in BOOLEAN
  /\ epochOf \in [Node -> 0..MaxEpoch]
  /\ strange \subseteq BoardWrite
  /\ \A c \in BoardCall : Routed(bcall[c])

\* To move a node up neither adds nor loses one.
LEMMA MovedUpProperties ==
  ASSUME NEW node, NEW queue \in Seq(Node)
  PROVE  MovedUp(node, queue) \in Seq(Node) /\ Len(MovedUp(node, queue)) = Len(queue)
<1>1. CASE node \notin Range(queue)
  BY <1>1 DEF MovedUp
<1>2. CASE node \in Range(queue)
  <2> DEFINE k == CHOOSE k \in 1..Len(queue) : queue[k] = node
             front == SubSeq(queue, 1, k - 1)  back == SubSeq(queue, k + 1, Len(queue))
  <2>1. \E i \in 1..Len(queue) : queue[i] = node
    BY <1>2 DEF Range
  <2>2. k \in 1..Len(queue) /\ queue[k] = node /\ Len(queue) \in Nat
    BY <2>1
  <2>3. MovedUp(node, queue) = <<node>> \o (front \o back)
    BY <1>2 DEF MovedUp, RemoveAt
  <2>4. node \in Node
    BY <2>2
  <2> HIDE DEF k
  <2>5. front \in Seq(Node) /\ Len(front) = k - 1
    BY <2>2, SubSeqProperties
  <2>6. back \in Seq(Node) /\ Len(back) = Len(queue) - k
    BY <2>2, SubSeqProperties
  <2> HIDE DEF front, back
  <2>7. front \o back \in Seq(Node) /\ Len(front \o back) = Len(front) + Len(back)
    BY <2>5, <2>6, ConcatProperties
  <2>8. <<node>> \in Seq(Node) /\ Len(<<node>>) = 1
    BY <2>4
  <2>9. /\ <<node>> \o (front \o back) \in Seq(Node)
        /\ Len(<<node>> \o (front \o back)) = Len(<<node>>) + Len(front \o back)
    BY <2>7, <2>8, ConcatProperties
  <2>10. Len(<<node>>) + Len(front \o back) = Len(queue)
    BY <2>2, <2>5, <2>6, <2>7, <2>8
  <2> QED
    BY <2>3, <2>9, <2>10
<1> QED
  BY <1>1, <1>2

\* What the first of the nodes to try is, and the rest.
LEMMA HeadAndTail ==
  ASSUME NEW queue \in Seq(Node), queue # <<>>
  PROVE  Head(queue) \in Node /\ Tail(queue) \in Seq(Node)
BY HeadTailProperties

\* A step of one call whose new locals are as they should be.
LEMMA RoutedCall ==
  ASSUME BoardInv, Routes, NEW c \in BoardCall, NEW local, bcall' = [bcall EXCEPT ![c] = local], Routed(local)
  PROVE  \A d \in BoardCall : Routed(bcall'[d])
<1>1. \A d \in BoardCall : bcall'[d] = IF d = c THEN local ELSE bcall[d]
  BY DEF BoardInv
<1>2. ASSUME NEW d \in BoardCall PROVE Routed(bcall'[d])
  <2>1. CASE d = c
    BY <1>1, <2>1
  <2>2. CASE d # c
    BY <1>1, <2>2 DEF Routes
  <2> QED
    BY <2>1, <2>2
<1> QED
  BY <1>2

\* A call that has ended asks nobody.
LEMMA FinishedRouted == Routed(Finished)
<1>1. /\ Finished.at = "ended" /\ Finished.queue = <<>> /\ Finished.attempt = 0 /\ Finished.node = NoNode
      /\ Finished.minEpoch = 0 /\ Finished.floor = 0
      /\ Finished.reply.epoch = 0 /\ Finished.reply.by = 0
  BY DEF Finished, NotBegun, NoReply
<1> HIDE DEF Finished
<1> QED
  BY <1>1, BoardAssumption DEF Routed

\* To go on is to go to a node that is left.
LEMMA NextNodeRouted ==
  ASSUME BoardInv, Routes, NEW c \in BoardCall, NEW r, Floored(r), Routed(r), NextNode(c, r)
  PROVE  (\A d \in BoardCall : Routed(bcall'[d])) /\ down' \in BOOLEAN
<1>1. CASE r.queue # <<>>
  <2> DEFINE rest == Tail(r.queue)  first == Head(r.queue)
             next == [r EXCEPT !.queue = rest, !.node = first, !.attempt = 0,
                               !.at = "posting", !.reply = NoReply]
  <2>1. bcall' = [bcall EXCEPT ![c] = next] /\ down' = down
    BY <1>1 DEF NextNode, Floored, Fields
  <2>2. first \in Node /\ rest \in Seq(Node)
    BY <1>1, HeadAndTail DEF Routed
  <2> HIDE DEF rest, first
  <2>3. /\ next.queue = rest /\ next.node = first /\ next.attempt = 0 /\ next.at = "posting"
        /\ next.reply = NoReply /\ next.minEpoch = r.minEpoch /\ next.floor = r.floor
    BY DEF Floored, Fields
  <2>4. NoReply.epoch = 0 /\ NoReply.by = 0
    BY DEF NoReply
  <2> HIDE DEF next
  <2>5. Routed(next)
    BY <2>2, <2>3, <2>4, BoardAssumption DEF Routed
  <2> QED
    BY <2>1, <2>5, RoutedCall DEF Routes
<1>2. CASE r.queue = <<>>
  <2>1. bcall' = [bcall EXCEPT ![c] = Finished] /\ down' = (down \/ (~r.anyAnswer /\ DownCache))
    BY <1>2 DEF NextNode
  <2>2. down' \in BOOLEAN
    BY <2>1, Zenon
  <2> QED
    BY <2>1, <2>2, FinishedRouted, RoutedCall
<1> QED
  BY <1>1, <1>2

\* An answer changes only the reply of a call.
LEMMA AnswerRouted ==
  ASSUME BoardInv, Routes, NEW c \in BoardCall, NEW kind, NEW epoch \in 0..MaxEpoch, NEW hint,
         NEW by \in 0..MaxEpoch, bcall[c].at = "posting", Answer(c, kind, epoch, hint, by)
  PROVE  \A d \in BoardCall : Routed(bcall'[d])
<1> DEFINE answer == [kind |-> kind, epoch |-> epoch, hint |-> hint, by |-> by]
           local  == [bcall[c] EXCEPT !.at = "answered", !.reply = answer]
<1>1. Floored(bcall[c]) /\ Routed(bcall[c])
  BY DEF BoardInv, Routes
<1>2. bcall' = [bcall EXCEPT ![c] = local]
  BY <1>1 DEF Answer, BoardInv, Floored, Fields
<1>3. answer.epoch = epoch /\ answer.by = by
  OBVIOUS
<1> HIDE DEF answer
<1>4. /\ local.at = "answered" /\ local.reply = answer /\ local.queue = bcall[c].queue
      /\ local.node = bcall[c].node /\ local.attempt = bcall[c].attempt
      /\ local.minEpoch = bcall[c].minEpoch /\ local.floor = bcall[c].floor
  BY <1>1 DEF Floored, Fields
<1> HIDE DEF local
<1>5. Routed(local)
  BY <1>1, <1>3, <1>4 DEF Routed
<1> QED
  BY <1>2, <1>5, RoutedCall

\* A call begins with the leader that is known, if one is.
LEMMA BeginRouted ==
  ASSUME BoardInv, Routes, NEW c \in BoardCall, BeginCall(c)
  PROVE  \A d \in BoardCall : Routed(bcall'[d])
<1> DEFINE all   == [n \in Node |-> n]
           order == MovedUp(known.name, all)
           first == Head(order)  rest == Tail(order)
           begun == [NotBegun EXCEPT !.at = "posting", !.floor = heard, !.minEpoch = known.epoch,
                                     !.queue = rest, !.node = first]
<1>1. bcall' = [bcall EXCEPT ![c] = IF down THEN Finished ELSE begun]
  BY DEF BeginCall
<1>2. all \in Seq(Node) /\ Len(all) = NodeCount /\ NodeCount \in Nat \ {0}
  BY BoardAssumption DEF Node
<1> HIDE DEF all
<1>3. order \in Seq(Node) /\ Len(order) = NodeCount
  BY <1>2, MovedUpProperties
<1> HIDE DEF order
<1>4. order # <<>>
  BY <1>2, <1>3, EmptySeq
<1>5. first \in Node /\ rest \in Seq(Node)
  BY <1>3, <1>4, HeadAndTail
<1> HIDE DEF first, rest
<1>6. /\ begun.at = "posting" /\ begun.floor = heard /\ begun.minEpoch = known.epoch
      /\ begun.queue = rest /\ begun.node = first /\ begun.attempt = 0
      /\ begun.reply.epoch = 0 /\ begun.reply.by = 0
  BY DEF NotBegun, NoReply
<1> HIDE DEF begun
<1>7. heard = known.epoch /\ known.epoch \in 0..MaxEpoch
  BY DEF BoardInv, Routes
<1>8. Routed(begun)
  BY <1>5, <1>6, <1>7, BoardAssumption DEF Routed
<1>9. CASE down
  BY <1>1, <1>9, FinishedRouted, RoutedCall
<1>10. CASE ~down
  BY <1>1, <1>8, <1>10, RoutedCall
<1> QED
  BY <1>9, <1>10

\* What a client makes of a reply leads to nodes it has, and to an epoch of a leader.
LEMMA ReplyRouted == ASSUME BoardInv, Routes, NEW c \in BoardCall, ReplyRead(c) PROVE Routes'
<1> DEFINE r == [bcall[c] EXCEPT !.anyAnswer = TRUE]
<1>1. /\ bcall[c].at = "answered" /\ Floored(bcall[c]) /\ Routed(bcall[c])
      /\ UNCHANGED <<epochOf, strange>>
      /\ known \in [name : Node \cup {NoNode}, epoch : 0..MaxEpoch] /\ down \in BOOLEAN
  BY DEF BoardInv, Routes, ReplyRead
<1>2. \/ Remember(r.node, r.reply.epoch) /\ Done(c)
      \/ NextNode(c, [r EXCEPT !.queue = MovedUp(r.reply.hint, @)]) /\ UNCHANGED known
      \/ /\ MayRetry(r.attempt)
         /\ bcall' = [bcall EXCEPT ![c] = [r EXCEPT !.at = "posting", !.reply = NoReply,
                                                    !.attempt = Counted(@)]]
         /\ UNCHANGED <<known, down>>
      \/ NextNode(c, r) /\ UNCHANGED known
  BY Zenon DEF ReplyRead
<1>3. /\ r.at = "answered" /\ r.queue = bcall[c].queue /\ r.node = bcall[c].node
      /\ r.attempt = bcall[c].attempt /\ r.reply = bcall[c].reply /\ DOMAIN r = Fields
      /\ r.minEpoch = bcall[c].minEpoch /\ r.floor = bcall[c].floor
  BY <1>1 DEF Floored, Fields
<1> HIDE DEF r
<1>4. Floored(r) /\ Routed(r) /\ r.node \in Node /\ r.reply.epoch \in 0..MaxEpoch
  BY <1>1, <1>3 DEF Floored, Routed
<1>5. ASSUME \A d \in BoardCall : Routed(bcall'[d]), down' \in BOOLEAN,
             known' \in [name : Node \cup {NoNode}, epoch : 0..MaxEpoch]
      PROVE  Routes'
  BY <1>1, <1>5 DEF Routes
<1>6. CASE Remember(r.node, r.reply.epoch) /\ Done(c)
  <2>1. \A d \in BoardCall : Routed(bcall'[d])
    BY <1>6, FinishedRouted, RoutedCall DEF Done
  <2>2. Largest(r.reply.epoch, known.epoch) \in 0..MaxEpoch
    BY <1>1, <1>4 DEF Largest
  <2>3. known' \in [name : Node \cup {NoNode}, epoch : 0..MaxEpoch] /\ down' = down
    BY <1>4, <1>6, <2>2 DEF Remember, Done
  <2> QED
    BY <1>1, <1>5, <2>1, <2>3
<1>7. CASE NextNode(c, [r EXCEPT !.queue = MovedUp(r.reply.hint, @)]) /\ UNCHANGED known
  <2> DEFINE moved == MovedUp(r.reply.hint, r.queue)
             led   == [r EXCEPT !.queue = moved]
  <2>1. moved \in Seq(Node)
    BY <1>4, MovedUpProperties DEF Routed
  <2>2. NextNode(c, led)
    BY <1>3, <1>7 DEF Fields
  <2> HIDE DEF moved
  <2>3. /\ led.at = r.at /\ led.queue = moved /\ led.node = r.node /\ led.attempt = r.attempt
        /\ led.reply = r.reply /\ DOMAIN led = Fields /\ led.minEpoch = r.minEpoch /\ led.floor = r.floor
    BY <1>3 DEF Fields
  <2> HIDE DEF led
  <2>4. Floored(led) /\ Routed(led)
    BY <1>4, <2>1, <2>3 DEF Floored, Routed
  <2> QED
    BY <1>1, <1>5, <1>7, <2>2, <2>4, NextNodeRouted
<1>8. CASE /\ MayRetry(r.attempt)
           /\ bcall' = [bcall EXCEPT ![c] = [r EXCEPT !.at = "posting", !.reply = NoReply,
                                                      !.attempt = Counted(@)]]
           /\ UNCHANGED <<known, down>>
  <2> DEFINE tries == r.attempt + 1
             again == [r EXCEPT !.at = "posting", !.reply = NoReply, !.attempt = tries]
  <2>1. bcall' = [bcall EXCEPT ![c] = again]
    BY <1>3, <1>8 DEF Fields, Counted
  <2>2. tries \in 0..BusyRetries
    BY <1>4, <1>8, BoardAssumption DEF Routed, MayRetry
  <2> HIDE DEF tries
  <2>3. /\ again.at = "posting" /\ again.queue = r.queue /\ again.node = r.node /\ again.attempt = tries
        /\ again.reply = NoReply /\ again.minEpoch = r.minEpoch /\ again.floor = r.floor
    BY <1>3 DEF Fields
  <2>4. NoReply.epoch = 0 /\ NoReply.by = 0
    BY DEF NoReply
  <2> HIDE DEF again
  <2>5. Routed(again)
    BY <1>4, <2>2, <2>3, <2>4, BoardAssumption DEF Routed
  <2>6. \A d \in BoardCall : Routed(bcall'[d])
    BY <2>1, <2>5, RoutedCall
  <2> QED
    BY <1>1, <1>5, <1>8, <2>6
<1>9. CASE NextNode(c, r) /\ UNCHANGED known
  BY <1>1, <1>4, <1>5, <1>9, NextNodeRouted
<1> QED
  BY <1>2, <1>6, <1>7, <1>8, <1>9

\* A transport that failed leads to a node that is left, or to the end.
LEMMA TransportRouted == ASSUME BoardInv, Routes, NEW c \in BoardCall, TransportFails(c) PROVE Routes'
<1>1. Floored(bcall[c]) /\ Routed(bcall[c]) /\ UNCHANGED <<known, epochOf, strange>> /\ down \in BOOLEAN
  BY DEF BoardInv, Routes, TransportFails
<1>2. NextNode(c, bcall[c]) \/ Done(c)
  BY Zenon DEF TransportFails
<1>3. CASE NextNode(c, bcall[c])
  BY <1>1, <1>3, NextNodeRouted DEF Routes
<1>4. CASE Done(c)
  <2>1. \A d \in BoardCall : Routed(bcall'[d])
    BY <1>4, FinishedRouted, RoutedCall DEF Done
  <2> QED
    BY <1>1, <1>4, <2>1 DEF Routes, Done
<1> QED
  BY <1>2, <1>3, <1>4

\* A node answers with its own epoch, or with none.
LEMMA NodeRouted ==
  ASSUME BoardInv, Routes, NEW c \in BoardCall, Execute(c) \/ NotExecuted(c) PROVE Routes'
<1>1. 0 \in 0..MaxEpoch /\ \A n \in Node : epochOf[n] \in 0..MaxEpoch
  BY BoardAssumption DEF Routes
<1>2. CASE Execute(c)
  <2>1. PICK n \in Node, kind \in {"ok", "lost", "garbled", "broke"} :
          /\ bcall[c].at = "posting" /\ UNCHANGED <<known, down, epochOf>>
          /\ Answer(c, kind, IF kind \in {"ok", "broke"} THEN epochOf[n] ELSE 0, NoNode, epochOf[n])
          /\ strange' = IF kind = "garbled" THEN strange \cup ({c} \cap BoardWrite) ELSE strange
    BY <1>2 DEF Execute
  <2> DEFINE epoch == IF kind \in {"ok", "broke"} THEN epochOf[n] ELSE 0
  <2>2. epoch \in 0..MaxEpoch /\ epochOf[n] \in 0..MaxEpoch
    BY <1>1
  <2>3. Answer(c, kind, epoch, NoNode, epochOf[n])
    BY <2>1
  <2> HIDE DEF epoch
  <2>4. \A d \in BoardCall : Routed(bcall'[d])
    BY <2>1, <2>2, <2>3, AnswerRouted
  <2> QED
    BY <2>1, <2>4 DEF Routes
<1>3. CASE NotExecuted(c)
  <2>1. PICK n \in Node :
          /\ \/ Answer(c, "refused", epochOf[n], NoNode, 0)
             \/ Answer(c, "stale", 0, NoNode, 0)
             \/ \E hint : Answer(c, "notLeader", 0, hint, 0)
             \/ \E kind : Answer(c, kind, 0, NoNode, 0)
          /\ bcall[c].at = "posting"
          /\ UNCHANGED <<known, down, epochOf, strange>>
    BY <1>3 DEF NotExecuted
  <2>2. epochOf[n] \in 0..MaxEpoch
    BY <1>1
  <2>3. \A d \in BoardCall : Routed(bcall'[d])
    <3>1. CASE Answer(c, "refused", epochOf[n], NoNode, 0)
      BY <1>1, <2>1, <2>2, <3>1, AnswerRouted
    <3>2. CASE Answer(c, "stale", 0, NoNode, 0)
      BY <1>1, <2>1, <3>2, AnswerRouted
    <3>3. CASE \E hint : Answer(c, "notLeader", 0, hint, 0)
      BY <1>1, <2>1, <3>3, AnswerRouted
    <3>4. CASE \E kind : Answer(c, kind, 0, NoNode, 0)
      BY <1>1, <2>1, <3>4, AnswerRouted
    <3> QED
      BY <2>1, <3>1, <3>2, <3>3, <3>4
  <2> QED
    BY <2>1, <2>3 DEF Routes
<1> QED
  BY <1>2, <1>3

\* Every step leaves calls with nodes, and nodes with epochs.
LEMMA RoutesStep == BoardInv /\ Routes /\ [BoardNext]_boardVars => Routes'
<1> SUFFICES ASSUME BoardInv, Routes, [BoardNext]_boardVars PROVE Routes'
  OBVIOUS
<1>1. ASSUME NEW c \in BoardCall, BeginCall(c) PROVE Routes'
  BY <1>1, BeginRouted DEF BeginCall, Routes
<1>2. ASSUME NEW n \in Node, Elect(n) PROVE Routes'
  <2>1. PICK e \in 1..(MaxEpoch - 1) : epochOf' = [epochOf EXCEPT ![n] = e + 1]
    BY <1>2 DEF Elect
  <2>2. e + 1 \in 0..MaxEpoch
    BY <2>1, BoardAssumption
  <2>3. epochOf' \in [Node -> 0..MaxEpoch] /\ UNCHANGED <<known, down, bcall, strange>>
    BY <1>2, <2>1, <2>2 DEF Elect, Routes
  <2> QED
    BY <2>3 DEF Routes, Routed
<1>3. ASSUME NEW n \in Node, StepDown(n) PROVE Routes'
  <2>1. 0 \in 0..MaxEpoch
    BY BoardAssumption
  <2>2. epochOf' \in [Node -> 0..MaxEpoch] /\ UNCHANGED <<known, down, bcall, strange>>
    BY <1>3, <2>1 DEF StepDown, Routes
  <2> QED
    BY <2>2 DEF Routes, Routed
<1>4. CASE Forget
  <2>1. Forgotten \in [name : Node \cup {NoNode}, epoch : 0..MaxEpoch]
    BY BoardAssumption DEF Forgotten
  <2> QED
    BY <1>4, <2>1 DEF Forget, Routes, Routed
<1>5. CASE DownOver
  BY <1>5 DEF DownOver, Routes, Routed
<1>6. CASE UNCHANGED boardVars
  BY <1>6 DEF boardVars, Routes, Routed
<1> QED
  BY <1>1, <1>2, <1>3, <1>4, <1>5, <1>6, ReplyRouted, TransportRouted, NodeRouted DEF BoardNext

\* Throughout, calls have nodes to go to, and nodes lead with epochs.
LEMMA RoutesInvariant == BoardSpec => []Routes
<1>1. BoardInit => Routes
  <2> SUFFICES ASSUME BoardInit PROVE Routes
    OBVIOUS
  <2>1. /\ NotBegun.at = "idle" /\ NotBegun.queue = <<>> /\ NotBegun.attempt = 0 /\ NotBegun.node = NoNode
        /\ NotBegun.minEpoch = 0 /\ NotBegun.floor = 0
        /\ NotBegun.reply.epoch = 0 /\ NotBegun.reply.by = 0
    BY DEF NotBegun, NoReply
  <2>2. bcall = [c \in BoardCall |-> NotBegun] /\ strange = {} /\ down = FALSE /\ known = Forgotten
    BY DEF BoardInit
  <2>3. Forgotten \in [name : Node \cup {NoNode}, epoch : 0..MaxEpoch]
    BY BoardAssumption DEF Forgotten
  <2>4. epochOf \in [Node -> 0..MaxEpoch]
    BY BoardAssumption DEF BoardInit
  <2> HIDE DEF NotBegun
  <2>5. Routed(NotBegun)
    BY <2>1, BoardAssumption DEF Routed
  <2> QED
    BY <2>2, <2>3, <2>4, <2>5 DEF Routes
<1> QED
  BY <1>1, BoardInvariant, RoutesStep, PTL DEF BoardSpec

\* For any number of nodes and calls: wherever a call is sent, first, after a failure or on
\* the word of another node, it goes to a node that is configured, and it asks a busy one
\* again no more than busyRetries times, because each time is counted and the count is
\* looked at before the next (agentcoord-client.ts:212 and 253).
THEOREM BoardTypes == BoardSpec => []BoardTypeOK
<1>1. BoardInv /\ Routes => BoardTypeOK
  <2> SUFFICES ASSUME BoardInv, Routes PROVE BoardTypeOK
    OBVIOUS
  <2>1. ASSUME NEW c \in BoardCall
        PROVE  /\ bcall[c].at \in {"idle", "posting", "answered", "ended"}
               /\ bcall[c].queue \in Seq(Node)
               /\ bcall[c].node \in Node \cup {NoNode}
               /\ bcall[c].at \in {"posting", "answered"} => bcall[c].node \in Node
               /\ bcall[c].attempt \in 0..BusyRetries
               /\ bcall[c].minEpoch \in 0..MaxEpoch /\ bcall[c].floor \in 0..MaxEpoch
               /\ bcall[c].reply.by \in 0..MaxEpoch
    BY DEF BoardInv, Routes, Floored, Routed
  <2>2. /\ backend \in {"agentcoord", "board"} /\ executed \in [BoardWrite -> Nat]
        /\ heard = known.epoch
    BY DEF BoardInv
  <2> QED
    BY <2>1, <2>2 DEF BoardTypeOK, Routes
<1> QED
  BY <1>1, BoardInvariant, RoutesInvariant, PTL

-----------------------------------------------------------------------------
(* The client: the order in which nodes are asked.                         *)

\* A call that is under way has every node before it at most once.
Fresh(local) ==
  local.at \in {"posting", "answered"} => IsInjective(local.queue) /\ local.node \notin Range(local.queue)

\* No call comes back to a node it is done with, though the known leader is put in front
\* of all nodes and nodes name each other as leader (agentcoord-client.ts:209).
NoNodeTwice == \A c \in BoardCall : Fresh(bcall[c])

\* How many requests may follow, by the locals of a call.
Left(local) == Len(local.queue) * (BusyRetries + 1) + (BusyRetries - local.attempt)

\* A call sends at most as many requests as there are nodes, times the times a busy one is
\* asked: it begins with that many, and every further request leaves it fewer, though the
\* known leader is put in front of all nodes and nodes name each other as leader
\* (agentcoord-client.ts:209).
AsksRunOut ==
  [][\A c \in BoardCall : bcall[c].at # "posting" /\ bcall'[c].at = "posting" =>
       /\ Left(bcall'[c]) >= 0
       /\ Left(bcall'[c]) < IF bcall[c].at = "answered" THEN Left(bcall[c])
                            ELSE NodeCount * (BusyRetries + 1)]_boardVars

\* What a step of a call does: the nodes before it stay apart, and a request it sends
\* leaves fewer to send.
Onward(old, new) ==
  /\ Fresh(new)
  /\ old.at # "posting" /\ new.at = "posting" =>
       /\ Left(new) >= 0
       /\ Left(new) < IF old.at = "answered" THEN Left(old) ELSE NodeCount * (BusyRetries + 1)

\* One node less is one round of requests less.
LEMMA OneRoundLess ==
  ASSUME NEW n \in Nat \ {0}, NEW k \in Nat
  PROVE  n * k = (n - 1) * k + k /\ (n - 1) * k >= 0
<1>1. n - 1 \in Nat /\ n = (n - 1) + 1
  OBVIOUS
<1>2. ASSUME NEW m \in Nat PROVE (m + 1) * k = m * k + k /\ m * k >= 0
  OBVIOUS
<1> QED
  BY <1>1, <1>2

\* To move a node up brings none in twice.
LEMMA MovedUpApart ==
  ASSUME NEW node, NEW queue \in Seq(Node), IsInjective(queue)
  PROVE  IsInjective(MovedUp(node, queue))
<1>1. CASE node \notin Range(queue)
  BY <1>1 DEF MovedUp
<1>2. CASE node \in Range(queue)
  <2> DEFINE k == CHOOSE k \in 1..Len(queue) : queue[k] = node
             front == SubSeq(queue, 1, k - 1)  back == SubSeq(queue, k + 1, Len(queue))
             rest  == front \o back            moved == <<node>> \o rest
             from(i) == IF i = 1 THEN k ELSE IF i <= k THEN i - 1 ELSE i
  <2>1. \E i \in 1..Len(queue) : queue[i] = node
    BY <1>2 DEF Range
  <2>2. k \in 1..Len(queue) /\ queue[k] = node /\ Len(queue) \in Nat
    BY <2>1
  <2>3. MovedUp(node, queue) = moved
    BY <1>2 DEF MovedUp, RemoveAt
  <2>4. node \in Node
    BY <2>2
  <2> HIDE DEF k
  <2>5. /\ front \in Seq(Node) /\ Len(front) = k - 1
        /\ \A i \in 1..(k - 1) : front[i] = queue[i]
    BY <2>2, SubSeqProperties
  <2>6. /\ back \in Seq(Node) /\ Len(back) = Len(queue) - k
        /\ \A i \in 1..(Len(queue) - k) : back[i] = queue[k + i]
    BY <2>2, SubSeqProperties
  <2> HIDE DEF front, back
  <2>7. /\ rest \in Seq(Node) /\ Len(rest) = Len(queue) - 1
        /\ \A i \in 1..(Len(queue) - 1) : rest[i] = IF i <= k - 1 THEN front[i] ELSE back[i - (k - 1)]
    <3>1. /\ rest \in Seq(Node) /\ Len(rest) = Len(front) + Len(back)
          /\ \A i \in 1..(Len(front) + Len(back)) :
               rest[i] = IF i <= Len(front) THEN front[i] ELSE back[i - Len(front)]
      BY <2>5, <2>6, ConcatProperties
    <3> HIDE DEF rest
    <3>2. Len(front) + Len(back) = Len(queue) - 1 /\ Len(front) = k - 1
      BY <2>2, <2>5, <2>6
    <3> QED
      BY <3>1, <3>2
  <2> HIDE DEF rest
  <2>8. <<node>> \in Seq(Node) /\ Len(<<node>>) = 1 /\ <<node>>[1] = node
    BY <2>4
  <2>9. /\ moved \in Seq(Node) /\ Len(moved) = Len(queue)
        /\ \A i \in 1..Len(queue) : moved[i] = IF i <= 1 THEN <<node>>[i] ELSE rest[i - 1]
    BY <2>2, <2>7, <2>8, ConcatProperties
  <2> HIDE DEF moved
  <2>10. ASSUME NEW i \in 1..Len(queue)
         PROVE  moved[i] = queue[from(i)] /\ from(i) \in 1..Len(queue)
    <3>1. CASE i = 1
      BY <2>2, <2>8, <2>9, <3>1
    <3>2. CASE i # 1 /\ i <= k
      <4>1. i - 1 \in 1..(k - 1) /\ i - 1 \in 1..(Len(queue) - 1)
        BY <2>2, <3>2
      <4>2. moved[i] = rest[i - 1] /\ rest[i - 1] = front[i - 1] /\ front[i - 1] = queue[i - 1]
        BY <2>5, <2>7, <2>9, <3>2, <4>1
      <4> QED
        BY <2>2, <3>2, <4>1, <4>2
    <3>3. CASE i > k
      <4>1. i - 1 \in 1..(Len(queue) - 1) /\ ~(i - 1 <= k - 1) /\ ~(i <= 1)
            /\ i - k \in 1..(Len(queue) - k) /\ (i - 1) - (k - 1) = i - k /\ k + (i - k) = i
        BY <2>2, <3>3
      <4>2. moved[i] = rest[i - 1] /\ rest[i - 1] = back[i - k] /\ back[i - k] = queue[i]
        BY <2>6, <2>7, <2>9, <4>1
      <4> QED
        BY <2>2, <3>3, <4>2
    <3> QED
      BY <2>2, <3>1, <3>2, <3>3
  <2>11. \A i, j \in 1..Len(queue) : from(i) = from(j) => i = j
    BY <2>2
  <2>12. \A i, j \in 1..Len(queue) : queue[i] = queue[j] => i = j
    BY DEF IsInjective
  <2> HIDE DEF from
  <2>13. ASSUME NEW i \in 1..Len(queue), NEW j \in 1..Len(queue), moved[i] = moved[j] PROVE i = j
    <3>1. queue[from(i)] = queue[from(j)] /\ from(i) \in 1..Len(queue) /\ from(j) \in 1..Len(queue)
      BY <2>10, <2>13
    <3> QED
      BY <2>11, <2>12, <3>1
  <2> QED
    <3>1. DOMAIN moved = 1..Len(queue)
      BY <2>9
    <3> QED
      BY <2>3, <2>13, <3>1 DEF IsInjective
<1> QED
  BY <1>1, <1>2

\* The first node is not among the others, which are apart.
LEMMA HeadApart ==
  ASSUME NEW queue \in Seq(Node), queue # <<>>, IsInjective(queue)
  PROVE  /\ IsInjective(Tail(queue)) /\ Head(queue) \notin Range(Tail(queue))
         /\ Len(Tail(queue)) = Len(queue) - 1 /\ Len(queue) \in Nat \ {0}
<1> DEFINE rest == Tail(queue)
<1>1. /\ rest \in Seq(Node) /\ Len(rest) = Len(queue) - 1
      /\ \A i \in 1..Len(rest) : rest[i] = queue[i + 1]
  BY HeadTailProperties
<1>2. Len(queue) \in Nat \ {0} /\ Head(queue) = queue[1]
  BY EmptySeq
<1>3. \A i, j \in 1..Len(queue) : queue[i] = queue[j] => i = j
  BY DEF IsInjective
<1> HIDE DEF rest
<1>4. \A i, j \in 1..Len(rest) : rest[i] = rest[j] => i = j
  BY <1>1, <1>2, <1>3
<1>5. \A i \in 1..Len(rest) : rest[i] # Head(queue)
  BY <1>1, <1>2, <1>3
<1>6. IsInjective(rest) /\ Head(queue) \notin Range(rest)
  BY <1>1, <1>4, <1>5 DEF IsInjective, Range
<1> QED
  BY <1>1, <1>2, <1>6 DEF rest

-----------------------------------------------------------------------------
\* A step of one call leaves the others where they are.
LEMMA OnwardCall ==
  ASSUME BoardInv, \A d \in BoardCall : Fresh(bcall[d]), NEW c \in BoardCall, NEW local,
         bcall' = [bcall EXCEPT ![c] = local], Onward(bcall[c], local)
  PROVE  \A d \in BoardCall : Onward(bcall[d], bcall'[d])
<1>1. \A d \in BoardCall : bcall'[d] = IF d = c THEN local ELSE bcall[d]
  BY DEF BoardInv
<1>2. ASSUME NEW d \in BoardCall PROVE Onward(bcall[d], bcall'[d])
  <2>1. CASE d = c
    BY <1>1, <2>1
  <2>2. CASE d # c
    BY <1>1, <2>2 DEF Onward
  <2> QED
    BY <2>1, <2>2
<1> QED
  BY <1>2

\* A call that ends sends nothing.
LEMMA FinishedOnward == ASSUME NEW old PROVE Onward(old, Finished)
<1>1. Finished.at = "ended"
  BY DEF Finished, NotBegun
<1> HIDE DEF Finished
<1> QED
  BY <1>1 DEF Onward, Fresh

\* The next node is one less to ask.
LEMMA NextNodeOnward ==
  ASSUME BoardInv, \A d \in BoardCall : Fresh(bcall[d]), NEW c \in BoardCall, NEW r,
         Floored(r), Routed(r), IsInjective(r.queue), NextNode(c, r),
         bcall[c].at = "answered", Routed(bcall[c]), Len(r.queue) = Len(bcall[c].queue)
  PROVE  \A d \in BoardCall : Onward(bcall[d], bcall'[d])
<1>1. CASE r.queue # <<>>
  <2> DEFINE rest == Tail(r.queue)  first == Head(r.queue)
             next == [r EXCEPT !.queue = rest, !.node = first, !.attempt = 0,
                               !.at = "posting", !.reply = NoReply]
  <2>1. bcall' = [bcall EXCEPT ![c] = next]
    BY <1>1 DEF NextNode, Floored, Fields
  <2>2. /\ IsInjective(rest) /\ first \notin Range(rest)
        /\ Len(rest) = Len(r.queue) - 1 /\ Len(r.queue) \in Nat \ {0}
    BY <1>1, HeadApart DEF Routed
  <2> HIDE DEF rest, first
  <2>3. next.queue = rest /\ next.node = first /\ next.attempt = 0 /\ next.at = "posting"
    BY DEF Floored, Fields
  <2> HIDE DEF next
  <2> DEFINE n == Len(r.queue)  k == BusyRetries + 1
  <2>4. /\ n \in Nat \ {0} /\ k \in Nat /\ k = BusyRetries + 1 /\ BusyRetries \in Nat
        /\ bcall[c].attempt \in 0..BusyRetries
    BY <2>2, BoardAssumption DEF Routed
  <2>5. Left(next) = (n - 1) * k + BusyRetries
    <3>1. Len(next.queue) = n - 1 /\ BusyRetries - next.attempt = BusyRetries
      BY <2>2, <2>3, <2>4
    <3> QED
      BY <3>1 DEF Left
  <2>6. Left(bcall[c]) = n * k + (BusyRetries - bcall[c].attempt)
    BY DEF Left
  <2> HIDE DEF n, k
  <2>7. n * k = (n - 1) * k + k /\ (n - 1) * k >= 0 /\ (n - 1) * k \in Int
    BY <2>4, OneRoundLess
  <2> DEFINE round == (n - 1) * k
  <2>8. Left(next) = round + BusyRetries /\ round >= 0 /\ round \in Int
        /\ Left(bcall[c]) = round + k + (BusyRetries - bcall[c].attempt)
    BY <2>5, <2>6, <2>7
  <2> HIDE DEF round
  <2>9. Left(next) >= 0 /\ Left(next) < Left(bcall[c])
    BY <2>4, <2>8
  <2>10. Onward(bcall[c], next)
    BY <2>2, <2>3, <2>9 DEF Onward, Fresh
  <2> QED
    BY <2>1, <2>10, OnwardCall
<1>2. CASE r.queue = <<>>
  BY <1>2, FinishedOnward, OnwardCall DEF NextNode
<1> QED
  BY <1>1, <1>2

\* A call begins with all nodes before it, each once.
LEMMA BeginOnward ==
  ASSUME BoardInv, Routes, \A d \in BoardCall : Fresh(bcall[d]), NEW c \in BoardCall, BeginCall(c)
  PROVE  \A d \in BoardCall : Onward(bcall[d], bcall'[d])
<1> DEFINE all   == [n \in Node |-> n]
           order == MovedUp(known.name, all)
           first == Head(order)  rest == Tail(order)
           begun == [NotBegun EXCEPT !.at = "posting", !.floor = heard, !.minEpoch = known.epoch,
                                     !.queue = rest, !.node = first]
<1>1. /\ bcall' = [bcall EXCEPT ![c] = IF down THEN Finished ELSE begun]
      /\ bcall[c].at \in {"idle", "ended"}
  BY DEF BeginCall
<1>2. all \in Seq(Node) /\ Len(all) = NodeCount /\ NodeCount \in Nat \ {0} /\ IsInjective(all)
  BY BoardAssumption DEF Node, IsInjective
<1> HIDE DEF all
<1>3. order \in Seq(Node) /\ Len(order) = NodeCount /\ IsInjective(order)
  BY <1>2, MovedUpProperties, MovedUpApart
<1> HIDE DEF order
<1>4. order # <<>>
  BY <1>2, <1>3, EmptySeq
<1>5. IsInjective(rest) /\ first \notin Range(rest) /\ Len(rest) = NodeCount - 1
  BY <1>3, <1>4, HeadApart
<1> HIDE DEF first, rest
<1>6. begun.at = "posting" /\ begun.queue = rest /\ begun.node = first /\ begun.attempt = 0
  BY DEF NotBegun
<1> HIDE DEF begun
<1> DEFINE n == NodeCount  k == BusyRetries + 1
<1>7. n \in Nat \ {0} /\ k \in Nat /\ BusyRetries \in Nat /\ k = BusyRetries + 1
  BY BoardAssumption
<1>8. Left(begun) = (n - 1) * k + BusyRetries
  <2>1. Len(begun.queue) = n - 1 /\ BusyRetries - begun.attempt = BusyRetries
    BY <1>5, <1>6, <1>7
  <2> QED
    BY <2>1 DEF Left
<1> HIDE DEF n, k
<1>9. n * k = (n - 1) * k + k /\ (n - 1) * k >= 0 /\ (n - 1) * k \in Int
  BY <1>7, OneRoundLess
<1> DEFINE round == (n - 1) * k
<1>10. Left(begun) = round + BusyRetries /\ round >= 0 /\ round \in Int /\ n * k = round + k
  BY <1>8, <1>9
<1> HIDE DEF round
<1>11. Left(begun) >= 0 /\ Left(begun) < n * k
  BY <1>7, <1>10
<1>12. Left(begun) >= 0 /\ Left(begun) < NodeCount * (BusyRetries + 1)
  BY <1>11 DEF n, k
<1>13. Onward(bcall[c], begun)
  BY <1>1, <1>5, <1>6, <1>12 DEF Onward, Fresh
<1>14. CASE down
  BY <1>1, <1>14, FinishedOnward, OnwardCall
<1>15. CASE ~down
  BY <1>1, <1>13, <1>15, OnwardCall
<1> QED
  BY <1>14, <1>15

\* A reply ends the call, or leads to a node that is left, or to the busy one once more.
LEMMA ReplyOnward ==
  ASSUME BoardInv, Routes, \A d \in BoardCall : Fresh(bcall[d]), NEW c \in BoardCall, ReplyRead(c)
  PROVE  \A d \in BoardCall : Onward(bcall[d], bcall'[d])
<1> DEFINE r == [bcall[c] EXCEPT !.anyAnswer = TRUE]
<1>1. /\ bcall[c].at = "answered" /\ Floored(bcall[c]) /\ Routed(bcall[c])
      /\ IsInjective(bcall[c].queue) /\ bcall[c].node \notin Range(bcall[c].queue)
  BY DEF BoardInv, Routes, ReplyRead, Fresh
<1>2. \/ Done(c)
      \/ NextNode(c, [r EXCEPT !.queue = MovedUp(r.reply.hint, @)])
      \/ /\ MayRetry(r.attempt)
         /\ bcall' = [bcall EXCEPT ![c] = [r EXCEPT !.at = "posting", !.reply = NoReply,
                                                    !.attempt = Counted(@)]]
      \/ NextNode(c, r)
  BY Zenon DEF ReplyRead
<1>3. /\ r.at = "answered" /\ r.queue = bcall[c].queue /\ r.node = bcall[c].node
      /\ r.attempt = bcall[c].attempt /\ r.reply = bcall[c].reply /\ DOMAIN r = Fields
      /\ r.minEpoch = bcall[c].minEpoch /\ r.floor = bcall[c].floor
  BY <1>1 DEF Floored, Fields
<1> HIDE DEF r
<1>4. Floored(r) /\ Routed(r) /\ IsInjective(r.queue)
  BY <1>1, <1>3 DEF Floored, Routed
<1>5. CASE Done(c)
  BY <1>5, FinishedOnward, OnwardCall DEF Done
<1>6. CASE NextNode(c, [r EXCEPT !.queue = MovedUp(r.reply.hint, @)])
  <2> DEFINE moved == MovedUp(r.reply.hint, r.queue)
             led   == [r EXCEPT !.queue = moved]
  <2>1. moved \in Seq(Node) /\ Len(moved) = Len(r.queue) /\ IsInjective(moved)
    BY <1>4, MovedUpProperties, MovedUpApart DEF Routed
  <2>2. NextNode(c, led)
    BY <1>3, <1>6 DEF Fields
  <2> HIDE DEF moved
  <2>3. /\ led.at = r.at /\ led.queue = moved /\ led.node = r.node /\ led.attempt = r.attempt
        /\ led.reply = r.reply /\ DOMAIN led = Fields /\ led.minEpoch = r.minEpoch /\ led.floor = r.floor
    BY <1>3 DEF Fields
  <2> HIDE DEF led
  <2>4. Floored(led) /\ Routed(led)
    BY <1>4, <2>1, <2>3 DEF Floored, Routed
  <2>5. IsInjective(led.queue) /\ Len(led.queue) = Len(bcall[c].queue)
    BY <1>3, <2>1, <2>3
  <2> QED
    BY <1>1, <2>2, <2>4, <2>5, NextNodeOnward
<1>7. CASE /\ MayRetry(r.attempt)
           /\ bcall' = [bcall EXCEPT ![c] = [r EXCEPT !.at = "posting", !.reply = NoReply,
                                                      !.attempt = Counted(@)]]
  <2> DEFINE tries == r.attempt + 1
             again == [r EXCEPT !.at = "posting", !.reply = NoReply, !.attempt = tries]
             rounds == Len(r.queue) * (BusyRetries + 1)
  <2>1. r.attempt < BusyRetries /\ r.attempt \in 0..BusyRetries /\ BusyRetries \in Nat
    BY <1>4, <1>7, BoardAssumption DEF MayRetry, Routed
  <2>2. bcall' = [bcall EXCEPT ![c] = again]
    BY <1>3, <1>7, <2>1 DEF Fields, Counted
  <2>3. Len(r.queue) \in Nat
    BY <1>4 DEF Routed
  <2>4. rounds >= 0 /\ rounds \in Int
    <3> DEFINE n == Len(r.queue)  k == BusyRetries + 1
    <3>1. n \in Nat /\ k \in Nat
      BY <2>1, <2>3
    <3> HIDE DEF n, k
    <3>2. n * k >= 0 /\ n * k \in Int
      BY <3>1
    <3> QED
      BY <3>2 DEF n, k
  <2> HIDE DEF tries
  <2>5. again.at = "posting" /\ again.queue = r.queue /\ again.node = r.node /\ again.attempt = tries
    BY <1>3 DEF Fields
  <2> HIDE DEF again
  <2>6. Left(again) = rounds + (BusyRetries - tries) /\ Left(bcall[c]) = rounds + (BusyRetries - r.attempt)
    BY <1>3, <2>5 DEF Left
  <2> HIDE DEF rounds
  <2>7. Left(again) >= 0 /\ Left(again) < Left(bcall[c])
    BY <2>1, <2>4, <2>6 DEF tries
  <2>8. Onward(bcall[c], again)
    BY <1>1, <1>3, <2>5, <2>7 DEF Onward, Fresh
  <2> QED
    BY <2>2, <2>8, OnwardCall
<1>8. CASE NextNode(c, r)
  BY <1>1, <1>3, <1>4, <1>8, NextNodeOnward
<1> QED
  BY <1>2, <1>5, <1>6, <1>7, <1>8

\* A transport that failed leads to a node that is left, or to the end.
LEMMA TransportOnward ==
  ASSUME BoardInv, Routes, \A d \in BoardCall : Fresh(bcall[d]), NEW c \in BoardCall, TransportFails(c)
  PROVE  \A d \in BoardCall : Onward(bcall[d], bcall'[d])
<1>1. /\ Floored(bcall[c]) /\ Routed(bcall[c]) /\ bcall[c].at = "answered" /\ IsInjective(bcall[c].queue)
  BY DEF BoardInv, Routes, TransportFails, Fresh
<1>2. NextNode(c, bcall[c]) \/ Done(c)
  BY Zenon DEF TransportFails
<1>3. CASE NextNode(c, bcall[c])
  BY <1>1, <1>3, NextNodeOnward
<1>4. CASE Done(c)
  BY <1>4, FinishedOnward, OnwardCall DEF Done
<1> QED
  BY <1>2, <1>3, <1>4

\* An answer sends nothing.
LEMMA AnswerOnward ==
  ASSUME BoardInv, \A d \in BoardCall : Fresh(bcall[d]), NEW c \in BoardCall, bcall[c].at = "posting",
         NEW kind, NEW epoch, NEW hint, NEW by, Answer(c, kind, epoch, hint, by)
  PROVE  \A d \in BoardCall : Onward(bcall[d], bcall'[d])
<1> DEFINE answer == [kind |-> kind, epoch |-> epoch, hint |-> hint, by |-> by]
           local  == [bcall[c] EXCEPT !.at = "answered", !.reply = answer]
<1>1. Floored(bcall[c]) /\ IsInjective(bcall[c].queue) /\ bcall[c].node \notin Range(bcall[c].queue)
  BY DEF BoardInv, Fresh
<1>2. bcall' = [bcall EXCEPT ![c] = local]
  BY <1>1 DEF Answer, BoardInv, Floored, Fields
<1> HIDE DEF answer
<1>3. local.at = "answered" /\ local.queue = bcall[c].queue /\ local.node = bcall[c].node
  BY <1>1 DEF Floored, Fields
<1> HIDE DEF local
<1>4. Onward(bcall[c], local)
  BY <1>1, <1>3 DEF Onward, Fresh
<1> QED
  BY <1>2, <1>4, OnwardCall

\* Every step takes every call onward.
LEMMA OnwardStep ==
  ASSUME BoardInv, Routes, NoNodeTwice, [BoardNext]_boardVars
  PROVE  \A d \in BoardCall : Onward(bcall[d], bcall'[d])
<1> USE DEF NoNodeTwice
<1>1. ASSUME NEW c \in BoardCall, Execute(c) PROVE \A d \in BoardCall : Onward(bcall[d], bcall'[d])
  <2>1. PICK n \in Node, kind \in {"ok", "lost", "garbled", "broke"} :
          /\ bcall[c].at = "posting"
          /\ Answer(c, kind, IF kind \in {"ok", "broke"} THEN epochOf[n] ELSE 0, NoNode, epochOf[n])
    BY <1>1 DEF Execute
  <2> QED
    BY <2>1, AnswerOnward
<1>2. ASSUME NEW c \in BoardCall, NotExecuted(c) PROVE \A d \in BoardCall : Onward(bcall[d], bcall'[d])
  <2>1. bcall[c].at = "posting" /\ \E kind, epoch, hint : Answer(c, kind, epoch, hint, 0)
    BY <1>2, Zenon DEF NotExecuted
  <2> QED
    BY <2>1, AnswerOnward
<1>3. CASE UNCHANGED bcall
  BY <1>3 DEF Onward
<1>4. ASSUME NEW n \in Node, Elect(n) \/ StepDown(n) PROVE UNCHANGED bcall
  BY <1>4 DEF Elect, StepDown
<1>5. Forget \/ DownOver \/ UNCHANGED boardVars => UNCHANGED bcall
  BY DEF Forget, DownOver, boardVars
<1> QED
  BY <1>1, <1>2, <1>3, <1>4, <1>5, BeginOnward, ReplyOnward, TransportOnward DEF BoardNext

\* Throughout, the nodes before a call are apart.
LEMMA FreshInvariant == BoardSpec => [](BoardInv /\ Routes /\ NoNodeTwice)
<1>1. BoardInit => NoNodeTwice
  BY DEF BoardInit, NotBegun, Fresh, NoNodeTwice
<1>2. BoardInv /\ Routes /\ NoNodeTwice /\ [BoardNext]_boardVars => NoNodeTwice'
  BY OnwardStep DEF Onward, NoNodeTwice
<1> QED
  BY <1>1, <1>2, BoardInvariant, RoutesInvariant, PTL DEF BoardSpec

\* No call comes back to a node it is done with, for any number of nodes and calls and
\* whatever nodes say of each other.
THEOREM NoNodeTwiceTheorem == BoardSpec => []NoNodeTwice
BY FreshInvariant, PTL

\* A call sends no more requests than there are nodes, times the times a busy one is
\* asked: what is left of them falls with every request and never below zero.
THEOREM AsksRunOutTheorem == BoardSpec => AsksRunOut
<1> DEFINE Fewer == \A c \in BoardCall : bcall[c].at # "posting" /\ bcall'[c].at = "posting" =>
                      /\ Left(bcall'[c]) >= 0
                      /\ Left(bcall'[c]) < IF bcall[c].at = "answered" THEN Left(bcall[c])
                                           ELSE NodeCount * (BusyRetries + 1)
<1>1. BoardInv /\ Routes /\ NoNodeTwice /\ [BoardNext]_boardVars => Fewer
  BY OnwardStep DEF Onward, NoNodeTwice
<1>2. Fewer => [Fewer]_boardVars
  OBVIOUS
<1> QED
  BY <1>1, FreshInvariant, PTL DEF BoardSpec, AsksRunOut

-----------------------------------------------------------------------------
(* The tools: credentials.                                                 *)

RequestFields == {"at", "project", "todo", "token", "answer"}

\* A request is a record with a credential or none.
Shaped(local) == DOMAIN local = RequestFields /\ local.token \in Token \cup {NoToken}

\* What a request holds between reading a credential and sending an operation with it.
Carries(r, local) ==
  /\ Shaped(local)
  /\ service = "agentcoord" /\ local.at \in {"resolved", "asking", "sent"} =>
       r.who \in DOMAIN AgentOf /\ local.token \in Token
  /\ service = "agentcoord" /\ local.at = "sent" => OwnerOf[local.token] = AgentOf[r.who]

\* The inductive invariant: what was confirmed of an agent is a credential of that agent.
CredentialInv ==
  /\ tokenFile \in [Agent -> Token \cup {NoToken}]
  /\ verified \in [Agent -> Token \cup {NoToken}]
  /\ \A a \in Agent : verified[a] # NoToken => OwnerOf[verified[a]] = a
  /\ req = [r \in BoardRequest |-> req[r]]
  /\ \A r \in BoardRequest : Carries(r, req[r])

-----------------------------------------------------------------------------
\* A step of one request preserves the invariant when its new locals fit.
LEMMA RequestStep ==
  ASSUME CredentialInv, NEW r \in BoardRequest, NEW local, Becomes(r, local), Carries(r, local),
         UNCHANGED <<service, tokenFile, verified>>
  PROVE  CredentialInv'
<1>1. \A o \in BoardRequest : req'[o] = IF o = r THEN local ELSE req[o]
  BY DEF CredentialInv, Becomes
<1>2. req' = [o \in BoardRequest |-> req'[o]]
  BY DEF CredentialInv, Becomes
<1>3. ASSUME NEW o \in BoardRequest PROVE Carries(o, req[o])'
  BY <1>1 DEF CredentialInv, Carries
<1> QED
  BY <1>2, <1>3 DEF CredentialInv

\* A request that ends, or goes on to its next operation, carries no credential.
LEMMA EndsOrGoesOn ==
  ASSUME NEW r \in BoardRequest
  PROVE  /\ \A how \in {"done", "refused", "limited", "failed"} : Carries(r, RequestEnds(how))
         /\ \A local : Shaped(local) => Carries(r, OnTo(local))
         /\ \A local, names : Shaped(local) => Carries(r, Within(local, names))
<1>1. ASSUME NEW how \in {"done", "refused", "limited", "failed"} PROVE Carries(r, RequestEnds(how))
  BY DEF Carries, Shaped, RequestEnds, RequestFields, NotCalled
<1>2. ASSUME NEW local, Shaped(local) PROVE Carries(r, OnTo(local))
  <2>1. CASE Tail(local.todo) = <<>>
    BY <1>1, <2>1 DEF OnTo
  <2>2. CASE Tail(local.todo) # <<>>
    BY <1>2, <2>2 DEF OnTo, Carries, Shaped, RequestFields
  <2> QED
    BY <2>1, <2>2
<1>3. ASSUME NEW local, NEW names, Shaped(local) PROVE Carries(r, Within(local, names))
  BY <1>1, <1>2, <1>3 DEF Within
<1> QED
  BY <1>1, <1>2, <1>3

\* Steps outside of the requests.
LEMMA ElsewhereStep ==
  ASSUME CredentialInv, UNCHANGED <<service, verified, req>>, tokenFile' \in [Agent -> Token \cup {NoToken}]
  PROVE  CredentialInv'
BY DEF CredentialInv, Carries

-----------------------------------------------------------------------------
\* A check never lets a credential through to the next operation.
LEMMA CheckStep == ASSUME CredentialInv, NEW r \in BoardRequest, Check(r) PROVE CredentialInv'
<1> DEFINE q == req[r]
<1>1. Shaped(q) /\ q.at = "next" /\ UNCHANGED <<service, tokenFile, verified>>
  BY DEF CredentialInv, Carries, Check
<1>2. PICK local : Becomes(r, local) /\ Carries(r, local)
  <2>1. Carries(r, [q EXCEPT !.todo = <<"swarm_list">> \o @])
    BY <1>1 DEF Carries, Shaped, RequestFields
  <2>2. Shaped([q EXCEPT !.project = IF r.job \in q.answer THEN ProjectOf[r.job] ELSE NoProject])
    BY <1>1 DEF Shaped, RequestFields
  <2>3. Carries(r, RequestEnds("refused")) /\ Carries(r, OnTo(q))
    BY <1>1, EndsOrGoesOn
  <2>4. Carries(r, OnTo([q EXCEPT !.project = IF r.job \in q.answer THEN ProjectOf[r.job] ELSE NoProject]))
    BY <2>2, EndsOrGoesOn
  <2>5. \A names : Carries(r, Within(q, names))
    BY <1>1, EndsOrGoesOn
  <2> HIDE DEF q
  <2>6. \E local : Becomes(r, local) /\
          \/ \E names : local = Within(q, names)
          \/ local \in {OnTo(q), RequestEnds("refused"), [q EXCEPT !.todo = <<"swarm_list">> \o @],
                        OnTo([q EXCEPT !.project = IF r.job \in q.answer THEN ProjectOf[r.job] ELSE NoProject])}
    BY DEF Check, q
  <2> QED
    BY <2>1, <2>3, <2>4, <2>5, <2>6
<1> QED
  BY <1>1, <1>2, RequestStep

\* The credential read is the one in the file of the agent.
LEMMA ReadTokenStep == ASSUME CredentialInv, NEW r \in BoardRequest, ReadToken(r) PROVE CredentialInv'
<1> DEFINE q    == req[r]
           read == [q EXCEPT !.at = "resolved", !.token = tokenFile[AgentOf[r.who]]]
           open == [q EXCEPT !.at = "resolved"]
<1>1. Shaped(q) /\ UNCHANGED <<service, tokenFile, verified>>
  BY DEF CredentialInv, Carries, ReadToken
<1>2. CASE service = "board"
  <2>1. Becomes(r, open)
    BY <1>2 DEF ReadToken
  <2>2. Carries(r, open)
    BY <1>1, <1>2 DEF Carries, Shaped, RequestFields
  <2> QED
    BY <1>1, <2>1, <2>2, RequestStep
<1>3. CASE service = "agentcoord" /\ (r.who \notin DOMAIN AgentOf \/ tokenFile[AgentOf[r.who]] = NoToken)
  <2>1. Becomes(r, RequestEnds("refused"))
    BY <1>3 DEF ReadToken
  <2> QED
    BY <1>1, <2>1, EndsOrGoesOn, RequestStep
<1>4. CASE service = "agentcoord" /\ r.who \in DOMAIN AgentOf /\ tokenFile[AgentOf[r.who]] # NoToken
  <2>1. Becomes(r, read)
    BY <1>4 DEF ReadToken
  <2>2. AgentOf[r.who] \in Agent
    BY <1>4 DEF Agent, Range
  <2>3. tokenFile[AgentOf[r.who]] \in Token
    BY <1>4, <2>2 DEF CredentialInv
  <2>4. Carries(r, read)
    BY <1>1, <1>4, <2>3 DEF Carries, Shaped, RequestFields
  <2> QED
    BY <1>1, <2>1, <2>4, RequestStep
<1> QED
  BY <1>2, <1>3, <1>4 DEF ReadToken

\* A request that is admitted is sent when its credential is the one confirmed, and else
\* asks whose it is.
LEMMA AdmitMoves ==
  ASSUME NEW r \in BoardRequest, Admit(r)
  PROVE  \/ Becomes(r, RequestEnds("limited"))
         \/ /\ service = "board" \/ Confirmed(AgentOf[r.who], req[r].token)
            /\ Becomes(r, [req[r] EXCEPT !.at = "sent"])
         \/ Becomes(r, [req[r] EXCEPT !.at = "asking"])
<1> DEFINE q == req[r]
<1> DEFINE kind == IF Head(q.todo) \in ReadOps THEN "read" ELSE "write"
<1>1. PICK over : LET took == Take(windows[kind], r.who, over) IN
        Becomes(r, CASE ~took.ok -> RequestEnds("limited")
                     [] took.ok /\ (service = "board" \/ Confirmed(AgentOf[r.who], q.token)) -> [q EXCEPT !.at = "sent"]
                     [] OTHER -> [q EXCEPT !.at = "asking"])
  BY DEF Admit
<1> DEFINE ok   == Take(windows[kind], r.who, over).ok
           sure == service = "board" \/ Confirmed(AgentOf[r.who], q.token)
<1> HIDE DEF kind
<1>2. CASE ~ok
  BY <1>1, <1>2
<1>3. CASE ok /\ sure
  BY <1>1, <1>3
<1>4. CASE ok /\ ~sure
  BY <1>1, <1>4
<1> QED
  BY <1>2, <1>3, <1>4

\* An operation is sent when its credential is the one confirmed.
LEMMA AdmitStep == ASSUME CredentialInv, NEW r \in BoardRequest, Admit(r) PROVE CredentialInv'
<1> DEFINE q == req[r]
<1>1. /\ Shaped(q) /\ q.at = "resolved" /\ Carries(r, q)
      /\ UNCHANGED <<service, tokenFile, verified>>
  BY DEF CredentialInv, Carries, Admit
<1>2. \/ Becomes(r, RequestEnds("limited"))
      \/ /\ service = "board" \/ Confirmed(AgentOf[r.who], q.token)
         /\ Becomes(r, [q EXCEPT !.at = "sent"])
      \/ Becomes(r, [q EXCEPT !.at = "asking"])
  BY AdmitMoves
<1>3. CASE Becomes(r, RequestEnds("limited"))
  BY <1>1, <1>3, EndsOrGoesOn, RequestStep
<1>4. CASE /\ service = "board" \/ Confirmed(AgentOf[r.who], q.token)
           /\ Becomes(r, [q EXCEPT !.at = "sent"])
  <2>1. service = "agentcoord" => OwnerOf[q.token] = AgentOf[r.who]
    <3> SUFFICES ASSUME service = "agentcoord" PROVE OwnerOf[q.token] = AgentOf[r.who]
      OBVIOUS
    <3>1. r.who \in DOMAIN AgentOf /\ q.token \in Token /\ verified[AgentOf[r.who]] = q.token
      BY <1>1, <1>4 DEF Carries, Confirmed
    <3>2. AgentOf[r.who] \in Agent
      BY <3>1 DEF Agent, Range
    <3> QED
      BY <3>1, <3>2, ServiceAssumption DEF CredentialInv
  <2>2. Carries(r, [q EXCEPT !.at = "sent"])
    BY <1>1, <2>1 DEF Carries, Shaped, RequestFields
  <2> QED
    BY <1>1, <1>4, <2>2, RequestStep
<1>5. CASE Becomes(r, [q EXCEPT !.at = "asking"])
  <2>1. Carries(r, [q EXCEPT !.at = "asking"])
    BY <1>1 DEF Carries, Shaped, RequestFields
  <2> QED
    BY <1>1, <1>5, <2>1, RequestStep
<1> QED
  BY <1>2, <1>3, <1>4, <1>5

\* A credential is confirmed when the cluster says whose it is.
LEMMA VerifyStep == ASSUME CredentialInv, NEW r \in BoardRequest, Verify(r) PROVE CredentialInv'
<1> DEFINE q == req[r]  sent == [q EXCEPT !.at = "sent"]  a == AgentOf[r.who]
<1>1. /\ Shaped(q) /\ q.at = "asking" /\ Carries(r, q)
      /\ UNCHANGED <<service, tokenFile>>
  BY DEF CredentialInv, Carries, Verify
<1>2. CASE OwnerOf[q.token] = a
  <2>1. Becomes(r, sent) /\ verified' = [verified EXCEPT ![a] = q.token]
    BY <1>2 DEF Verify
  <2>2. Carries(r, sent)
    BY <1>1, <1>2 DEF Carries, Shaped, RequestFields
  <2>3. verified' \in [Agent -> Token \cup {NoToken}] /\ \A b \in Agent : verified'[b] # NoToken => OwnerOf[verified'[b]] = b
    BY <1>1, <1>2, <2>1 DEF CredentialInv, Shaped
  <2>4. /\ req' = [o \in BoardRequest |-> req'[o]]
        /\ \A o \in BoardRequest : Carries(o, req[o])'
    BY <1>1, <2>1, <2>2 DEF CredentialInv, Carries, Becomes
  <2> QED
    BY <1>1, <2>3, <2>4 DEF CredentialInv
<1>3. CASE OwnerOf[q.token] # a
  <2>1. Becomes(r, RequestEnds("refused")) /\ UNCHANGED verified
    BY <1>3 DEF Verify
  <2> QED
    BY <1>1, <2>1, EndsOrGoesOn, RequestStep
<1> QED
  BY <1>2, <1>3

\* Every step preserves the invariant.
LEMMA CredentialStep == CredentialInv /\ [ServiceNext]_serviceVars => CredentialInv'
<1> SUFFICES ASSUME CredentialInv, [ServiceNext]_serviceVars PROVE CredentialInv'
  OBVIOUS
<1>1. ASSUME NEW r \in BoardRequest, CallTool(r) PROVE CredentialInv'
  <2>1. PICK course : Becomes(r, [NotCalled EXCEPT !.at = "next", !.project = r.project, !.todo = course])
    BY <1>1 DEF CallTool
  <2>2. Carries(r, [NotCalled EXCEPT !.at = "next", !.project = r.project, !.todo = course])
    BY DEF Carries, Shaped, RequestFields, NotCalled
  <2> QED
    BY <1>1, <2>1, <2>2, RequestStep DEF CallTool
<1>2. ASSUME NEW r \in BoardRequest, Check(r) PROVE CredentialInv'
  BY <1>2, CheckStep
<1>3. ASSUME NEW r \in BoardRequest, ReadToken(r) PROVE CredentialInv'
  BY <1>3, ReadTokenStep
<1>4. ASSUME NEW r \in BoardRequest, Admit(r) PROVE CredentialInv'
  BY <1>4, AdmitStep
<1>5. ASSUME NEW r \in BoardRequest, Verify(r) PROVE CredentialInv'
  BY <1>5, VerifyStep
<1>6. ASSUME NEW r \in BoardRequest, Serve(r) PROVE CredentialInv'
  <2>1. PICK given : Becomes(r, [req[r] EXCEPT !.at = "served", !.answer = given])
    BY <1>6 DEF Serve
  <2>2. Carries(r, [req[r] EXCEPT !.at = "served", !.answer = given])
    BY DEF CredentialInv, Carries, Shaped, RequestFields
  <2> QED
    BY <1>6, <2>1, <2>2, RequestStep DEF Serve
<1>7. ASSUME NEW r \in BoardRequest, Received(r) PROVE CredentialInv'
  <2> DEFINE left == [req[r] EXCEPT !.todo = Tail(@), !.answer = {}]
  <2>1. Shaped(req[r]) /\ Shaped(left)
    BY DEF CredentialInv, Carries, Shaped, RequestFields
  <2>2. CASE Head(req[r].todo) = "swarm_list"
    <3>1. Becomes(r, Within(left, AllowedProject \cup req[r].answer))
      BY <1>7, <2>2 DEF Received
    <3> HIDE DEF left
    <3> QED
      BY <1>7, <2>1, <3>1, EndsOrGoesOn, RequestStep DEF Received
  <2>3. CASE Head(req[r].todo) # "swarm_list"
    <3>1. Becomes(r, OnTo(req[r]))
      BY <1>7, <2>3 DEF Received
    <3> QED
      BY <1>7, <2>1, <3>1, EndsOrGoesOn, RequestStep DEF Received
  <2> QED
    BY <2>2, <2>3
<1>8. ASSUME NEW r \in BoardRequest, Refused(r) PROVE CredentialInv'
  BY <1>8, EndsOrGoesOn, RequestStep DEF Refused
<1>9. ASSUME NEW j \in Job, JobMoves(j) PROVE CredentialInv'
  BY <1>9, ElsewhereStep DEF JobMoves, CredentialInv
<1>10. ASSUME NEW p \in OtherProject, SwarmChanges(p) PROVE CredentialInv'
  BY <1>10, ElsewhereStep DEF SwarmChanges, CredentialInv
<1>11. ASSUME NEW a \in Agent, TokenExchanged(a) PROVE CredentialInv'
  <2>1. tokenFile' \in [Agent -> Token \cup {NoToken}]
    BY <1>11 DEF TokenExchanged, CredentialInv
  <2> QED
    BY <1>11, <2>1, ElsewhereStep DEF TokenExchanged
<1>12. CASE UNCHANGED serviceVars
  BY <1>12, ElsewhereStep DEF serviceVars, CredentialInv
<1> QED
  BY <1>1, <1>2, <1>3, <1>4, <1>5, <1>6, <1>7, <1>8, <1>9, <1>10, <1>11, <1>12 DEF ServiceNext

\* At first no request carries anything and nothing is confirmed.
LEMMA CredentialInitially == ASSUME ServiceInit PROVE CredentialInv
<1>1. \A r \in BoardRequest : Carries(r, req[r])
  BY DEF ServiceInit, Carries, Shaped, RequestFields, NotCalled
<1> QED
  BY <1>1 DEF ServiceInit, CredentialInv

\* However credential files are exchanged and requests overlap, an operation goes out with
\* a credential that was confirmed to be the configured agent's (agentcoord-service.ts:219).
THEOREM CredentialTheorem == ServiceSpec => []CredentialIsTheAgents
<1>1. ServiceInit => CredentialInv
  BY CredentialInitially
<1>2. CredentialInv => CredentialIsTheAgents
  BY DEF CredentialInv, Carries, CredentialIsTheAgents, Sending
<1> QED
  BY <1>1, <1>2, CredentialStep, PTL DEF ServiceSpec

-----------------------------------------------------------------------------
(* The tools: whose work it is.                                            *)

\* What is left of jobTake and of jobUpdate, from the first operation to the last, and
\* before a check of the project with the list of swarms to be read first.
Take1 == <<"reach", "project_show", "inPlan", "job_take">>
Take2 == <<"project_show", "inPlan", "job_take">>
Take3 == <<"inPlan", "job_take">>
Take4 == <<"job_take">>
Take0 == <<"swarm_list", "reach", "project_show", "inPlan", "job_take">>

Update1 == <<"my_jobs", "mine", "reach", "job_update">>
Update2 == <<"mine", "reach", "job_update">>
Update3 == <<"reach", "job_update">>
Update4 == <<"job_update">>
Update0 == <<"swarm_list", "reach", "job_update">>

\* All that a course is made of.
Step == Checks \cup ReadOps \cup
        {"file_claim", "file_release", "heartbeat", "send", "file_finish", "ack", "job_take", "job_update"}

\* What is left of any other tool.
Harmless(todo) ==
  /\ todo \in Seq(Step) /\ todo # <<>>
  /\ \A n \in 1..Len(todo) : todo[n] \notin {"job_take", "job_update"}
  /\ \A n \in 2..Len(todo) : todo[n] # "swarm_list"
  /\ Head(todo) = "swarm_list" => Tail(todo) # <<>>

WithinReach(p, seen) == p \in AllowedProject \cup seen

JobsGiven(r, given) == {j \in Job : <<AgentOf[r.who], j>> \in given}

\* The project that jobUpdate goes on with is that of a job the agent was given.
Theirs(r, local, given) ==
  local.project = NoProject \/ (local.project = ProjectOf[r.job] /\ r.job \in JobsGiven(r, given))

JobsOf(project) == {j \in Job : ProjectOf[j] = project}

\* How far a request has got, and what it has been shown on the way: seen are the
\* projects that were a swarm, given says who was given which job.
Course(r, local, seen, given) ==
  \/ Harmless(local.todo)
  \/ local.todo \in {Take0, Take1, Update1}
  \/ local.todo = Take2 /\ WithinReach(local.project, seen)
  \/ local.todo = Take3 /\ WithinReach(local.project, seen) /\ local.answer \subseteq JobsOf(local.project)
  \/ local.todo = Take4 /\ WithinReach(local.project, seen) /\ local.project = ProjectOf[r.job]
  \/ local.todo = Update2 /\ local.answer \subseteq JobsGiven(r, given)
  \/ local.todo \in {Update3, Update0} /\ Theirs(r, local, given)
  \/ local.todo = Update4 /\ Theirs(r, local, given) /\ WithinReach(local.project, seen)

\* The same of a request whose first step is done: what the step has shown.
Shown(r, local, seen, given) ==
  \/ Harmless(local.todo)
  \/ local.todo = Take1 /\ WithinReach(local.project, seen)
  \/ local.todo = Take2 /\ WithinReach(local.project, seen) /\ local.answer \subseteq JobsOf(local.project)
  \/ local.todo = Take3 /\ WithinReach(local.project, seen) /\ local.project = ProjectOf[r.job]
  \/ local.todo = Update1 /\ local.answer \subseteq JobsGiven(r, given)
  \/ local.todo = Update2 /\ Theirs(r, local, given)
  \/ local.todo = Update3 /\ Theirs(r, local, given) /\ WithinReach(local.project, seen)
  \/ local.todo \in {Take4, Update4}

Busy == {"next", "resolved", "asking", "sent", "served"}

OnCourse(r, local, seen, given) ==
  local.at \in Busy =>
    /\ Course(r, local, seen, given)
    /\ Head(local.todo) \in Checks => local.at = "next"
    /\ local.at = "served" =>
         /\ Head(local.todo) = "swarm_list"   => local.answer \subseteq seen
         /\ Head(local.todo) = "project_show" => local.answer \subseteq JobsOf(local.project)
         /\ Head(local.todo) = "my_jobs"      => local.answer \subseteq JobsGiven(r, given)

\* What was noted of swarms and jobs was so once.
Noted ==
  /\ live \subseteq wasLive /\ wasLive \subseteq OtherProject
  /\ swarms.names \subseteq wasLive
  /\ DOMAIN holder = Job
  /\ \A j \in Job : holder[j] # Nobody => <<holder[j], j>> \in wasHolder

\* The inductive invariant, of the agentcoord service.
WorkInv ==
  service = "agentcoord" => Noted /\ \A r \in BoardRequest : OnCourse(r, req[r], wasLive, wasHolder)

-----------------------------------------------------------------------------
\* A step before two and before four others.
LEMMA Chain ==
  /\ \A a, b, c : <<a>> \o <<b, c>> = <<a, b, c>>
  /\ \A a, b, c, d, e : <<a>> \o <<b, c, d, e>> = <<a, b, c, d, e>>
<1>1. ASSUME NEW a, NEW b, NEW c PROVE <<a>> \o <<b, c>> = <<a, b, c>>
  <2> DEFINE S == {a, b, c}
  <2>1. <<a>> \in Seq(S)
    OBVIOUS
  <2>2. <<b, c>> \in Seq(S)
    OBVIOUS
  <2>3. <<a, b, c>> \in Seq(S)
    OBVIOUS
  <2>4. Len(<<a>> \o <<b, c>>) = 3 /\ \A i \in 1..3 : (<<a>> \o <<b, c>>)[i] = <<a, b, c>>[i]
    BY <2>1, <2>2, ConcatProperties
  <2> QED
    BY <2>1, <2>2, <2>3, <2>4, SeqEqual, ConcatProperties
<1>2. ASSUME NEW a, NEW b, NEW c, NEW d, NEW e PROVE <<a>> \o <<b, c, d, e>> = <<a, b, c, d, e>>
  <2> DEFINE S == {a, b, c, d, e}
  <2>1. <<a>> \in Seq(S)
    OBVIOUS
  <2>2. <<b, c, d, e>> \in Seq(S)
    OBVIOUS
  <2>3. <<a, b, c, d, e>> \in Seq(S)
    OBVIOUS
  <2>4. /\ Len(<<a>> \o <<b, c, d, e>>) = 5
        /\ \A i \in 1..5 : (<<a>> \o <<b, c, d, e>>)[i] = <<a, b, c, d, e>>[i]
    BY <2>1, <2>2, ConcatProperties
  <2> QED
    BY <2>1, <2>2, <2>3, <2>4, SeqEqual, ConcatProperties
<1> QED
  BY <1>1, <1>2

\* The courses by their first step and the rest.
LEMMA TakeSteps ==
  /\ Take0 # <<>> /\ Head(Take0) = "swarm_list" /\ Tail(Take0) = Take1
  /\ Take1 # <<>> /\ Head(Take1) = "reach" /\ Tail(Take1) = Take2
  /\ Take2 # <<>> /\ Head(Take2) = "project_show" /\ Tail(Take2) = Take3
  /\ Take3 # <<>> /\ Head(Take3) = "inPlan" /\ Tail(Take3) = Take4
  /\ Take4 # <<>> /\ Head(Take4) = "job_take" /\ Tail(Take4) = <<>>
<1>1. Take0 # <<>> /\ Head(Take0) = "swarm_list"
  BY DEF Take0
<1>2. Tail(Take0) = Take1
  BY DEF Take0, Take1
<1>3. Take1 # <<>> /\ Head(Take1) = "reach"
  BY DEF Take1
<1>4. Tail(Take1) = Take2
  BY DEF Take1, Take2
<1>5. Take2 # <<>> /\ Head(Take2) = "project_show"
  BY DEF Take2
<1>6. Tail(Take2) = Take3
  BY DEF Take2, Take3
<1>7. Take3 # <<>> /\ Head(Take3) = "inPlan"
  BY DEF Take3
<1>8. Tail(Take3) = Take4
  BY DEF Take3, Take4
<1>9. Take4 # <<>> /\ Head(Take4) = "job_take"
  BY DEF Take4
<1>10. Tail(Take4) = <<>>
  BY DEF Take4
<1> QED
  BY <1>1, <1>2, <1>3, <1>4, <1>5, <1>6, <1>7, <1>8, <1>9, <1>10

\* The course of an update, one step after the other.
LEMMA UpdateSteps ==
  /\ Update0 # <<>> /\ Head(Update0) = "swarm_list" /\ Tail(Update0) = Update3
  /\ Update1 # <<>> /\ Head(Update1) = "my_jobs" /\ Tail(Update1) = Update2
  /\ Update2 # <<>> /\ Head(Update2) = "mine" /\ Tail(Update2) = Update3
  /\ Update3 # <<>> /\ Head(Update3) = "reach" /\ Tail(Update3) = Update4
  /\ Update4 # <<>> /\ Head(Update4) = "job_update" /\ Tail(Update4) = <<>>
<1>1. Update0 # <<>> /\ Head(Update0) = "swarm_list"
  BY DEF Update0
<1>2. Tail(Update0) = Update3
  BY DEF Update0, Update3
<1>3. Update1 # <<>> /\ Head(Update1) = "my_jobs"
  BY DEF Update1
<1>4. Tail(Update1) = Update2
  BY DEF Update1, Update2
<1>5. Update2 # <<>> /\ Head(Update2) = "mine"
  BY DEF Update2
<1>6. Tail(Update2) = Update3
  BY DEF Update2, Update3
<1>7. Update3 # <<>> /\ Head(Update3) = "reach"
  BY DEF Update3
<1>8. Tail(Update3) = Update4
  BY DEF Update3, Update4
<1>9. Update4 # <<>> /\ Head(Update4) = "job_update"
  BY DEF Update4
<1>10. Tail(Update4) = <<>>
  BY DEF Update4
<1> QED
  BY <1>1, <1>2, <1>3, <1>4, <1>5, <1>6, <1>7, <1>8, <1>9, <1>10

\* What a course becomes when the list has to be asked first.
LEMMA AskedSteps == <<"swarm_list">> \o Take1 = Take0 /\ <<"swarm_list">> \o Update3 = Update0
<1>1. <<"swarm_list">> \o Take1 = Take0
  BY Chain DEF Take1, Take0
<1>2. <<"swarm_list">> \o Update3 = Update0
  BY Chain DEF Update3, Update0
<1> QED
  BY <1>1, <1>2

\* A course without a take or an update stays so as its steps are done.
LEMMA HarmlessSteps ==
  ASSUME NEW todo, Harmless(todo)
  PROVE  /\ Head(todo) \notin {"job_take", "job_update"}
         /\ Tail(todo) # <<>> => Harmless(Tail(todo)) /\ Head(Tail(todo)) # "swarm_list"
         /\ Head(todo) # "swarm_list" => Harmless(<<"swarm_list">> \o todo)
<1> DEFINE rest == Tail(todo)
           more == <<"swarm_list">> \o todo
<1>1. /\ todo \in Seq(Step) /\ todo # <<>> /\ Len(todo) \in Nat \ {0} /\ Head(todo) = todo[1]
      /\ \A n \in 1..Len(todo) : todo[n] \notin {"job_take", "job_update"}
      /\ \A n \in 2..Len(todo) : todo[n] # "swarm_list"
  BY EmptySeq, LenProperties DEF Harmless
<1>2. rest \in Seq(Step) /\ Len(rest) = Len(todo) - 1 /\ \A n \in 1..Len(rest) : rest[n] = todo[n + 1]
  BY <1>1, HeadTailProperties
<1>3. more \in Seq(Step) /\ Len(more) = Len(todo) + 1 /\ more[1] = "swarm_list"
      /\ \A n \in 2..Len(more) : more[n] = todo[n - 1]
  <2>a. <<"swarm_list">> \in Seq(Step)
    BY DEF Step, ReadOps
  <2>b. Len(<<"swarm_list">>) = 1
    OBVIOUS
  <2>c. <<"swarm_list">>[1] = "swarm_list"
    OBVIOUS
  <2>1. <<"swarm_list">> \in Seq(Step) /\ Len(<<"swarm_list">>) = 1 /\ <<"swarm_list">>[1] = "swarm_list"
    BY <2>a, <2>b, <2>c
  <2>2. /\ more \in Seq(Step) /\ Len(more) = 1 + Len(todo)
        /\ \A i \in 1..(1 + Len(todo)) : more[i] = IF i <= 1 THEN <<"swarm_list">>[i] ELSE todo[i - 1]
    BY <1>1, <2>1, ConcatProperties
  <2> QED
    BY <1>1, <2>1, <2>2
<1> HIDE DEF rest, more
<1>4. Head(todo) \notin {"job_take", "job_update"}
  BY <1>1
<1>5. ASSUME rest # <<>> PROVE Harmless(rest) /\ Head(rest) # "swarm_list"
  <2>1. Len(rest) \in Nat \ {0} /\ Head(rest) = rest[1]
    BY <1>2, <1>5, EmptySeq, LenProperties
  <2>2. Head(rest) # "swarm_list"
    BY <1>1, <1>2, <2>1
  <2> QED
    BY <1>1, <1>2, <1>5, <2>1, <2>2 DEF Harmless
<1>6. ASSUME Head(todo) # "swarm_list" PROVE Harmless(more)
  <2>1. more # <<>> /\ Tail(more) # <<>>
    <3>1. more # <<>>
      BY <1>1, <1>3, EmptySeq
    <3>2. Len(Tail(more)) = Len(todo)
      BY <1>1, <1>3, <3>1, HeadTailProperties
    <3> QED
      BY <1>1, <3>1, <3>2, EmptySeq
  <2>2. \A n \in 1..Len(more) : more[n] \notin {"job_take", "job_update"}
    BY <1>1, <1>3
  <2>3. \A n \in 2..Len(more) : more[n] # "swarm_list"
    BY <1>1, <1>3, <1>6
  <2> QED
    BY <1>3, <2>1, <2>2, <2>3 DEF Harmless
<1> QED
  BY <1>4, <1>5, <1>6 DEF rest, more

\* Every tool starts on one of the courses.
LEMMA CoursesBegin ==
  ASSUME NEW tool \in BoardTool
  PROVE  AgentcoordCourse(tool) \in {Take1, Update1} \/ Harmless(AgentcoordCourse(tool))
<1>1. \A a \in Step \ {"job_take", "job_update", "swarm_list"} : Harmless(<<a>>)
  BY DEF Harmless
<1>2. \A a, b \in Step \ {"job_take", "job_update", "swarm_list"} : Harmless(<<a, b>>)
  BY DEF Harmless
<1>3. \A a, b, c \in Step \ {"job_take", "job_update", "swarm_list"} : Harmless(<<a, b, c>>)
  BY DEF Harmless
<1>4. ASSUME tool \in CodeTool PROVE Harmless(CodeCourse(tool))
  <2>1. CASE tool = "board"
    BY <1>2, <2>1 DEF CodeCourse, Step, Checks, ReadOps
  <2>2. CASE tool \in {"postTask", "claim"}
    BY <1>3, <2>2 DEF CodeCourse, Step, Checks, ReadOps
  <2>3. CASE tool = "release"
    BY <1>3, <2>3 DEF CodeCourse, Step, Checks, ReadOps
  <2>4. CASE tool = "heartbeat"
    BY <1>2, <2>4 DEF CodeCourse, Step, Checks, ReadOps
  <2>5. CASE tool = "heartbeatAll"
    BY <1>1, <2>5 DEF CodeCourse, Step, Checks, ReadOps
  <2>6. CASE tool = "message"
    BY <1>2, <2>6 DEF CodeCourse, Step, Checks, ReadOps
  <2>7. CASE tool = "finish"
    BY <1>2, <2>7 DEF CodeCourse, Step, Checks, ReadOps
  <2>8. CASE tool = "finishAll"
    BY <1>1, <2>8 DEF CodeCourse, Step, Checks, ReadOps
  <2> QED
    BY <1>4, <2>1, <2>2, <2>3, <2>4, <2>5, <2>6, <2>7, <2>8 DEF CodeTool
<1>5. ASSUME tool \in WorkTool PROVE WorkCourse(tool) \in {Take1, Update1} \/ Harmless(WorkCourse(tool))
  <2>1. CASE tool \in {"attention", "ack", "read"}
    BY <1>1, <2>1 DEF WorkCourse, Step, Checks, ReadOps
  <2>2. CASE tool = "projectList"
    BY <1>1, <2>2 DEF WorkCourse, Step, Checks, ReadOps
  <2>3. CASE tool = "projectShow"
    BY <1>2, <2>3 DEF WorkCourse, Step, Checks, ReadOps
  <2>4. CASE tool = "jobTake"
    BY <2>4 DEF WorkCourse, TakeInPlan, Take1
  <2>5. CASE tool = "jobUpdate"
    BY <2>5 DEF WorkCourse, Update1
  <2>6. CASE tool = "myJobs"
    BY <1>2, <2>6 DEF WorkCourse, Step, Checks, ReadOps
  <2> QED
    BY <1>5, <2>1, <2>2, <2>3, <2>4, <2>5, <2>6 DEF WorkTool
<1> QED
  BY <1>4, <1>5 DEF AgentcoordCourse, BoardTool

-----------------------------------------------------------------------------
\* What was shown stays shown.
LEMMA ShownLater ==
  ASSUME NEW r \in BoardRequest, NEW local, NEW seen, NEW given, NEW seen2, NEW given2,
         seen \subseteq seen2, given \subseteq given2, OnCourse(r, local, seen, given)
  PROVE  OnCourse(r, local, seen2, given2)
<1>1. /\ \A p : WithinReach(p, seen) => WithinReach(p, seen2)
      /\ JobsGiven(r, given) \subseteq JobsGiven(r, given2)
  BY DEF WithinReach, JobsGiven
<1>2. Theirs(r, local, given) => Theirs(r, local, given2)
  BY <1>1 DEF Theirs
<1>3. Course(r, local, seen, given) => Course(r, local, seen2, given2)
  BY <1>1, <1>2 DEF Course
<1> QED
  BY <1>1, <1>3 DEF OnCourse

\* A request that has ended is on course.
LEMMA EndsOnCourse ==
  ASSUME NEW r, NEW seen, NEW given, NEW how \in {"done", "refused", "limited", "failed"}
  PROVE  OnCourse(r, RequestEnds(how), seen, given)
BY DEF OnCourse, RequestEnds, NotCalled, Busy

\* Going on after a step that has shown what it should.
LEMMA NextStepOnCourse ==
  ASSUME NEW r, NEW local, NEW new, NEW seen, NEW given, Shown(r, local, seen, given),
         Tail(local.todo) # <<>>, new.todo = Tail(local.todo),
         new.at = "next", new.project = local.project,
         Head(new.todo) \in {"inPlan", "mine"} => new.answer = local.answer
  PROVE  OnCourse(r, new, seen, given)
<1>1. Course(r, new, seen, given)
  <2>1. CASE Harmless(local.todo)
    <3>1. Harmless(new.todo)
      BY <2>1, HarmlessSteps
    <3> QED
      BY <3>1 DEF Course
  <2>2. CASE local.todo = Take1 /\ WithinReach(local.project, seen)
    <3>1. new.todo = Take2
      BY <2>2, TakeSteps
    <3> QED
      BY <2>2, <3>1 DEF Course
  <2>3. CASE local.todo = Take2 /\ WithinReach(local.project, seen) /\ local.answer \subseteq JobsOf(local.project)
    <3>1. new.todo = Take3 /\ new.answer = local.answer
      BY <2>3, TakeSteps
    <3> QED
      BY <2>3, <3>1 DEF Course
  <2>4. CASE local.todo = Take3 /\ WithinReach(local.project, seen) /\ local.project = ProjectOf[r.job]
    <3>1. new.todo = Take4
      BY <2>4, TakeSteps
    <3> QED
      BY <2>4, <3>1 DEF Course
  <2>5. CASE local.todo = Update1 /\ local.answer \subseteq JobsGiven(r, given)
    <3>1. new.todo = Update2 /\ new.answer = local.answer
      BY <2>5, UpdateSteps
    <3> QED
      BY <2>5, <3>1 DEF Course
  <2>6. CASE local.todo = Update2 /\ Theirs(r, local, given)
    <3>1. new.todo = Update3
      BY <2>6, UpdateSteps
    <3> QED
      BY <2>6, <3>1 DEF Course, Theirs
  <2>7. CASE local.todo = Update3 /\ Theirs(r, local, given) /\ WithinReach(local.project, seen)
    <3>1. new.todo = Update4
      BY <2>7, UpdateSteps
    <3> QED
      BY <2>7, <3>1 DEF Course, Theirs
  <2>8. local.todo \notin {Take4, Update4}
    BY TakeSteps, UpdateSteps
  <2> QED
    BY <2>1, <2>2, <2>3, <2>4, <2>5, <2>6, <2>7, <2>8 DEF Shown
<1> QED
  BY <1>1 DEF OnCourse

\* Going on to the next step keeps a request on its course.
LEMMA OnToCourse ==
  ASSUME NEW r, NEW local, NEW seen, NEW given, Shaped(local), Shown(r, local, seen, given)
  PROVE  OnCourse(r, OnTo(local), seen, given)
<1>1. CASE Tail(local.todo) = <<>>
  BY <1>1, EndsOnCourse DEF OnTo
<1>2. CASE Tail(local.todo) # <<>>
  <2> DEFINE new == OnTo(local)
  <2>1. /\ new.at = "next" /\ new.todo = Tail(local.todo) /\ new.project = local.project
        /\ Head(new.todo) \in {"inPlan", "mine"} => new.answer = local.answer
    BY <1>2 DEF OnTo, Shaped, RequestFields
  <2> HIDE DEF new
  <2>2. OnCourse(r, new, seen, given)
    BY <1>2, <2>1, NextStepOnCourse
  <2> QED
    BY <2>2 DEF new
<1> QED
  BY <1>1, <1>2

\* Being refused, or going on with a project that is within reach.
LEMMA WithinCourse ==
  ASSUME NEW r, NEW local, NEW seen, NEW given, NEW names, Shaped(local),
         Course(r, local, seen, given), Head(local.todo) \in {"reach", "seek"},
         names \subseteq AllowedProject \cup seen
  PROVE  OnCourse(r, Within(local, names), seen, given)
<1>1. CASE ~(Head(local.todo) = "seek" \/ local.project \in names)
  BY <1>1, EndsOnCourse DEF Within
<1>2. CASE Head(local.todo) = "seek" \/ local.project \in names
  <2>1. Shown(r, local, seen, given)
    BY <1>2, TakeSteps, UpdateSteps DEF Course, Shown, WithinReach
  <2> QED
    BY <1>2, <2>1, OnToCourse DEF Within
<1> QED
  BY <1>1, <1>2

\* Reading the list of swarms first.
LEMMA ListFirst ==
  ASSUME NEW r, NEW local, NEW new, NEW seen, NEW given,
         Course(r, local, seen, given), Head(local.todo) \in {"reach", "seek"},
         new.todo = <<"swarm_list">> \o local.todo,
         new.at = "next", new.project = local.project, new.answer = local.answer
  PROVE  OnCourse(r, new, seen, given)
<1>1. CASE Harmless(local.todo)
  BY <1>1, HarmlessSteps DEF Course, OnCourse
<1>2. CASE local.todo = Take1
  <2>1. new.todo = Take0
    BY <1>2, AskedSteps
  <2> QED
    BY <2>1 DEF Course, OnCourse
<1>3. CASE local.todo = Update3 /\ Theirs(r, local, given)
  <2>1. new.todo = Update0
    BY <1>3, AskedSteps
  <2>2. Theirs(r, new, given)
    BY <1>3 DEF Theirs
  <2> QED
    BY <2>1, <2>2 DEF Course, OnCourse
<1>4. Harmless(local.todo) \/ local.todo = Take1 \/ (local.todo = Update3 /\ Theirs(r, local, given))
  BY TakeSteps, UpdateSteps DEF Course
<1> QED
  BY <1>1, <1>2, <1>3, <1>4

\* The way of an operation to the cluster.
LEMMA OnItsWay ==
  ASSUME NEW r, NEW local, NEW new, NEW seen, NEW given, OnCourse(r, local, seen, given),
         local.at \in Busy, Head(local.todo) \notin Checks, new.at \in {"resolved", "asking", "sent"},
         new.todo = local.todo, new.project = local.project, new.answer = local.answer
  PROVE  OnCourse(r, new, seen, given)
BY DEF OnCourse, Course, Theirs

-----------------------------------------------------------------------------
\* A step of one request preserves the invariant when its new locals are on course.
LEMMA WorkRequestStep ==
  ASSUME CredentialInv, WorkInv, service = "agentcoord", service' = service, Noted',
         NEW r \in BoardRequest, NEW local, Becomes(r, local),
         OnCourse(r, local, wasLive', wasHolder'), wasLive \subseteq wasLive', wasHolder \subseteq wasHolder'
  PROVE  WorkInv'
<1>1. \A o \in BoardRequest : req'[o] = IF o = r THEN local ELSE req[o]
  BY DEF CredentialInv, Becomes
<1>2. ASSUME NEW o \in BoardRequest PROVE OnCourse(o, req'[o], wasLive', wasHolder')
  <2>1. OnCourse(o, req[o], wasLive, wasHolder)
    BY DEF WorkInv
  <2>2. OnCourse(o, req[o], wasLive', wasHolder')
    BY <2>1, ShownLater
  <2> QED
    BY <1>1, <2>2
<1> QED
  BY <1>2 DEF WorkInv

\* A step of one request that notes nothing.
LEMMA WorkQuietStep ==
  ASSUME CredentialInv, WorkInv, service = "agentcoord", NEW r \in BoardRequest, NEW local,
         Becomes(r, local), OnCourse(r, local, wasLive, wasHolder),
         UNCHANGED <<service, swarms, live, holder, wasLive, wasHolder>>
  PROVE  WorkInv'
<1>1. Noted'
  BY DEF WorkInv, Noted
<1> QED
  BY <1>1, WorkRequestStep

\* What a request on course is known by.
LEMMA Known ==
  ASSUME CredentialInv, WorkInv, service = "agentcoord", NEW r \in BoardRequest
  PROVE  /\ Noted /\ Shaped(req[r]) /\ OnCourse(r, req[r], wasLive, wasHolder)
         /\ req[r].at \in Busy => Course(r, req[r], wasLive, wasHolder)
         /\ req[r].at \in Busy \ {"next"} => Head(req[r].todo) \notin Checks
BY DEF WorkInv, CredentialInv, Carries, OnCourse

\* A call starts a request on the course of its tool.
LEMMA WorkCallStep ==
  ASSUME CredentialInv, WorkInv, service = "agentcoord", NEW r \in BoardRequest, CallTool(r)
  PROVE  WorkInv'
<1> DEFINE course == AgentcoordCourse(r.tool)
           local  == [NotCalled EXCEPT !.at = "next", !.project = r.project, !.todo = course]
<1>1. course \in {Take1, Update1} \/ Harmless(course)
  BY ServiceAssumption, CoursesBegin
<1> HIDE DEF course
<1>2. local.at = "next" /\ local.todo = course
  BY DEF NotCalled
<1>3. Becomes(r, local) /\ UNCHANGED <<service, swarms, live, holder, wasLive, wasHolder>>
  BY DEF CallTool, course
<1> HIDE DEF local
<1>4. Course(r, local, wasLive, wasHolder)
  BY <1>1, <1>2 DEF Course
<1>5. OnCourse(r, local, wasLive, wasHolder)
  BY <1>2, <1>4 DEF OnCourse
<1> QED
  BY <1>3, <1>5, WorkQuietStep

\* A check lets a request go on, or ends it.
LEMMA WorkCheckStep ==
  ASSUME CredentialInv, WorkInv, service = "agentcoord", NEW r \in BoardRequest, Check(r)
  PROVE  WorkInv'
<1> DEFINE q     == req[r]
           step  == Head(q.todo)
           found == [q EXCEPT !.project = IF r.job \in q.answer THEN ProjectOf[r.job] ELSE NoProject]
           ask   == [q EXCEPT !.todo = <<"swarm_list">> \o @]
<1>1. /\ Noted /\ Shaped(q) /\ q.at = "next" /\ Course(r, q, wasLive, wasHolder)
      /\ step \in Checks /\ UNCHANGED <<service, swarms, live, holder, wasLive, wasHolder>>
      /\ r.job \in Job
  BY Known, ServiceAssumption DEF Check, Busy
<1>2. /\ Shaped(found) /\ found.todo = q.todo /\ found.answer = q.answer
      /\ found.project = IF r.job \in q.answer THEN ProjectOf[r.job] ELSE NoProject
      /\ ask.todo = <<"swarm_list">> \o q.todo
      /\ ask.at = "next" /\ ask.project = q.project /\ ask.answer = q.answer
  BY <1>1 DEF Shaped, RequestFields
<1>3. \/ step \in {"reach", "seek"} /\ Becomes(r, Within(q, AllowedProject \cup swarms.names))
      \/ step \in {"reach", "seek"} /\ Becomes(r, ask)
      \/ step \in Checks /\ Becomes(r, RequestEnds("refused"))
      \/ step = "claims" /\ Becomes(r, OnTo(q))
      \/ step = "inPlan" /\ r.job \in q.answer /\ Becomes(r, OnTo(q))
      \/ step = "mine" /\ Becomes(r, OnTo(found))
  BY <1>1 DEF Check
<1>q. q = req[r]
  OBVIOUS
<1> HIDE DEF found, ask, q
<1>4. CASE step \in {"reach", "seek"} /\ Becomes(r, Within(q, AllowedProject \cup swarms.names))
  <2>1. AllowedProject \cup swarms.names \subseteq AllowedProject \cup wasLive
    BY <1>1 DEF Noted
  <2>2. OnCourse(r, Within(q, AllowedProject \cup swarms.names), wasLive, wasHolder)
    BY <1>1, <1>4, <2>1, WithinCourse
  <2> QED
    BY <1>1, <1>4, <2>2, WorkQuietStep
<1>5. CASE step \in {"reach", "seek"} /\ Becomes(r, ask)
  <2>1. OnCourse(r, ask, wasLive, wasHolder)
    BY <1>1, <1>2, <1>5, ListFirst
  <2> QED
    BY <1>1, <1>5, <2>1, WorkQuietStep
<1>6. CASE Becomes(r, RequestEnds("refused"))
  BY <1>1, <1>6, EndsOnCourse, WorkQuietStep
<1>7. CASE step = "claims" /\ Becomes(r, OnTo(q))
  <2>1. Shown(r, q, wasLive, wasHolder)
    BY <1>1, <1>7, TakeSteps, UpdateSteps DEF Course, Shown
  <2> QED
    BY <1>1, <1>7, <2>1, OnToCourse, WorkQuietStep
<1>8. CASE step = "inPlan" /\ r.job \in q.answer /\ Becomes(r, OnTo(q))
  <2>1. Shown(r, q, wasLive, wasHolder)
    BY <1>1, <1>8, TakeSteps, UpdateSteps DEF Course, Shown, JobsOf
  <2> QED
    BY <1>1, <1>8, <2>1, OnToCourse, WorkQuietStep
<1>9. CASE step = "mine" /\ Becomes(r, OnTo(found))
  <2>1. Harmless(q.todo) \/ (q.todo = Update2 /\ q.answer \subseteq JobsGiven(r, wasHolder))
    BY <1>1, <1>9, TakeSteps, UpdateSteps DEF Course
  <2>2. Shown(r, found, wasLive, wasHolder)
    BY <1>2, <2>1 DEF Shown, Theirs
  <2> QED
    BY <1>1, <1>2, <1>9, <2>2, OnToCourse, WorkQuietStep
<1> QED
  BY <1>3, <1>4, <1>5, <1>6, <1>7, <1>8, <1>9

\* Reading the token leaves every request where it is on its course.
LEMMA WorkReadTokenStep ==
  ASSUME CredentialInv, WorkInv, service = "agentcoord", NEW r \in BoardRequest, ReadToken(r)
  PROVE  WorkInv'
<1> DEFINE q   == req[r]
           new == [q EXCEPT !.at = "resolved", !.token = tokenFile[AgentOf[r.who]]]
<1>1. /\ Shaped(q) /\ q.at \in Busy /\ Head(q.todo) \notin Checks /\ OnCourse(r, q, wasLive, wasHolder)
      /\ UNCHANGED <<service, swarms, live, holder, wasLive, wasHolder>>
  BY Known DEF ReadToken, Busy
<1>2. new.at = "resolved" /\ new.todo = q.todo /\ new.project = q.project /\ new.answer = q.answer
  BY <1>1 DEF Shaped, RequestFields
<1>3. Becomes(r, new) \/ Becomes(r, RequestEnds("refused"))
  BY DEF ReadToken
<1> HIDE DEF new, q
<1>4. OnCourse(r, new, wasLive, wasHolder)
  BY <1>1, <1>2, OnItsWay
<1> QED
  BY <1>1, <1>3, <1>4, EndsOnCourse, WorkQuietStep

\* The limiter admits a request or ends it; its course is the same.
LEMMA WorkAdmitStep ==
  ASSUME CredentialInv, WorkInv, service = "agentcoord", NEW r \in BoardRequest, Admit(r)
  PROVE  WorkInv'
<1> DEFINE q      == req[r]
           sent   == [q EXCEPT !.at = "sent"]
           asking == [q EXCEPT !.at = "asking"]
<1>1. /\ Shaped(q) /\ q.at \in Busy /\ Head(q.todo) \notin Checks /\ OnCourse(r, q, wasLive, wasHolder)
      /\ UNCHANGED <<service, swarms, live, holder, wasLive, wasHolder>>
  BY Known DEF Admit, Busy
<1>2. /\ sent.at = "sent" /\ sent.todo = q.todo /\ sent.project = q.project /\ sent.answer = q.answer
      /\ asking.at = "asking" /\ asking.todo = q.todo /\ asking.project = q.project /\ asking.answer = q.answer
  BY <1>1 DEF Shaped, RequestFields
<1>3. Becomes(r, sent) \/ Becomes(r, asking) \/ Becomes(r, RequestEnds("limited"))
  BY DEF Admit
<1> HIDE DEF sent, asking, q
<1>4. OnCourse(r, sent, wasLive, wasHolder) /\ OnCourse(r, asking, wasLive, wasHolder)
  BY <1>1, <1>2, OnItsWay
<1> QED
  BY <1>1, <1>3, <1>4, EndsOnCourse, WorkQuietStep

\* A credential that is verified, or refused, keeps the request on its course.
LEMMA WorkVerifyStep ==
  ASSUME CredentialInv, WorkInv, service = "agentcoord", NEW r \in BoardRequest, Verify(r)
  PROVE  WorkInv'
<1> DEFINE q    == req[r]
           sent == [q EXCEPT !.at = "sent"]
<1>1. /\ Shaped(q) /\ q.at \in Busy /\ Head(q.todo) \notin Checks /\ OnCourse(r, q, wasLive, wasHolder)
      /\ UNCHANGED <<service, swarms, live, holder, wasLive, wasHolder>>
  BY Known DEF Verify, Busy
<1>2. sent.at = "sent" /\ sent.todo = q.todo /\ sent.project = q.project /\ sent.answer = q.answer
  BY <1>1 DEF Shaped, RequestFields
<1>3. Becomes(r, sent) \/ Becomes(r, RequestEnds("refused"))
  BY DEF Verify
<1> HIDE DEF sent, q
<1>4. OnCourse(r, sent, wasLive, wasHolder)
  BY <1>1, <1>2, OnItsWay
<1> QED
  BY <1>1, <1>3, <1>4, EndsOnCourse, WorkQuietStep

\* The cluster answers with what is so, and gives a job to whose credential it is.
LEMMA WorkServeStep ==
  ASSUME CredentialInv, WorkInv, service = "agentcoord", NEW r \in BoardRequest, Serve(r)
  PROVE  WorkInv'
<1> DEFINE q      == req[r]
           as     == OwnerOf[q.token]
           answer == CASE Head(q.todo) = "swarm_list"   -> live
                       [] Head(q.todo) = "project_show" -> {j \in Job : ProjectOf[j] = q.project}
                       [] Head(q.todo) = "my_jobs"      -> {j \in Job : holder[j] = as}
                       [] OTHER                         -> {}
           new    == [q EXCEPT !.at = "served", !.answer = answer]
<1>1. /\ Noted /\ Shaped(q) /\ q.at = "sent" /\ Head(q.todo) \notin Checks
      /\ Course(r, q, wasLive, wasHolder)
      /\ UNCHANGED <<service, swarms, live, wasLive>> /\ r.job \in Job
  BY Known, ServiceAssumption DEF Serve, Busy
<1>2. as = AgentOf[r.who] /\ as # Nobody
  BY <1>1, ServiceAssumption DEF CredentialInv, Carries, Range
<1>3. /\ new.at = "served" /\ new.todo = q.todo /\ new.project = q.project /\ new.answer = answer
  BY <1>1 DEF Shaped, RequestFields
<1>4. Becomes(r, new)
  BY DEF Serve
<1>5. \/ UNCHANGED <<holder, wasHolder>>
      \/ holder' = [holder EXCEPT ![r.job] = as] /\ wasHolder' = wasHolder \cup {<<as, r.job>>}
  BY DEF Serve
<1>6. /\ Head(q.todo) = "swarm_list"   => answer = live
      /\ Head(q.todo) = "project_show" => answer = JobsOf(q.project)
      /\ Head(q.todo) = "my_jobs"      => answer = {j \in Job : holder[j] = as}
  BY DEF JobsOf
<1> HIDE DEF new, answer, as, q
<1>7. Noted'
  BY <1>1, <1>2, <1>5 DEF Noted
<1>8. OnCourse(r, new, wasLive, wasHolder)
  <2>1. q.todo \notin {Take3, Update2}
    BY <1>1, TakeSteps, UpdateSteps DEF Checks
  <2>2. Course(r, new, wasLive, wasHolder)
    BY <1>1, <1>3, <2>1 DEF Course, Theirs
  <2>3. {j \in Job : holder[j] = as} \subseteq JobsGiven(r, wasHolder)
    BY <1>1, <1>2 DEF Noted, JobsGiven
  <2> QED
    BY <1>1, <1>3, <1>6, <2>2, <2>3 DEF OnCourse, Noted
<1>9. wasLive \subseteq wasLive' /\ wasHolder \subseteq wasHolder'
  BY <1>1, <1>5
<1>10. OnCourse(r, new, wasLive', wasHolder')
  BY <1>8, <1>9, ShownLater
<1> QED
  BY <1>1, <1>4, <1>7, <1>9, <1>10, WorkRequestStep

\* An answer moves a request on only with what the board really said.
LEMMA WorkReceivedStep ==
  ASSUME CredentialInv, WorkInv, service = "agentcoord", NEW r \in BoardRequest, Received(r)
  PROVE  WorkInv'
<1> DEFINE q    == req[r]
           left == [q EXCEPT !.todo = Tail(@), !.answer = {}]
<1>1. /\ Noted /\ Shaped(q) /\ q.at = "served" /\ Head(q.todo) \notin Checks
      /\ Course(r, q, wasLive, wasHolder) /\ OnCourse(r, q, wasLive, wasHolder)
      /\ UNCHANGED <<service, live, holder, wasLive, wasHolder>>
  BY Known DEF Received, Busy
<1>2. Shaped(left) /\ left.todo = Tail(q.todo) /\ left.project = q.project
  BY <1>1 DEF Shaped, RequestFields
<1>3. \/ /\ Head(q.todo) = "swarm_list" /\ swarms' = [names |-> q.answer, read |-> TRUE]
         /\ Becomes(r, Within(left, AllowedProject \cup q.answer))
      \/ Head(q.todo) # "swarm_list" /\ Becomes(r, OnTo(q)) /\ UNCHANGED swarms
  BY DEF Received
<1> HIDE DEF left, q
<1>4. CASE /\ Head(q.todo) = "swarm_list" /\ swarms' = [names |-> q.answer, read |-> TRUE]
           /\ Becomes(r, Within(left, AllowedProject \cup q.answer))
  <2>1. q.answer \subseteq wasLive
    BY <1>1, <1>4 DEF OnCourse, Busy
  <2>2. Noted'
    BY <1>1, <1>4, <2>1 DEF Noted
  <2>3. OnCourse(r, Within(left, AllowedProject \cup q.answer), wasLive, wasHolder)
    <3>1. CASE Harmless(q.todo)
      <4>1. Harmless(left.todo) /\ Course(r, left, wasLive, wasHolder)
        BY <1>2, <1>4, <3>1, HarmlessSteps DEF Harmless, Course
      <4>2. CASE ~(Head(left.todo) = "seek" \/ left.project \in AllowedProject \cup q.answer)
        BY <4>2, EndsOnCourse DEF Within
      <4>3. CASE Head(left.todo) = "seek" \/ left.project \in AllowedProject \cup q.answer
        <5>1. Shown(r, left, wasLive, wasHolder)
          BY <4>1 DEF Shown
        <5> QED
          BY <1>2, <4>3, <5>1, OnToCourse DEF Within
      <4> QED
        BY <4>2, <4>3
    <3>2. CASE ~Harmless(q.todo)
      <4>1. \/ left.todo = Take1
            \/ left.todo = Update3 /\ Theirs(r, left, wasHolder)
        BY <1>1, <1>2, <1>4, <3>2, TakeSteps, UpdateSteps DEF Course, Theirs
      <4>2. Course(r, left, wasLive, wasHolder) /\ Head(left.todo) = "reach"
        BY <4>1, TakeSteps, UpdateSteps DEF Course
      <4>3. AllowedProject \cup q.answer \subseteq AllowedProject \cup wasLive
        BY <2>1
      <4> QED
        BY <1>2, <4>2, <4>3, WithinCourse
    <3> QED
      BY <3>1, <3>2
  <2> QED
    BY <1>1, <1>4, <2>2, <2>3, WorkRequestStep
<1>5. CASE Head(q.todo) # "swarm_list" /\ Becomes(r, OnTo(q)) /\ UNCHANGED swarms
  <2>1. /\ Head(q.todo) = "project_show" => q.answer \subseteq JobsOf(q.project)
        /\ Head(q.todo) = "my_jobs"      => q.answer \subseteq JobsGiven(r, wasHolder)
    BY <1>1 DEF OnCourse, Busy
  <2>2. Shown(r, q, wasLive, wasHolder)
    BY <1>1, <1>5, <2>1, TakeSteps, UpdateSteps DEF Course, Shown, Checks
  <2> QED
    BY <1>1, <1>5, <2>2, OnToCourse, WorkQuietStep
<1> QED
  BY <1>3, <1>4, <1>5

-----------------------------------------------------------------------------
\* Steps outside of the requests: a swarm that begins or ends, a job given back.
LEMMA WorkElsewhereStep ==
  ASSUME WorkInv, service = "agentcoord", UNCHANGED <<service, req, wasHolder>>,
         Noted', wasLive \subseteq wasLive'
  PROVE  WorkInv'
<1>1. ASSUME NEW r \in BoardRequest PROVE OnCourse(r, req'[r], wasLive', wasHolder')
  BY ShownLater DEF WorkInv
<1> QED
  BY <1>1 DEF WorkInv

\* Every step of the services keeps each request on its course.
LEMMA WorkStep == CredentialInv /\ WorkInv /\ [ServiceNext]_serviceVars => WorkInv'
<1> SUFFICES ASSUME CredentialInv, WorkInv, [ServiceNext]_serviceVars, service = "agentcoord" PROVE WorkInv'
  <2>1. ASSUME [ServiceNext]_serviceVars PROVE service' = service
    <3>1. ASSUME NEW r \in BoardRequest, CallTool(r) PROVE service' = service
      BY <3>1 DEF CallTool
    <3>2. ASSUME NEW r \in BoardRequest, Check(r) PROVE service' = service
      BY <3>2 DEF Check
    <3>3. ASSUME NEW r \in BoardRequest, ReadToken(r) PROVE service' = service
      BY <3>3 DEF ReadToken
    <3>4. ASSUME NEW r \in BoardRequest, Admit(r) PROVE service' = service
      BY <3>4 DEF Admit
    <3>5. ASSUME NEW r \in BoardRequest, Verify(r) PROVE service' = service
      BY <3>5 DEF Verify
    <3>6. ASSUME NEW r \in BoardRequest, Serve(r) PROVE service' = service
      BY <3>6 DEF Serve
    <3>7. ASSUME NEW r \in BoardRequest, Received(r) PROVE service' = service
      BY <3>7 DEF Received
    <3>8. ASSUME NEW r \in BoardRequest, Refused(r) PROVE service' = service
      BY <3>8 DEF Refused
    <3>9. ASSUME NEW j \in Job, JobMoves(j) PROVE service' = service
      BY <3>9 DEF JobMoves
    <3>10. ASSUME NEW p \in OtherProject, SwarmChanges(p) PROVE service' = service
      BY <3>10 DEF SwarmChanges
    <3>11. ASSUME NEW a \in Agent, TokenExchanged(a) PROVE service' = service
      BY <3>11 DEF TokenExchanged
    <3>12. CASE UNCHANGED serviceVars
      BY <3>12 DEF serviceVars
    <3> QED
      BY <2>1, <3>1, <3>2, <3>3, <3>4, <3>5, <3>6, <3>7, <3>8, <3>9, <3>10, <3>11, <3>12 DEF ServiceNext
  <2> QED
    BY <2>1 DEF WorkInv
<1>1. Noted
  BY DEF WorkInv
<1>2. ASSUME NEW r \in BoardRequest, Refused(r) PROVE WorkInv'
  BY <1>2, EndsOnCourse, WorkQuietStep DEF Refused
<1>3. ASSUME NEW j \in Job, JobMoves(j) PROVE WorkInv'
  <2>1. Noted'
    BY <1>1, <1>3 DEF JobMoves, Noted
  <2> QED
    BY <1>3, <2>1, WorkElsewhereStep DEF JobMoves
<1>4. ASSUME NEW p \in OtherProject, SwarmChanges(p) PROVE WorkInv'
  <2>1. Noted' /\ wasLive \subseteq wasLive'
    BY <1>1, <1>4 DEF SwarmChanges, Noted
  <2> QED
    BY <1>4, <2>1, WorkElsewhereStep DEF SwarmChanges
<1>5. ASSUME NEW a \in Agent, TokenExchanged(a) PROVE WorkInv'
  <2>1. Noted' /\ UNCHANGED <<service, req, wasHolder, wasLive>>
    BY <1>1, <1>5 DEF TokenExchanged, Noted
  <2> QED
    BY <2>1, WorkElsewhereStep
<1>6. CASE UNCHANGED serviceVars
  <2>1. Noted' /\ UNCHANGED <<service, req, wasHolder, wasLive>>
    BY <1>1, <1>6 DEF serviceVars, Noted
  <2> QED
    BY <2>1, WorkElsewhereStep
<1> QED
  BY <1>2, <1>3, <1>4, <1>5, <1>6, WorkCallStep, WorkCheckStep, WorkReadTokenStep, WorkAdmitStep,
     WorkVerifyStep, WorkServeStep, WorkReceivedStep DEF ServiceNext

\* At first no request has begun its course.
LEMMA WorkInitially == ASSUME ServiceInit PROVE WorkInv
<1>1. Noted
  BY DEF ServiceInit, Noted
<1>2. \A r \in BoardRequest : OnCourse(r, req[r], wasLive, wasHolder)
  BY DEF ServiceInit, OnCourse, NotCalled, Busy
<1> QED
  BY <1>1, <1>2 DEF WorkInv

\* A job is taken only in a project that is listed or was a swarm, and reported on only by
\* an agent that was given it, however often projects end and jobs change hands between
\* the operations of a request (agentcoord-service.ts:481).
THEOREM WorkTheorem == ServiceSpec => []WorkIsTheirs
<1>1. ServiceInit => CredentialInv /\ WorkInv
  BY CredentialInitially, WorkInitially
<1>2. CredentialInv /\ WorkInv => WorkIsTheirs
  <2> SUFFICES ASSUME CredentialInv, WorkInv, NEW r \in BoardRequest,
                      Sending(r), Head(req[r].todo) \in {"job_take", "job_update"}
               PROVE  /\ ProjectOf[r.job] \in AllowedProject \cup wasLive
                      /\ Head(req[r].todo) = "job_update" => <<AgentOf[r.who], r.job>> \in wasHolder
    BY DEF WorkIsTheirs
  <2> DEFINE q == req[r]
  <2>1. Noted /\ Course(r, q, wasLive, wasHolder)
    BY Known DEF Sending, Busy
  <2>2. ~Harmless(q.todo)
    BY HarmlessSteps
  <2>3. \/ q.todo = Take4 /\ WithinReach(q.project, wasLive) /\ q.project = ProjectOf[r.job]
        \/ q.todo = Update4 /\ Theirs(r, q, wasHolder) /\ WithinReach(q.project, wasLive)
    BY <2>1, <2>2, TakeSteps, UpdateSteps DEF Course
  <2>4. ~WithinReach(NoProject, wasLive)
    BY <2>1, ServiceAssumption DEF Noted, WithinReach, Project
  <2> QED
    BY <2>3, <2>4, TakeSteps DEF Theirs, WithinReach, JobsGiven
<1> QED
  BY <1>1, <1>2, CredentialStep, WorkStep, PTL DEF ServiceSpec
-----------------------------------------------------------------------------
(* The tools: the limits.                                                  *)

\* A limiter has no more windows than it may, and none counts more than its rate.
Limited(limiter) ==
  /\ DOMAIN limiter \subseteq BoardSession /\ IsFiniteSet(DOMAIN limiter)
  /\ Cardinality(DOMAIN limiter) <= MaxKeys
  /\ limiter \in [DOMAIN limiter -> 1..RatePerMinute]

LimiterInv ==
  /\ DOMAIN windows = {"read", "write"} /\ windows = [kind \in DOMAIN windows |-> windows[kind]]
  /\ \A kind \in {"read", "write"} : Limited(windows[kind])

\* A window that is opened is the only one that is new.
LEMMA OpenedLimited ==
  ASSUME NEW limiter, NEW s \in BoardSession, Limited(limiter), Cardinality(DOMAIN limiter) < MaxKeys
  PROVE  Limited(Opened(limiter, s))
<1> DEFINE after == Opened(limiter, s)
<1>1. /\ DOMAIN after = DOMAIN limiter \cup {s}
      /\ \A k \in DOMAIN after : after[k] = IF k = s THEN 1 ELSE limiter[k]
      /\ after = [k \in DOMAIN after |-> after[k]]
  BY DEF Opened
<1> HIDE DEF after
<1>2. RatePerMinute \in Nat \ {0} /\ MaxKeys \in Nat
  BY ServiceAssumption
<1>3. after \in [DOMAIN after -> 1..RatePerMinute]
  BY <1>1, <1>2 DEF Limited
<1>4. IsFiniteSet(DOMAIN after) /\ Cardinality(DOMAIN after) <= Cardinality(DOMAIN limiter) + 1
      /\ Cardinality(DOMAIN limiter) \in Nat /\ Cardinality(DOMAIN after) \in Nat
  <2>1. IsFiniteSet(DOMAIN limiter)
    BY DEF Limited
  <2>2. IsFiniteSet(DOMAIN limiter \cup {s})
    BY <2>1, FS_AddElement
  <2>3. Cardinality(DOMAIN limiter) \in Nat /\ Cardinality(DOMAIN limiter \cup {s}) \in Nat
    BY <2>1, <2>2, FS_CardinalityType
  <2>4. Cardinality(DOMAIN limiter \cup {s}) \in {Cardinality(DOMAIN limiter), Cardinality(DOMAIN limiter) + 1}
    BY <2>1, FS_AddElement
  <2> QED
    BY <1>1, <2>2, <2>3, <2>4
<1>5. Cardinality(DOMAIN after) <= MaxKeys
  BY <1>2, <1>4
<1> QED
  BY <1>1, <1>3, <1>4, <1>5 DEF Limited, after

\* Windows that have ended are dropped.
LEMMA DroppedLimited ==
  ASSUME NEW limiter, Limited(limiter), NEW over
  PROVE  Limited(Restrict(limiter, DOMAIN limiter \ over))
<1> DEFINE after == Restrict(limiter, DOMAIN limiter \ over)
<1>1. /\ DOMAIN after = DOMAIN limiter \ over
      /\ \A k \in DOMAIN after : after[k] = limiter[k]
      /\ after = [k \in DOMAIN after |-> after[k]]
  BY DEF Restrict
<1> HIDE DEF after
<1>2. after \in [DOMAIN after -> 1..RatePerMinute]
  BY <1>1 DEF Limited
<1>3. IsFiniteSet(DOMAIN after) /\ Cardinality(DOMAIN after) <= Cardinality(DOMAIN limiter)
      /\ Cardinality(DOMAIN limiter) \in Nat /\ Cardinality(DOMAIN after) \in Nat
  BY <1>1, FS_Subset, FS_CardinalityType DEF Limited
<1>4. Cardinality(DOMAIN after) <= MaxKeys
  BY <1>3, ServiceAssumption DEF Limited
<1> QED
  BY <1>1, <1>2, <1>3, <1>4 DEF Limited, after

\* The limiter never counts beyond its rate nor keeps more windows than it may.
LEMMA TakeLimited ==
  ASSUME NEW limiter, NEW s \in BoardSession, Limited(limiter), NEW over
  PROVE  Limited(Take(limiter, s, over).map)
<1> DEFINE full == Cardinality(DOMAIN limiter) >= MaxKeys
           kept == IF full THEN Restrict(limiter, DOMAIN limiter \ over) ELSE limiter
<1>1. Limited(kept)
  BY DroppedLimited
<1>2. MaxKeys \in Nat /\ RatePerMinute \in Nat \ {0} /\ Cardinality(DOMAIN kept) \in Nat
  BY <1>1, ServiceAssumption, FS_CardinalityType DEF Limited
<1>3. CASE s \notin DOMAIN limiter \/ s \in over
  <2>1. Take(limiter, s, over).map \in {kept, Opened(kept, s)}
        /\ (Cardinality(DOMAIN kept) >= MaxKeys => Take(limiter, s, over).map = kept)
    BY <1>3 DEF Take
  <2> HIDE DEF kept
  <2>2. CASE Cardinality(DOMAIN kept) >= MaxKeys
    BY <1>1, <2>1, <2>2
  <2>3. CASE Cardinality(DOMAIN kept) < MaxKeys
    BY <1>1, <2>1, <2>3, OpenedLimited
  <2> QED
    BY <1>2, <2>2, <2>3
<1>4. CASE s \in DOMAIN limiter /\ s \notin over
  <2> DEFINE more == [limiter EXCEPT ![s] = @ + 1]
  <2>1. CASE limiter[s] >= RatePerMinute
    <3>1. Take(limiter, s, over).map = limiter
      BY <1>4, <2>1 DEF Take
    <3> QED
      BY <3>1
  <2>2. CASE ~(limiter[s] >= RatePerMinute)
    <3>1. Take(limiter, s, over).map = more
      BY <1>4, <2>2 DEF Take
    <3>2. DOMAIN more = DOMAIN limiter /\ more \in [DOMAIN limiter -> 1..RatePerMinute]
      BY <1>2, <1>4, <2>2 DEF Limited
    <3> HIDE DEF more
    <3>3. Limited(more)
      BY <3>2 DEF Limited
    <3> QED
      BY <3>1, <3>3
  <2> QED
    BY <2>1, <2>2
<1> QED
  BY <1>3, <1>4

\* Only the admission of a request moves a limiter.
LEMMA LimiterStep == LimiterInv /\ [ServiceNext]_serviceVars => LimiterInv'
<1> SUFFICES ASSUME LimiterInv, [ServiceNext]_serviceVars PROVE LimiterInv'
  OBVIOUS
<1>1. ASSUME UNCHANGED windows PROVE LimiterInv'
  BY <1>1 DEF LimiterInv
<1>2. ASSUME NEW r \in BoardRequest, Admit(r) PROVE LimiterInv'
  <2> DEFINE kind == IF Head(req[r].todo) \in ReadOps THEN "read" ELSE "write"
  <2>1. kind \in {"read", "write"}
    OBVIOUS
  <2>2. PICK over : windows' = [windows EXCEPT ![kind] = Take(windows[kind], r.who, over).map]
    BY <1>2, Zenon DEF Admit
  <2> HIDE DEF kind
  <2>3. r.who \in BoardSession
    BY ServiceAssumption
  <2>4. Limited(Take(windows[kind], r.who, over).map)
    BY <2>1, <2>3, TakeLimited DEF LimiterInv
  <2> QED
    BY <2>1, <2>2, <2>4 DEF LimiterInv
<1>3. ASSUME NEW r \in BoardRequest, CallTool(r) \/ Check(r) \/ ReadToken(r) PROVE UNCHANGED windows
  BY <1>3 DEF CallTool, Check, ReadToken
<1>4. ASSUME NEW r \in BoardRequest, Verify(r) \/ Serve(r) \/ Received(r) \/ Refused(r) PROVE UNCHANGED windows
  BY <1>4 DEF Verify, Serve, Received, Refused
<1>5. ASSUME NEW j \in Job, JobMoves(j) PROVE UNCHANGED windows
  BY <1>5 DEF JobMoves
<1>6. ASSUME NEW p \in OtherProject, SwarmChanges(p) PROVE UNCHANGED windows
  BY <1>6 DEF SwarmChanges
<1>7. ASSUME NEW a \in Agent, TokenExchanged(a) PROVE UNCHANGED windows
  BY <1>7 DEF TokenExchanged
<1>8. CASE UNCHANGED serviceVars
  BY <1>1, <1>8 DEF serviceVars
<1> QED
  BY <1>1, <1>2, <1>3, <1>4, <1>5, <1>6, <1>7, <1>8 DEF ServiceNext

-----------------------------------------------------------------------------
(* The tools: types.                                                       *)

Being == Busy \cup {"idle", "done", "refused", "limited", "failed"}

\* The steps of the courses of the board service: none of them takes a job or reads the
\* swarms.
BoardStepName ==
  {"reach", "claims", "snapshot", "post_task", "claim", "release", "heartbeat", "message", "finish"}

Plain(todo) == todo \in Seq(BoardStepName) /\ todo # <<>>

\* A request is where the model knows it to be, on the board service with a plain course.
Placed(local) == local.at \in Being /\ (service = "board" /\ local.at \in Busy => Plain(local.todo))

\* With the invariants above, the inductive invariant for the types.
PlacedInv ==
  /\ service \in {"agentcoord", "board"}
  /\ swarms \in [names : SUBSET OtherProject, read : BOOLEAN]
  /\ \A r \in BoardRequest : Placed(req[r])
  /\ holder \in [Job -> Agent \cup Range(OwnerOf) \cup {Nobody}]
  /\ live \subseteq wasLive /\ wasLive \subseteq OtherProject

ServiceInv == CredentialInv /\ WorkInv /\ LimiterInv /\ PlacedInv

\* Every course of the board service is plain.
LEMMA PlainCourses == ASSUME NEW tool \in CodeTool PROVE Plain(BoardCourse(tool))
<1>1. ASSUME NEW a \in BoardStepName PROVE Plain(<<a>>) /\ Plain(<<"reach", a>>)
  BY DEF Plain, BoardStepName
<1>2. ASSUME NEW a \in BoardStepName PROVE Plain(<<"reach", "claims", a>>)
  BY DEF Plain, BoardStepName
<1>3. \/ BoardCourse(tool) = <<"reach", "snapshot">>
      \/ BoardCourse(tool) = <<"reach", "claims", "post_task">>
      \/ tool \in {"claim", "release"} /\ BoardCourse(tool) = <<"reach", "claims", tool>>
      \/ BoardCourse(tool) = <<"heartbeat">>
      \/ BoardCourse(tool) = <<"finish">>
      \/ tool \in {"heartbeat", "message", "finish"} /\ BoardCourse(tool) = <<"reach", tool>>
  BY DEF BoardCourse, CodeTool
<1> QED
  BY <1>1, <1>2, <1>3 DEF BoardStepName

\* What is left of a plain course, unless nothing is, is one.
LEMMA PlainSteps ==
  ASSUME NEW todo, Plain(todo)
  PROVE  Head(todo) \in BoardStepName /\ (Tail(todo) # <<>> => Plain(Tail(todo)))
BY HeadTailProperties DEF Plain

\* A request that ends, or goes on to the next step of its course, stays in place.
LEMMA GoesOnPlaced ==
  ASSUME NEW local, Shaped(local), Placed(local), local.at \in Busy
  PROVE  /\ \A how \in {"done", "refused", "limited", "failed"} : Placed(RequestEnds(how))
         /\ Placed(OnTo(local))
<1>1. ASSUME NEW how \in {"done", "refused", "limited", "failed"} PROVE Placed(RequestEnds(how))
  BY DEF Placed, Being, Busy, RequestEnds, NotCalled
<1>2. CASE Tail(local.todo) = <<>>
  BY <1>1, <1>2 DEF OnTo
<1>3. CASE Tail(local.todo) # <<>>
  <2>1. OnTo(local).at = "next" /\ OnTo(local).todo = Tail(local.todo)
    BY <1>3 DEF OnTo, Shaped, RequestFields
  <2>2. OnTo(local).at \in Being
    BY <2>1 DEF Being, Busy
  <2>3. service = "board" => Plain(local.todo)
    BY DEF Placed
  <2>4. service = "board" => Plain(Tail(local.todo))
    BY <1>3, <2>3, PlainSteps
  <2>5. service = "board" => Plain(OnTo(local).todo)
    BY <2>1, <2>4
  <2>6. Placed(OnTo(local))
    BY <2>2, <2>5 DEF Placed
  <2> QED
    BY <1>1, <2>6
<1> QED
  BY <1>1, <1>2, <1>3

\* A step of one request that leaves the rest alone.
LEMMA PlacedRequest ==
  ASSUME CredentialInv, PlacedInv, NEW r \in BoardRequest, NEW local, Becomes(r, local), Placed(local),
         UNCHANGED <<service, swarms, holder, live, wasLive>>
  PROVE  PlacedInv'
<1>1. \A o \in BoardRequest : req'[o] = IF o = r THEN local ELSE req[o]
  BY DEF CredentialInv, Becomes
<1>2. ASSUME NEW o \in BoardRequest PROVE Placed(req[o])'
  BY <1>1 DEF PlacedInv, Placed
<1> QED
  BY <1>2 DEF PlacedInv

\* A check keeps the request in place.
LEMMA PlacedCheckStep ==
  ASSUME CredentialInv, PlacedInv, NEW r \in BoardRequest, Check(r) PROVE PlacedInv'
<1> DEFINE q == req[r]
           elsewhere == [q EXCEPT !.project = IF r.job \in q.answer THEN ProjectOf[r.job] ELSE NoProject]
           asks == [q EXCEPT !.todo = <<"swarm_list">> \o @]
<1>1. Shaped(q) /\ Placed(q) /\ q.at \in Busy /\ UNCHANGED <<service, swarms, holder, live, wasLive>>
  BY DEF CredentialInv, Carries, PlacedInv, Check, Busy
<1>2. Shaped(elsewhere) /\ Placed(elsewhere) /\ elsewhere.at \in Busy
  BY <1>1 DEF Shaped, RequestFields, Placed
<1>3. service = "agentcoord" => Placed(asks)
  BY <1>1 DEF Shaped, RequestFields, Placed
<1>4. /\ Placed(OnTo(q)) /\ Placed(RequestEnds("refused")) /\ Placed(OnTo(elsewhere))
      /\ \A names : Placed(Within(q, names))
  BY <1>1, <1>2, GoesOnPlaced DEF Within
<1>5. \E local : Becomes(r, local) /\
        \/ \E names : local = Within(q, names)
        \/ local \in {OnTo(q), RequestEnds("refused"), OnTo(elsewhere)}
        \/ service = "agentcoord" /\ local = asks
  BY DEF Check
<1> HIDE DEF q, elsewhere, asks
<1> QED
  BY <1>1, <1>3, <1>4, <1>5, PlacedRequest

\* What is served is noted: who takes a job is an agent that a credential belongs to.
LEMMA PlacedServeStep ==
  ASSUME CredentialInv, PlacedInv, NEW r \in BoardRequest, Serve(r) PROVE PlacedInv'
<1> DEFINE q  == req[r]
           as == IF service = "board" THEN r.who ELSE OwnerOf[q.token]
<1>1. /\ Shaped(q) /\ Carries(r, q) /\ Placed(q) /\ q.at = "sent"
      /\ UNCHANGED <<service, swarms, live, wasLive>>
  BY DEF CredentialInv, Carries, PlacedInv, Serve
<1>2. PICK given : Becomes(r, [req[r] EXCEPT !.at = "served", !.answer = given])
  BY Zenon DEF Serve
<1>3. Placed([q EXCEPT !.at = "served", !.answer = given])
  <2>1. service = "board" => Plain(q.todo)
    BY <1>1 DEF Placed, Busy
  <2> QED
    BY <1>1, <2>1 DEF Shaped, RequestFields, Placed, Being, Busy
<1>4. holder' \in [Job -> Agent \cup Range(OwnerOf) \cup {Nobody}]
  <2>1. CASE Head(q.todo) = "job_take"
    <3>1. service = "agentcoord"
      <4>1. service = "board" => Head(q.todo) \in BoardStepName
        BY <1>1, PlainSteps DEF Placed, Busy
      <4> QED
        BY <2>1, <4>1 DEF PlacedInv, BoardStepName
    <3>2. OwnerOf[q.token] \in Range(OwnerOf)
      BY <1>1, <3>1, ServiceAssumption DEF Carries, Range
    <3>3. holder' = [holder EXCEPT ![r.job] = OwnerOf[q.token]]
      BY <2>1, <3>1 DEF Serve
    <3> QED
      BY <3>2, <3>3 DEF PlacedInv
  <2>2. CASE Head(q.todo) # "job_take"
    BY <2>2 DEF Serve, PlacedInv
  <2> QED
    BY <2>1, <2>2
<1> DEFINE after == [q EXCEPT !.at = "served", !.answer = given]
<1>5. Becomes(r, after) /\ Placed(after)
  BY <1>2, <1>3
<1> HIDE DEF q, after
<1>6. \A o \in BoardRequest : req'[o] = IF o = r THEN after ELSE req[o]
  BY <1>5 DEF CredentialInv, Becomes
<1>7. ASSUME NEW o \in BoardRequest PROVE Placed(req[o])'
  BY <1>1, <1>5, <1>6 DEF PlacedInv, Placed
<1> QED
  BY <1>1, <1>4, <1>7 DEF PlacedInv

\* The list of swarms is kept only by the agentcoord service, and names what was one.
LEMMA PlacedReceivedStep ==
  ASSUME CredentialInv, WorkInv, PlacedInv, NEW r \in BoardRequest, Received(r) PROVE PlacedInv'
<1> DEFINE q == req[r]  left == [q EXCEPT !.todo = Tail(@), !.answer = {}]
<1>1. /\ Shaped(q) /\ Placed(q) /\ q.at = "served" /\ q.at \in Busy
      /\ UNCHANGED <<service, holder, live, wasLive>>
  BY DEF CredentialInv, Carries, PlacedInv, Received, Busy
<1>2. CASE Head(q.todo) = "swarm_list"
  <2>1. service = "agentcoord"
    <3>1. service = "board" => Head(q.todo) \in BoardStepName
      BY <1>1, PlainSteps DEF Placed
    <3> QED
      BY <1>2, <3>1 DEF PlacedInv, BoardStepName
  <2>2. Shaped(left) /\ Placed(left) /\ left.at \in Busy
    BY <1>1, <2>1 DEF Shaped, RequestFields, Placed
  <2>3. q.answer \subseteq OtherProject
    BY <1>1, <1>2, <2>1 DEF WorkInv, OnCourse, Noted
  <2>4. swarms' = [names |-> q.answer, read |-> TRUE]
        /\ Becomes(r, Within(left, AllowedProject \cup q.answer))
    BY <1>2 DEF Received
  <2>5. swarms' \in [names : SUBSET OtherProject, read : BOOLEAN]
    BY <2>3, <2>4
  <2> HIDE DEF left, q
  <2>6. Placed(Within(left, AllowedProject \cup q.answer))
    BY <2>2, GoesOnPlaced DEF Within
  <2>7. \A o \in BoardRequest : req'[o] = IF o = r THEN Within(left, AllowedProject \cup q.answer) ELSE req[o]
    BY <2>4 DEF CredentialInv, Becomes
  <2>8. ASSUME NEW o \in BoardRequest PROVE Placed(req[o])'
    BY <1>1, <2>6, <2>7 DEF PlacedInv, Placed
  <2> QED
    BY <1>1, <2>5, <2>8 DEF PlacedInv
<1>3. CASE Head(q.todo) # "swarm_list"
  <2>1. Becomes(r, OnTo(q)) /\ UNCHANGED swarms
    BY <1>3 DEF Received
  <2> QED
    BY <1>1, <2>1, GoesOnPlaced, PlacedRequest
<1> QED
  BY <1>2, <1>3

\* The steps between that send and receive nothing.
LEMMA PlacedQuietStep ==
  ASSUME CredentialInv, PlacedInv, NEW r \in BoardRequest, ReadToken(r) \/ Admit(r) \/ Verify(r) \/ Refused(r)
  PROVE  PlacedInv'
<1> DEFINE q == req[r]
<1>1. Shaped(q) /\ Placed(q) /\ q.at \in Busy /\ UNCHANGED <<service, swarms, holder, live, wasLive>>
  BY DEF CredentialInv, Carries, PlacedInv, ReadToken, Admit, Verify, Refused, Busy
<1>2. ASSUME NEW how \in {"refused", "limited", "failed"}, Becomes(r, RequestEnds(how)) PROVE PlacedInv'
  BY <1>1, <1>2, GoesOnPlaced, PlacedRequest
<1>3. ASSUME NEW local, Becomes(r, local), DOMAIN local = RequestFields, local.at \in Busy, local.todo = q.todo
      PROVE  PlacedInv'
  BY <1>1, <1>3, PlacedRequest DEF Placed, Being
<1>4. ASSUME NEW at \in {"sent", "asking", "resolved"}
      PROVE  LET local == [q EXCEPT !.at = at] IN
             DOMAIN local = RequestFields /\ local.at \in Busy /\ local.todo = q.todo
  BY <1>1 DEF Shaped, RequestFields, Busy
<1>5. CASE ReadToken(r)
  <2> DEFINE open == [q EXCEPT !.at = "resolved"]
             read == [q EXCEPT !.at = "resolved", !.token = tokenFile[AgentOf[r.who]]]
  <2>1. Becomes(r, open) \/ Becomes(r, read) \/ Becomes(r, RequestEnds("refused"))
    BY <1>5 DEF ReadToken
  <2>2. DOMAIN open = RequestFields /\ open.at \in Busy /\ open.todo = q.todo
    BY <1>4
  <2>3. DOMAIN read = RequestFields /\ read.at \in Busy /\ read.todo = q.todo
    BY <1>1 DEF Shaped, RequestFields, Busy
  <2> HIDE DEF open, read
  <2> QED
    BY <1>2, <1>3, <2>1, <2>2, <2>3
<1>6. CASE Admit(r)
  <2> DEFINE sent == [q EXCEPT !.at = "sent"]  asks == [q EXCEPT !.at = "asking"]
  <2>1. Becomes(r, RequestEnds("limited")) \/ Becomes(r, sent) \/ Becomes(r, asks)
    BY <1>6, AdmitMoves
  <2>2. DOMAIN sent = RequestFields /\ sent.at \in Busy /\ sent.todo = q.todo
    BY <1>4
  <2>3. DOMAIN asks = RequestFields /\ asks.at \in Busy /\ asks.todo = q.todo
    BY <1>4
  <2> HIDE DEF sent, asks
  <2> QED
    BY <1>2, <1>3, <2>1, <2>2, <2>3
<1>7. CASE Verify(r)
  <2> DEFINE sent == [q EXCEPT !.at = "sent"]
  <2>1. Becomes(r, RequestEnds("refused")) \/ Becomes(r, sent)
    BY <1>7 DEF Verify
  <2>2. DOMAIN sent = RequestFields /\ sent.at \in Busy /\ sent.todo = q.todo
    BY <1>4
  <2> HIDE DEF sent
  <2> QED
    BY <1>2, <1>3, <2>1, <2>2
<1>8. CASE Refused(r)
  BY <1>2, <1>8 DEF Refused
<1> QED
  BY <1>5, <1>6, <1>7, <1>8

\* Every step keeps every request in place, and with it the types.
LEMMA PlacedStep == ServiceInv /\ [ServiceNext]_serviceVars => PlacedInv'
<1> SUFFICES ASSUME ServiceInv, [ServiceNext]_serviceVars PROVE PlacedInv'
  OBVIOUS
<1>0. CredentialInv /\ WorkInv /\ PlacedInv
  BY DEF ServiceInv
<1>1. ASSUME NEW r \in BoardRequest, CallTool(r) PROVE PlacedInv'
  <2> DEFINE course == IF service = "board" THEN BoardCourse(r.tool) ELSE AgentcoordCourse(r.tool)
             begun  == [NotCalled EXCEPT !.at = "next", !.project = r.project, !.todo = course]
  <2>1. Becomes(r, begun) /\ (service = "board" => r.tool \in CodeTool)
        /\ UNCHANGED <<service, swarms, holder, live, wasLive>>
    BY <1>1 DEF CallTool
  <2>2. service = "board" => Plain(course)
    BY <2>1, PlainCourses
  <2> HIDE DEF course
  <2>3. Placed(begun)
    BY <2>2 DEF Placed, Being, Busy, NotCalled
  <2> HIDE DEF begun
  <2> QED
    BY <1>0, <2>1, <2>3, PlacedRequest
<1>2. ASSUME NEW j \in Job, JobMoves(j) PROVE PlacedInv'
  BY <1>0, <1>2 DEF JobMoves, PlacedInv, Placed
<1>3. ASSUME NEW p \in OtherProject, SwarmChanges(p) PROVE PlacedInv'
  BY <1>0, <1>3 DEF SwarmChanges, PlacedInv, Placed
<1>4. ASSUME NEW a \in Agent, TokenExchanged(a) PROVE PlacedInv'
  BY <1>0, <1>4 DEF TokenExchanged, PlacedInv, Placed
<1>5. CASE UNCHANGED serviceVars
  BY <1>0, <1>5 DEF serviceVars, PlacedInv, Placed
<1> QED
  BY <1>0, <1>1, <1>2, <1>3, <1>4, <1>5, PlacedCheckStep, PlacedServeStep, PlacedReceivedStep,
     PlacedQuietStep DEF ServiceNext

\* However many sessions call and whenever their windows end, a limiter keeps no more
\* windows than it may and counts none beyond its rate (board-service.ts:31); and a
\* request, a credential, a swarm or a job is never anything else than such a thing.
THEOREM ServiceTypes == ServiceSpec => []ServiceTypeOK
<1>1. ServiceInit => ServiceInv
  <2> SUFFICES ASSUME ServiceInit PROVE ServiceInv
    OBVIOUS
  <2>1. CredentialInv
    BY CredentialInitially
  <2>2. WorkInv
    BY WorkInitially
  <2>3. LimiterInv
    <3>1. IsFiniteSet({}) /\ Cardinality({}) = 0
      BY FS_EmptySet
    <3>2. \A kind \in {"read", "write"} : windows[kind] = [s \in {} |-> 0]
      BY DEF ServiceInit
    <3>3. Limited([s \in {} |-> 0])
      BY <3>1, ServiceAssumption DEF Limited
    <3> QED
      BY <3>2, <3>3 DEF LimiterInv, ServiceInit
  <2>4. PlacedInv
    BY DEF ServiceInit, PlacedInv, Placed, Being, Busy, NotCalled
  <2> QED
    BY <2>1, <2>2, <2>3, <2>4 DEF ServiceInv
<1>2. ServiceInv /\ [ServiceNext]_serviceVars => ServiceInv'
  BY CredentialStep, WorkStep, LimiterStep, PlacedStep DEF ServiceInv
<1>3. ServiceInv => ServiceTypeOK
  <2> SUFFICES ASSUME ServiceInv PROVE ServiceTypeOK
    OBVIOUS
  <2>1. ASSUME NEW kind \in {"read", "write"}
        PROVE  /\ DOMAIN windows[kind] \subseteq BoardSession
               /\ Cardinality(DOMAIN windows[kind]) <= MaxKeys
               /\ \A s \in DOMAIN windows[kind] : windows[kind][s] \in 1..RatePerMinute
    BY DEF ServiceInv, LimiterInv, Limited
  <2>2. ASSUME NEW r \in BoardRequest
        PROVE  req[r].at \in Being /\ req[r].token \in Token \cup {NoToken}
    BY DEF ServiceInv, PlacedInv, Placed, CredentialInv, Carries, Shaped
  <2>3. /\ service \in {"agentcoord", "board"}
        /\ tokenFile \in [Agent -> Token \cup {NoToken}]
        /\ verified \in [Agent -> Token \cup {NoToken}]
        /\ swarms \in [names : SUBSET OtherProject, read : BOOLEAN]
        /\ holder \in [Job -> Agent \cup Range(OwnerOf) \cup {Nobody}]
        /\ live \subseteq wasLive /\ wasLive \subseteq OtherProject
    BY DEF ServiceInv, PlacedInv, CredentialInv
  <2> QED
    BY <2>1, <2>2, <2>3 DEF ServiceTypeOK, Being, Busy
<1> QED
  BY <1>1, <1>2, <1>3, PTL DEF ServiceSpec

=============================================================================
