---------------------------- MODULE BoardClient -----------------------------
(***************************************************************************)
(* The clients of the two coordination services: calls that overlap, sent  *)
(* to the nodes of a cluster in failover order, the last known leader      *)
(* first.  The two differ in what they make of a reply (Agentcoord, Board).*)
(*                                                                         *)
(* The cluster is outside: a node leads from some epoch on, may not know   *)
(* yet that it was deposed, and refuses an epoch that is not high enough.  *)
(* A request is executed, or not, and then answered; connections fail      *)
(* before, between or after.                                               *)
(***************************************************************************)
EXTENDS Naturals, Sequences, FiniteSets, SequencesExt

CONSTANTS
  BoardCall,     \* the calls; a write is made at most once, a read again and again
  BoardWrite,    \* those of them whose op is a write
  NodeCount,     \* nodes, numbered in failover order
  BusyRetries,   \* busyRetries
  DownCache,     \* is downCacheMs positive
  MaxEpoch       \* bound: epochs

ASSUME BoardAssumption ==
  /\ BoardWrite \subseteq BoardCall
  /\ {NodeCount, MaxEpoch} \subseteq Nat \ {0}
  /\ BusyRetries \in Nat /\ DownCache \in BOOLEAN

Node    == 1..NodeCount
NoNode  == 0
NoReply == [kind |-> "none", epoch |-> 0, hint |-> NoNode, by |-> 0]

VARIABLES
  backend,       \* which of the two clients this is
  known,         \* leader: its name and epoch, NoNode when there is none or it is too old
  down,          \* has downUntil not come yet
  bcall,         \* every call: its locals, and how far it has got
  epochOf,       \* external: the epoch a node leads with, 0 for a follower
  executed,      \* history: how often a write was executed
  strange,       \* history: writes that got a reply no client can read
  heard          \* history: the highest epoch read since known was last forgotten

boardVars == <<backend, known, down, bcall, epochOf, executed, strange, heard>>

\* queue: the nodes that were not tried, the next one first.
NotBegun ==
  [at |-> "idle", minEpoch |-> 0, queue |-> <<>>, node |-> NoNode,
   attempt |-> 0, anyAnswer |-> FALSE, reply |-> NoReply, floor |-> 0]

Forgotten == [name |-> NoNode, epoch |-> 0]

BoardInit ==
  /\ backend \in {"agentcoord", "board"}
  /\ known = Forgotten
  /\ down = FALSE
  /\ bcall = [c \in BoardCall |-> NotBegun]
  /\ epochOf = [n \in Node |-> IF n = 1 THEN 1 ELSE 0]
  /\ executed = [c \in BoardWrite |-> 0]
  /\ strange = {}
  /\ heard = 0

-----------------------------------------------------------------------------
(* The client.                                                             *)

Largest(a, b) == IF a >= b THEN a ELSE b

\* A call has ended, with a result, an error of the cluster or an error of its own.
Finished == [NotBegun EXCEPT !.at = "ended"]

\* Fault: the last reply is believed, whatever was known.
RememberLast(name, epoch) == known' = [name |-> name, epoch |-> epoch]

Remember(name, epoch) == known' = [name |-> name, epoch |-> Largest(epoch, known.epoch)]

\* The queue with a node in front, if it is there at all.
MovedUp(node, queue) ==
  IF node \in Range(queue)
  THEN <<node>> \o RemoveAt(queue, CHOOSE k \in 1..Len(queue) : queue[k] = node)
  ELSE queue

\* A write is an op outside of AGENTCOORD_READ_OPS or inside BOARD_WRITE_OPS.
BeginCall(c) ==
  /\ bcall[c].at = "idle" \/ (c \notin BoardWrite /\ bcall[c].at = "ended")
  /\ LET order == MovedUp(known.name, [n \in Node |-> n]) IN
       bcall' = [bcall EXCEPT ![c] =
         IF down THEN Finished
         ELSE [NotBegun EXCEPT !.at = "posting", !.floor = heard, !.minEpoch = known.epoch,
                               !.queue = Tail(order), !.node = Head(order)]]
  /\ UNCHANGED <<backend, known, down, epochOf, executed, strange, heard>>

\* The head of the loop over the nodes, in a call whose locals are now r: the next
\* node that was not tried, or the end; no answer at all is remembered for a while.
NextNode(c, r) ==
    IF r.queue # <<>>
    THEN /\ bcall' = [bcall EXCEPT ![c] =
              [r EXCEPT !.queue = Tail(@), !.node = Head(r.queue), !.attempt = 0,
                        !.at = "posting", !.reply = NoReply]]
         /\ UNCHANGED down
    ELSE /\ bcall' = [bcall EXCEPT ![c] = Finished]
         /\ down' = (down \/ (~r.anyAnswer /\ DownCache))

Done(c) ==
  /\ bcall' = [bcall EXCEPT ![c] = Finished]
  /\ UNCHANGED down

\* Fault: any failure of the transport is good for another node.
SafeElsewhereAlways(kind, write) == TRUE

\* failedBeforeSending, or a read: another node may be asked.
SafeElsewhere(kind, write) == kind = "unreachable" \/ ~write

\* What a client makes of a reply: "return", "refuse", "follow", "again", "next".
Agentcoord(kind) ==
  CASE kind = "ok"                     -> "return"
    [] kind = "notLeader"              -> "follow"
    [] kind = "busy"                   -> "again"
    [] kind \in {"refused", "broke"}   -> "refuse"
    [] OTHER                           -> "next"

Board(kind) ==
  CASE kind = "ok"                     -> "return"
    [] kind = "refused"                -> "refuse"
    [] kind \in {"notLeader", "stale"} -> "follow"
    [] kind = "busy"                   -> "again"
    [] OTHER                           -> "next"

MayRetry(attempt) == attempt < BusyRetries

\* Fault: a busy node is asked again before the attempt is counted.
CountedNever(attempt) == attempt

Counted(attempt) == attempt + 1

\* fetch throws.
TransportFails(c) ==
  LET r == bcall[c] IN
    /\ r.at = "answered" /\ r.reply.kind \in {"unreachable", "lost"}
    /\ IF SafeElsewhere(r.reply.kind, c \in BoardWrite) THEN NextNode(c, r) ELSE Done(c)
    /\ UNCHANGED <<backend, known, epochOf, executed, strange, heard>>

\* A reply is read; the epoch of one that was neither executed nor refused is not.  The
\* pause before a busy node is asked again is part of the time the request takes.
ReplyRead(c) ==
  LET r    == [bcall[c] EXCEPT !.anyAnswer = TRUE]
      what == IF backend = "agentcoord" THEN Agentcoord(r.reply.kind) ELSE Board(r.reply.kind)
  IN
    /\ r.at = "answered" /\ r.reply.kind \notin {"unreachable", "lost"}
    /\ \/ /\ what \in {"return", "refuse"}
          /\ Remember(r.node, r.reply.epoch)
          /\ heard' = Largest(heard, r.reply.epoch)
          /\ Done(c)
       \/ /\ what = "follow"
          /\ NextNode(c, [r EXCEPT !.queue = MovedUp(r.reply.hint, @)])
          /\ UNCHANGED <<known, heard>>
       \/ /\ what = "again" /\ MayRetry(r.attempt)
          /\ bcall' = [bcall EXCEPT ![c] = [r EXCEPT !.at = "posting", !.reply = NoReply,
                                                     !.attempt = Counted(@)]]
          /\ UNCHANGED <<known, down, heard>>
       \/ /\ what = "next" \/ (what = "again" /\ ~MayRetry(r.attempt))
          /\ NextNode(c, r)
          /\ UNCHANGED <<known, heard>>
    /\ UNCHANGED <<backend, epochOf, executed, strange>>

-----------------------------------------------------------------------------
(* The cluster and the network.                                            *)

\* What comes back; by is history, the epoch of the leader that executed the request.
Answer(c, kind, epoch, hint, by) ==
  bcall' = [bcall EXCEPT ![c].at = "answered",
                         ![c].reply = [kind |-> kind, epoch |-> epoch, hint |-> hint, by |-> by]]

\* The node executes the request.  It says so, or fails after that, or the answer
\* gets lost or arrives in pieces.
Execute(c) ==
  \E n \in Node :
    /\ bcall[c].at = "posting" /\ bcall[c].node = n
    /\ epochOf[n] # 0 /\ bcall[c].minEpoch <= epochOf[n]
    /\ executed' = IF c \in BoardWrite THEN [executed EXCEPT ![c] = @ + 1] ELSE executed
    /\ \E kind \in {"ok", "lost", "garbled"} \cup (IF backend = "agentcoord" THEN {"broke"} ELSE {}) :
         /\ Answer(c, kind, IF kind \in {"ok", "broke"} THEN epochOf[n] ELSE 0, NoNode, epochOf[n])
         /\ strange' = IF kind = "garbled" THEN strange \cup ({c} \cap BoardWrite) ELSE strange
    /\ UNCHANGED <<backend, known, down, epochOf, heard>>

\* The node does not execute it, or it never gets there.  To name a node that was tried
\* as the leader is as good as to name none, to lose a read as not to reach the node, and
\* to garble the refusal as to be busy to the end.
NotExecuted(c) ==
  \E n \in Node :
    /\ bcall[c].at = "posting" /\ bcall[c].node = n
    /\ \/ epochOf[n] # 0 /\ bcall[c].minEpoch <= epochOf[n] /\ Answer(c, "refused", epochOf[n], NoNode, 0)
       \/ epochOf[n] # 0 /\ bcall[c].minEpoch > epochOf[n] /\ Answer(c, "stale", 0, NoNode, 0)
       \/ epochOf[n] = 0 /\ \E hint \in Range(bcall[c].queue) \cup {NoNode} : Answer(c, "notLeader", 0, hint, 0)
       \/ \E kind \in {"busy", "unreachable"} \cup {k \in {"lost"} : c \in BoardWrite} : Answer(c, kind, 0, NoNode, 0)
    /\ UNCHANGED <<backend, known, down, epochOf, executed, strange, heard>>

\* A new leader; the old one may go on for a while.
Elect(n) ==
  /\ \E e \in 1..(MaxEpoch - 1) :
       /\ \E m \in Node \ {n} : epochOf[m] = e
       /\ \A m \in Node : epochOf[m] <= e
       /\ epochOf[n] # e
       /\ epochOf' = [epochOf EXCEPT ![n] = e + 1]
  /\ UNCHANGED <<backend, known, down, bcall, executed, strange, heard>>

StepDown(n) ==
  /\ epochOf[n] # 0
  /\ \E m \in Node : epochOf[m] > epochOf[n]
  /\ epochOf' = [epochOf EXCEPT ![n] = 0]
  /\ UNCHANGED <<backend, known, down, bcall, executed, strange, heard>>

\* An hour passes without a reply that is read.
Forget ==
  /\ known.name # NoNode
  /\ known' = Forgotten /\ heard' = 0
  /\ UNCHANGED <<backend, down, bcall, epochOf, executed, strange>>

DownOver ==
  /\ down
  /\ down' = FALSE
  /\ UNCHANGED <<backend, known, bcall, epochOf, executed, strange, heard>>

BoardNext ==
  \/ \E c \in BoardCall : \/ BeginCall(c) \/ TransportFails(c) \/ ReplyRead(c)
                          \/ Execute(c) \/ NotExecuted(c)
  \/ \E n \in Node : Elect(n) \/ StepDown(n)
  \/ Forget \/ DownOver

\* A request is answered or times out; the event loop goes on.
BoardFairness ==
  \A c \in BoardCall :
    WF_boardVars(Execute(c) \/ NotExecuted(c) \/ TransportFails(c) \/ ReplyRead(c))

BoardSpec == BoardInit /\ [][BoardNext]_boardVars /\ BoardFairness

-----------------------------------------------------------------------------
BoardTypeOK ==
  /\ backend \in {"agentcoord", "board"}
  /\ known \in [name : Node \cup {NoNode}, epoch : 0..MaxEpoch]
  /\ down \in BOOLEAN
  /\ epochOf \in [Node -> 0..MaxEpoch]
  /\ \A c \in BoardCall :
       /\ bcall[c].at \in {"idle", "posting", "answered", "ended"}
       /\ bcall[c].queue \in Seq(Node)
       /\ bcall[c].node \in Node \cup {NoNode}
       /\ bcall[c].at \in {"posting", "answered"} => bcall[c].node \in Node
       /\ bcall[c].attempt \in 0..BusyRetries
       /\ bcall[c].minEpoch \in 0..MaxEpoch /\ bcall[c].floor \in 0..MaxEpoch
       /\ bcall[c].reply.by \in 0..MaxEpoch
  /\ executed \in [BoardWrite -> Nat]
  /\ strange \subseteq BoardWrite
  /\ heard \in 0..MaxEpoch

\* A write is executed at most once, whatever fails on the way and whoever leads, as
\* long as what the nodes answer can be read (agentcoord-client.ts:222, "may have
\* reached the leader and been applied").
WriteAppliedOnce == \A c \in BoardWrite : executed[c] <= 1 \/ c \in strange

\* The same of every write (agentcoord-client.ts:49, "never retried after a request
\* may have reached a node").
WriteNeverRepeated == \A c \in BoardWrite : executed[c] <= 1

\* A call is not executed in an epoch older than any the client had heard of when it
\* began, unless an hour passed without news, though replies of overlapping calls
\* arrive in any order: the deposed leader refuses it (http-board-client.ts:130, "send
\* the highest epoch seen so a stale node refuses").
NoStepBack ==
  \A c \in BoardCall : bcall[c].reply.by # 0 => bcall[c].reply.by >= bcall[c].floor

\* Every call ends, though nodes name each other as leader or stay busy.
CallReturns == \A c \in BoardCall : bcall[c].at = "posting" ~> bcall[c].at = "ended"
=============================================================================
