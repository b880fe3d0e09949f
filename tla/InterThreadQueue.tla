-------------------------- MODULE InterThreadQueue --------------------------
(***************************************************************************)
(* Messages posted to a thread of the cluster: the bounded queue with flow *)
(* control and its circular buffer (clustering_impl/                       *)
(* interthread_comm_impl.h), postInterThreadMsg (clustering.cpp), and the  *)
(* part of the event loop that is woken by the awaker socket and drains    *)
(* the queue (infrastructure.h).                                           *)
(*                                                                         *)
(* A block that holds the mutex is one step; notifying the writers after   *)
(* the unlock is another, and so is writing the byte to the awaker socket. *)
(* There is one reader, so that waiting on waitrd until the queue is not   *)
(* empty is the guard of pop_front. The slot of the target stays acquired  *)
(* for as long as the process runs and kill() has no caller.               *)
(***************************************************************************)
EXTENDS Integers, Sequences, FiniteSets

CONSTANTS
  Writers,    \* threads that post to the reader
  Bufsz,      \* 1 << maxsz_bits, 16 in the code
  MaxBatch,   \* maxMsgCnt, 8 in the code
  NoMsg,      \* what a destroyed or never used cell of the buffer holds
  MaxPosts    \* bound: messages posted by one writer

ASSUME QueueAssumption ==
  /\ IsFiniteSet(Writers)
  /\ Bufsz \in Nat /\ Bufsz > 1
  /\ MaxBatch \in Nat \ {0}
  /\ MaxPosts \in Nat
  /\ NoMsg \notin Writers \X (1 .. MaxPosts)

VARIABLES
  buffer, head, tail,   \* class CircularBuffer
  wpc,        \* where each writer is in postInterThreadMsg
  posted,     \* how many messages each writer has put into the queue
  awaker,     \* bytes written to the awaker socket and not read yet
  rpc,        \* where the reader is in pollPhase2
  fromSock,   \* actaulFromSock
  fromQueue,  \* actualFromQueue
  delivered   \* history: what onInterthreadMessage was called with

bufVars == <<buffer, head, tail>>
vars == <<buffer, head, tail, wpc, posted, awaker, rpc, fromSock, fromQueue,
          delivered>>

Msg == Writers \X (1 .. MaxPosts)
maxsz == Bufsz - 1

-----------------------------------------------------------------------------
SizeUnwrapped == IF head >= tail THEN head - tail ELSE head - tail + maxsz

(* CircularBuffer::size() *)
size == IF head >= tail THEN head - tail ELSE head + Bufsz - tail

is_full == size = maxsz

AdvanceUnmasked(i, n) == i + n

AdvanceWrongMask(i, n) == (i + n) % (Bufsz - 1)

(* (i + n) & mask *)
Advance(i, n) == (i + n) % Bufsz

(* count <= coll.size() ? count : coll.size() *)
AtMost(a, b) == IF a <= b THEN a ELSE b

(* The first n messages of the buffer. *)
Front(n) == [i \in 1 .. n |-> buffer[Advance(tail, i - 1)]]

-----------------------------------------------------------------------------
(* push_back on a full queue: waitwr.wait(lock). *)
WaitForSpace(w) ==
  /\ wpc[w] \in {"idle", "woken"}
  /\ posted[w] < MaxPosts
  /\ is_full
  /\ wpc' = [wpc EXCEPT ![w] = "waitwr"]
  /\ UNCHANGED <<bufVars, posted, awaker, rpc, fromSock, fromQueue, delivered>>

PushUnsignalled(w) ==
  /\ wpc[w] \in {"idle", "woken"}
  /\ posted[w] < MaxPosts
  /\ ~is_full
  /\ buffer' = [buffer EXCEPT ![head] = <<w, posted[w] + 1>>]
  /\ head' = Advance(head, 1)
  /\ posted' = [posted EXCEPT ![w] = @ + 1]
  /\ wpc' = [wpc EXCEPT ![w] = "idle"]
  /\ UNCHANGED <<tail, awaker, rpc, fromSock, fromQueue, delivered>>

(* push_back, up to the unlock. *)
push_back(w) ==
  /\ wpc[w] \in {"idle", "woken"}
  /\ posted[w] < MaxPosts
  /\ ~is_full
  /\ buffer' = [buffer EXCEPT ![head] = <<w, posted[w] + 1>>]
  /\ head' = Advance(head, 1)
  /\ posted' = [posted EXCEPT ![w] = @ + 1]
  /\ wpc' = [wpc EXCEPT ![w] = "send"]
  /\ UNCHANGED <<tail, awaker, rpc, fromSock, fromQueue, delivered>>

(* internal_send_packet of one byte, the last step of postInterThreadMsg. *)
SendByte(w) ==
  /\ wpc[w] = "send"
  /\ wpc' = [wpc EXCEPT ![w] = "idle"]
  /\ awaker' = awaker + 1
  /\ UNCHANGED <<bufVars, posted, rpc, fromSock, fromQueue, delivered>>

(* A condition variable may wake a thread that nobody has notified. *)
SpuriousWakeup(w) ==
  /\ wpc[w] = "waitwr"
  /\ wpc' = [wpc EXCEPT ![w] = "woken"]
  /\ UNCHANGED <<bufVars, posted, awaker, rpc, fromSock, fromQueue, delivered>>

(* The awaker socket is readable: infraGetPacketBytes takes what has       *)
(* arrived, at most maxMsgCnt bytes.                                       *)
ReadAwaker ==
  /\ rpc = "poll"
  /\ \E n \in 1 .. AtMost(awaker, MaxBatch) :
       /\ fromSock' = n
       /\ awaker' = awaker - n
  /\ rpc' = "pop"
  /\ UNCHANGED <<bufVars, wpc, posted, fromQueue, delivered>>

(* pop_front(messages, count), up to the unlock; the loop then hands the   *)
(* messages over one by one, with nothing in between that touches them.    *)
pop_front ==
  LET n == AtMost(fromSock, size)
  IN  /\ rpc = "pop"
      /\ size > 0
      /\ delivered' = delivered \o Front(n)
      /\ buffer' = [i \in DOMAIN buffer |->
                      IF \E j \in 1 .. n : i = Advance(tail, j - 1)
                      THEN NoMsg ELSE buffer[i]]
      /\ tail' = Advance(tail, n)
      /\ fromQueue' = n
      /\ rpc' = "popped"
      /\ UNCHANGED <<head, wpc, posted, awaker, fromSock>>

NotifyNobody ==
  /\ rpc = "popped"
  /\ rpc' = "poll"
  /\ UNCHANGED <<bufVars, wpc, posted, awaker, fromSock, fromQueue, delivered>>

(* waitwr.notify_one(), once for the whole batch. *)
NotifyWriter ==
  /\ rpc = "popped"
  /\ rpc' = "poll"
  /\ \/ \E w \in Writers : /\ wpc[w] = "waitwr"
                           /\ wpc' = [wpc EXCEPT ![w] = "woken"]
     \/ (\A w \in Writers : wpc[w] # "waitwr") /\ UNCHANGED wpc
  /\ UNCHANGED <<bufVars, posted, awaker, fromSock, fromQueue, delivered>>

Init ==
  /\ buffer = [i \in 0 .. Bufsz - 1 |-> NoMsg]
  /\ head = 0
  /\ tail = 0
  /\ wpc = [w \in Writers |-> "idle"]
  /\ posted = [w \in Writers |-> 0]
  /\ awaker = 0
  /\ rpc = "poll"
  /\ fromSock = 0
  /\ fromQueue = 0
  /\ delivered = <<>>

Writer(w) == WaitForSpace(w) \/ push_back(w) \/ SendByte(w)
Reader == ReadAwaker \/ pop_front \/ NotifyWriter

Next == (\E w \in Writers : Writer(w) \/ SpuriousWakeup(w)) \/ Reader

Spec == Init /\ [][Next]_vars

(* Threads are scheduled, and the loop returns to poll. *)
FairSpec == Spec /\ (\A w \in Writers : WF_vars(Writer(w))) /\ WF_vars(Reader)

-----------------------------------------------------------------------------
(* Head and tail stay inside the buffer, whose cells hold messages or       *)
(* nothing, and a batch never exceeds the array the loop reads it into.     *)
TypeOK ==
  /\ buffer \in [0 .. Bufsz - 1 -> Msg \cup {NoMsg}]
  /\ head \in 0 .. Bufsz - 1
  /\ tail \in 0 .. Bufsz - 1
  /\ wpc \in [Writers -> {"idle", "waitwr", "woken", "send"}]
  /\ posted \in [Writers -> 0 .. MaxPosts]
  /\ awaker \in Nat
  /\ rpc \in {"poll", "pop", "popped"}
  /\ fromSock \in 0 .. MaxBatch
  /\ fromQueue \in 0 .. MaxBatch
  /\ delivered \in Seq(Msg)

(* Writers whose message is in the queue and whose byte is not sent yet. *)
Unsignalled == {w \in Writers : wpc[w] = "send"}

(* Every message in the queue has exactly one byte: in the socket, already *)
(* read, or about to be sent by the writer that pushed it.                 *)
BytesMatchMessages ==
  size = awaker + Cardinality(Unsignalled)
           + (IF rpc = "pop" THEN fromSock ELSE 0)

(* "actualFromQueue == actaulFromSock" (infrastructure.h, lines 190 and    *)
(* 214), and the event loop never blocks in pop_front.                     *)
PopsWhatWasSignalled ==
  /\ rpc = "popped" => fromQueue = fromSock
  /\ rpc = "pop" => size > 0

(* The queue implements FifoChannel: nothing is lost, duplicated or        *)
(* reordered when the indices wrap around, whoever waits and whoever wins. *)
Channel == INSTANCE FifoChannel
             WITH Capacity <- maxsz, sent <- posted, queue <- Front(size),
                  received <- delivered
ImplementsChannel == Channel!Spec

(* push_back "BLOCKS until some space is freed" (interthread_comm_impl.h): *)
(* one notify_one for a whole batch is enough for every blocked writer to  *)
(* push its message in the end.                                            *)
BlockedWriterProceeds ==
  \A w \in Writers : wpc[w] = "waitwr" ~> wpc[w] = "send"

(* Every message that entered the queue is handed to the loop of its       *)
(* thread in the end: no wakeup is lost.                                   *)
EveryMessageDelivered ==
  \A w \in Writers, n \in 1 .. MaxPosts :
    posted[w] = n ~> \E i \in DOMAIN delivered : delivered[i] = <<w, n>>

=============================================================================
