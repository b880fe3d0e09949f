---------------------------- MODULE FifoChannel ----------------------------
(* What the queue of a thread promises (src/clustering_impl/               *)
(* interthread_comm_impl.h): messages of all the writers are received      *)
(* exactly once, in the order in which they entered the queue, in batches, *)
(* and the queue never holds more than its capacity.                       *)
EXTENDS Integers, Sequences

CONSTANTS Writers, Capacity, MaxBatch

VARIABLES
  sent,      \* how many messages each writer has put into the queue
  queue,
  received

chVars == <<sent, queue, received>>

Init ==
  /\ sent = [w \in Writers |-> 0]
  /\ queue = <<>>
  /\ received = <<>>

Send(w) ==
  /\ Len(queue) < Capacity
  /\ sent' = [sent EXCEPT ![w] = @ + 1]
  /\ queue' = Append(queue, <<w, sent[w] + 1>>)
  /\ UNCHANGED received

Receive(n) ==
  /\ n <= Len(queue)
  /\ received' = received \o SubSeq(queue, 1, n)
  /\ queue' = SubSeq(queue, n + 1, Len(queue))
  /\ UNCHANGED sent

Next == (\E w \in Writers : Send(w)) \/ (\E n \in 1 .. MaxBatch : Receive(n))

Spec == Init /\ [][Next]_chVars
=============================================================================
