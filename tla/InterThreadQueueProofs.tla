----------------------- MODULE InterThreadQueueProofs -----------------------
(* Proofs about InterThreadQueue for any number of writers, any size of    *)
(* the buffer and any batch.                                               *)
EXTENDS InterThreadQueue, SequenceTheorems, FiniteSetTheorems, TLAPS

-----------------------------------------------------------------------------
(* The indices of the circular buffer, without the remainder. *)
LEMMA AdvanceLemma ==
  ASSUME NEW i \in 0 .. Bufsz - 1, NEW n \in 0 .. Bufsz - 1
  PROVE  /\ Advance(i, n) = IF i + n < Bufsz THEN i + n ELSE i + n - Bufsz
         /\ Advance(i, n) \in 0 .. Bufsz - 1
<1>1. Bufsz \in Nat \ {0} /\ i \in Nat /\ n \in Nat /\ i < Bufsz /\ n < Bufsz
  BY QueueAssumption
<1>2. CASE i + n < Bufsz
  BY <1>1, <1>2 DEF Advance
<1>3. CASE ~(i + n < Bufsz)
  <2>1. (i + n) % Bufsz = i + n - Bufsz
    BY <1>1, <1>3
  <2> QED BY <1>1, <1>3, <2>1 DEF Advance
<1> QED BY <1>2, <1>3

(* Advancing twice. *)
LEMMA AdvanceAdd ==
  ASSUME NEW i \in 0 .. Bufsz - 1, NEW n \in 0 .. Bufsz - 1,
         NEW j \in 0 .. Bufsz - 1, n + j <= Bufsz - 1
  PROVE  Advance(Advance(i, n), j) = Advance(i, n + j)
<1>1. n + j \in 0 .. Bufsz - 1
  BY QueueAssumption
<1> DEFINE m == Advance(i, n)
<1>2. m \in 0 .. Bufsz - 1 /\ m = IF i + n < Bufsz THEN i + n ELSE i + n - Bufsz
  BY AdvanceLemma
<1>3. Advance(i, n + j) =
        IF i + (n + j) < Bufsz THEN i + (n + j) ELSE i + (n + j) - Bufsz
  BY Zenon, <1>1, AdvanceLemma
<1> HIDE DEF m
<1>4. Advance(m, j) = IF m + j < Bufsz THEN m + j ELSE m + j - Bufsz
  BY Zenon, <1>2, AdvanceLemma
<1>5. Advance(m, j) = Advance(i, n + j)
  BY <1>2, <1>3, <1>4, QueueAssumption
<1> QED BY <1>5 DEF m

(* Different numbers of steps lead to different places. *)
LEMMA AdvanceInjective ==
  ASSUME NEW i \in 0 .. Bufsz - 1, NEW a \in 0 .. Bufsz - 1,
         NEW b \in 0 .. Bufsz - 1, Advance(i, a) = Advance(i, b)
  PROVE  a = b
<1>1. Advance(i, a) = IF i + a < Bufsz THEN i + a ELSE i + a - Bufsz
  BY AdvanceLemma
<1>2. Advance(i, b) = IF i + b < Bufsz THEN i + b ELSE i + b - Bufsz
  BY Zenon, AdvanceLemma
<1>3. i \in Nat /\ a \in Nat /\ b \in Nat /\ Bufsz \in Nat
      /\ i < Bufsz /\ a < Bufsz /\ b < Bufsz
  BY QueueAssumption
<1>4. CASE i + a < Bufsz /\ i + b < Bufsz
  <2>1. i + a = i + b
    BY Zenon, <1>1, <1>2, <1>4
  <2> QED BY <1>3, <1>4, <2>1
<1>5. CASE i + a < Bufsz /\ ~(i + b < Bufsz)
  <2>1. i + a = i + b - Bufsz
    BY Zenon, <1>1, <1>2, <1>5
  <2> QED BY <1>3, <1>5, <2>1
<1>6. CASE ~(i + a < Bufsz) /\ i + b < Bufsz
  <2>1. i + a - Bufsz = i + b
    BY Zenon, <1>1, <1>2, <1>6
  <2> QED BY <1>3, <1>6, <2>1
<1>7. CASE ~(i + a < Bufsz) /\ ~(i + b < Bufsz)
  <2>1. i + a - Bufsz = i + b - Bufsz
    BY Zenon, <1>1, <1>2, <1>7
  <2> QED BY <1>3, <1>7, <2>1
<1> QED BY <1>4, <1>5, <1>6, <1>7

(* The queue never holds Bufsz messages or more. *)
LEMMA SizeLemma ==
  ASSUME head \in 0 .. Bufsz - 1, tail \in 0 .. Bufsz - 1
  PROVE  size \in 0 .. Bufsz - 1 /\ head = Advance(tail, size)
<1>1. size \in 0 .. Bufsz - 1
  BY QueueAssumption DEF size
<1>2. Advance(tail, size) =
        IF tail + size < Bufsz THEN tail + size ELSE tail + size - Bufsz
  BY <1>1, AdvanceLemma
<1>3. head = IF tail + size < Bufsz THEN tail + size ELSE tail + size - Bufsz
  BY QueueAssumption DEF size
<1> QED BY <1>1, <1>2, <1>3

(* size() after a push and after n pops. *)
LEMMA SizeAfterPush ==
  ASSUME head \in 0 .. Bufsz - 1, tail \in 0 .. Bufsz - 1, ~is_full,
         head' = Advance(head, 1), tail' = tail
  PROVE  size' = size + 1 /\ head' \in 0 .. Bufsz - 1
<1>1. 1 \in 0 .. Bufsz - 1
  BY QueueAssumption
<1>2. head' = IF head + 1 < Bufsz THEN head + 1 ELSE head + 1 - Bufsz
  BY Zenon, <1>1, AdvanceLemma
<1> QED BY <1>2, QueueAssumption DEF size, is_full, maxsz

(* Taking n messages makes the queue shorter by n. *)
LEMMA SizeAfterPop ==
  ASSUME head \in 0 .. Bufsz - 1, tail \in 0 .. Bufsz - 1, NEW n \in 0 .. size,
         head' = head, tail' = Advance(tail, n)
  PROVE  size' = size - n /\ tail' \in 0 .. Bufsz - 1
<1>1. n \in 0 .. Bufsz - 1
  BY SizeLemma, QueueAssumption
<1>2. tail' = IF tail + n < Bufsz THEN tail + n ELSE tail + n - Bufsz
  BY Zenon, <1>1, AdvanceLemma
<1> QED BY <1>1, <1>2, QueueAssumption DEF size

-----------------------------------------------------------------------------
(* One byte for every message. The cells in use hold messages, so that     *)
(* what is handed over is well typed; those are the cells Front(size)      *)
(* reads. A batch is never empty: the awaker was readable.                 *)
CellsInUse == \A j \in 0 .. size - 1 : buffer[Advance(tail, j)] \in Msg

ReadSome == rpc = "pop" => fromSock # 0

Inv == TypeOK /\ CellsInUse /\ ReadSome /\ BytesMatchMessages
         /\ PopsWhatWasSignalled

(* The writers that have pushed and not signalled can be counted. *)
LEMMA UnsignalledFinite ==
  IsFiniteSet(Unsignalled) /\ Cardinality(Unsignalled) \in Nat
<1>1. Unsignalled \subseteq Writers
  BY DEF Unsignalled
<1> QED BY <1>1, QueueAssumption, FS_Subset, FS_CardinalityType

(* The invariant holds at the start. *)
LEMMA InitInv == Init => Inv
<1> SUFFICES ASSUME Init PROVE Inv
  OBVIOUS
<1>1. size = 0
  BY QueueAssumption DEF Init, size
<1>2. Unsignalled = {}
  BY DEF Init, Unsignalled
<1>3. Cardinality(Unsignalled) = 0
  BY <1>2, FS_EmptySet
<1>4. TypeOK
  BY QueueAssumption DEF Init, TypeOK, Msg
<1>5. CellsInUse
  BY <1>1 DEF CellsInUse
<1>6. BytesMatchMessages /\ PopsWhatWasSignalled /\ ReadSome
  BY <1>1, <1>3 DEF Init, BytesMatchMessages, PopsWhatWasSignalled, ReadSome
<1> QED BY <1>4, <1>5, <1>6 DEF Inv

(* Steps that only move a writer between idle, waitwr and woken. *)
LEMMA QuietStep ==
  ASSUME Inv, UNCHANGED <<bufVars, posted, awaker, rpc, fromSock, fromQueue,
                          delivered>>,
         NEW w \in Writers, wpc[w] # "send",
         NEW s \in {"waitwr", "woken"}, wpc' = [wpc EXCEPT ![w] = s]
  PROVE  Inv'
<1>1. UNCHANGED <<size, buffer, tail>>
  BY DEF bufVars, size
<1>2. Unsignalled' = Unsignalled
  BY DEF Inv, TypeOK, Unsignalled
<1>3. TypeOK'
  BY DEF Inv, TypeOK, bufVars
<1>4. CellsInUse'
  BY <1>1 DEF Inv, CellsInUse, Advance
<1>5. BytesMatchMessages' /\ PopsWhatWasSignalled' /\ ReadSome'
  BY <1>1, <1>2 DEF Inv, BytesMatchMessages, PopsWhatWasSignalled, ReadSome
<1> QED BY <1>3, <1>4, <1>5 DEF Inv

(* push_back keeps the invariant. *)
LEMMA PushInv ==
  ASSUME Inv, NEW w \in Writers, push_back(w)
  PROVE  Inv'
<1>1. /\ head \in 0 .. Bufsz - 1 /\ tail \in 0 .. Bufsz - 1
      /\ size \in 0 .. Bufsz - 1 /\ head = Advance(tail, size)
      /\ posted[w] + 1 \in 1 .. MaxPosts
  BY SizeLemma, QueueAssumption DEF Inv, TypeOK, push_back
<1>2. /\ size' = size + 1 /\ head' \in 0 .. Bufsz - 1
      /\ tail' = tail
  BY <1>1, SizeAfterPush DEF push_back
<1>3. <<w, posted[w] + 1>> \in Msg
  BY <1>1 DEF Msg
<1>4. TypeOK'
  BY <1>1, <1>2, <1>3, QueueAssumption DEF Inv, TypeOK, push_back
<1>5. CellsInUse'
  <2>0. 0 .. size' - 1 = 0 .. size
    BY <1>1, <1>2, QueueAssumption
  <2> SUFFICES ASSUME NEW j \in 0 .. size PROVE buffer'[Advance(tail, j)] \in Msg
    BY Zenon, <1>2, <2>0 DEF CellsInUse, Advance
  <2>1. buffer' = [buffer EXCEPT ![head] = <<w, posted[w] + 1>>]
        /\ buffer \in [0 .. Bufsz - 1 -> Msg \cup {NoMsg}]
    BY DEF push_back, Inv, TypeOK
  <2>2. j \in 0 .. Bufsz - 1 /\ Advance(tail, j) \in 0 .. Bufsz - 1
    <3>1. j \in 0 .. Bufsz - 1
      BY <1>1, QueueAssumption
    <3> QED BY <1>1, <3>1, AdvanceLemma
  <2>3. CASE j = size
    BY <1>1, <1>3, <2>1, <2>2, <2>3
  <2>4. CASE j # size
    <3>1. j \in 0 .. size - 1
      BY <1>1, <2>4, QueueAssumption
    <3>2. buffer[Advance(tail, j)] \in Msg
      BY <3>1 DEF Inv, CellsInUse
    <3> QED BY <1>3, <2>1, <2>2, <3>2
  <2> QED BY <2>3, <2>4
<1>6. /\ Unsignalled' = Unsignalled \cup {w} /\ w \notin Unsignalled
  BY DEF Inv, TypeOK, Unsignalled, push_back
<1>7. Cardinality(Unsignalled') = Cardinality(Unsignalled) + 1
  BY <1>6, UnsignalledFinite, FS_AddElement
<1>8. UNCHANGED <<awaker, rpc, fromSock, fromQueue>> /\ size \in Nat
  BY <1>1, QueueAssumption DEF push_back
<1>9. BytesMatchMessages'
  BY SMTT(30), <1>2, <1>7, <1>8, UnsignalledFinite DEF Inv, TypeOK, BytesMatchMessages
<1>10. PopsWhatWasSignalled' /\ ReadSome'
  BY <1>2, <1>8 DEF Inv, PopsWhatWasSignalled, ReadSome
<1> QED BY <1>4, <1>5, <1>9, <1>10 DEF Inv

(* Writing to the awaker socket keeps it. *)
LEMMA SendInv ==
  ASSUME Inv, NEW w \in Writers, SendByte(w)
  PROVE  Inv'
<1>1. UNCHANGED <<size, buffer, tail>>
  BY DEF SendByte, bufVars, size
<1>2. TypeOK'
  BY DEF Inv, TypeOK, SendByte, bufVars
<1>3. CellsInUse'
  BY <1>1 DEF Inv, CellsInUse, Advance
<1>4. Unsignalled' = Unsignalled \ {w} /\ w \in Unsignalled
  BY DEF Inv, TypeOK, Unsignalled, SendByte
<1>5. Cardinality(Unsignalled') = Cardinality(Unsignalled) - 1
  BY <1>4, UnsignalledFinite, FS_RemoveElement
<1>6. BytesMatchMessages' /\ PopsWhatWasSignalled' /\ ReadSome'
  BY <1>1, <1>5, UnsignalledFinite
     DEF Inv, TypeOK, BytesMatchMessages, PopsWhatWasSignalled, ReadSome, SendByte
<1> QED BY <1>2, <1>3, <1>6 DEF Inv

(* Reading from the awaker socket keeps it. *)
LEMMA ReadAwakerInv ==
  ASSUME Inv, ReadAwaker
  PROVE  Inv'
<1>1. PICK n \in 1 .. AtMost(awaker, MaxBatch) :
        fromSock' = n /\ awaker' = awaker - n
  BY DEF ReadAwaker
<1>2. /\ n \in Nat /\ 1 <= n /\ n <= awaker /\ n <= MaxBatch
      /\ awaker \in Nat /\ MaxBatch \in Nat
  BY QueueAssumption DEF AtMost, Inv, TypeOK
<1>3. /\ rpc = "poll" /\ rpc' = "pop"
      /\ UNCHANGED <<bufVars, wpc, posted, fromQueue, delivered, Unsignalled, size>>
  BY DEF ReadAwaker, Unsignalled, size, bufVars
<1>4. TypeOK'
  BY <1>1, <1>2, <1>3 DEF Inv, TypeOK, bufVars
<1>5. CellsInUse'
  BY <1>3 DEF Inv, CellsInUse, Advance, bufVars
<1>6. size = awaker + Cardinality(Unsignalled) + 0
  BY <1>3 DEF Inv, BytesMatchMessages
<1>7. BytesMatchMessages'
  BY <1>1, <1>2, <1>3, <1>6, UnsignalledFinite DEF BytesMatchMessages
<1>8. PopsWhatWasSignalled'
  BY <1>2, <1>3, <1>6, UnsignalledFinite DEF PopsWhatWasSignalled
<1>9. ReadSome'
  BY <1>1, <1>2 DEF ReadSome
<1> QED BY <1>4, <1>5, <1>7, <1>8, <1>9 DEF Inv

(* What pop_front takes and what it leaves. *)
LEMMA PopFacts ==
  ASSUME Inv, pop_front
  PROVE  /\ fromSock \in 0 .. size
         /\ AtMost(fromSock, size) = fromSock
         /\ size' = size - fromSock
         /\ tail' = Advance(tail, fromSock) /\ tail' \in 0 .. Bufsz - 1
         /\ Front(fromSock) \in Seq(Msg)
         /\ \A j \in 0 .. size - fromSock - 1 :
              buffer'[Advance(tail', j)] = buffer[Advance(tail, fromSock + j)]
<1> DEFINE n == fromSock
<1>1. /\ head \in 0 .. Bufsz - 1 /\ tail \in 0 .. Bufsz - 1
      /\ buffer \in [0 .. Bufsz - 1 -> Msg \cup {NoMsg}]
      /\ n \in Nat /\ awaker \in Nat
      /\ size \in 0 .. Bufsz - 1 /\ size \in Nat /\ Bufsz \in Nat
  BY SizeLemma, QueueAssumption DEF Inv, TypeOK
<1>2. size = awaker + Cardinality(Unsignalled) + n
  BY DEF Inv, BytesMatchMessages, pop_front
<1>3. n \in 0 .. size /\ AtMost(n, size) = n
  BY <1>1, <1>2, UnsignalledFinite DEF AtMost
<1>4. /\ head' = head /\ tail' = Advance(tail, n)
      /\ buffer' = [i \in DOMAIN buffer |->
                      IF \E j \in 1 .. n : i = Advance(tail, j - 1)
                      THEN NoMsg ELSE buffer[i]]
  BY <1>3 DEF pop_front
<1>5. size' = size - n /\ tail' \in 0 .. Bufsz - 1
  BY <1>1, <1>3, <1>4, SizeAfterPop
<1>6. Front(n) \in Seq(Msg)
  <2>1. \A i \in 1 .. n : buffer[Advance(tail, i - 1)] \in Msg
    <3> TAKE i \in 1 .. n
    <3>1. i - 1 \in 0 .. size - 1
      BY <1>1, <1>3
    <3> QED BY <3>1 DEF Inv, CellsInUse
  <2>2. Front(n) \in [1 .. n -> Msg]
    BY <2>1 DEF Front
  <2> QED BY <1>1, <2>2
<1>7. ASSUME NEW j \in 0 .. size - n - 1
      PROVE  buffer'[Advance(tail', j)] = buffer[Advance(tail, n + j)]
  <2>1. /\ n \in 0 .. Bufsz - 1 /\ j \in 0 .. Bufsz - 1
        /\ n + j \in 0 .. Bufsz - 1 /\ n + j <= Bufsz - 1
    BY <1>1, <1>3
  <2>2. Advance(tail', j) = Advance(tail, n + j)
    BY <1>1, <1>4, <2>1, AdvanceAdd
  <2>3. Advance(tail, n + j) \in 0 .. Bufsz - 1
    BY <1>1, <2>1, AdvanceLemma
  <2>4. ASSUME NEW i \in 1 .. n, Advance(tail, n + j) = Advance(tail, i - 1)
        PROVE  FALSE
    <3>1. i - 1 \in 0 .. Bufsz - 1 /\ i - 1 # n + j
      BY <1>1, <1>3, <2>1
    <3> QED BY <1>1, <2>1, <2>4, <3>1, AdvanceInjective
  <2> QED BY <1>1, <1>4, <2>2, <2>3, <2>4
<1> QED BY Zenon, <1>3, <1>4, <1>5, <1>6, <1>7

(* pop_front keeps it. *)
LEMMA PopInv ==
  ASSUME Inv, pop_front
  PROVE  Inv'
<1>1. /\ fromSock \in 0 .. size /\ size' = size - fromSock
      /\ size \in 0 .. Bufsz - 1 /\ size \in Nat /\ Bufsz \in Nat
      /\ tail' \in 0 .. Bufsz - 1
  BY PopFacts, SizeLemma, QueueAssumption DEF Inv, TypeOK
<1>2. /\ rpc = "pop" /\ rpc' = "popped" /\ fromQueue' = fromSock
      /\ delivered' = delivered \o Front(fromSock)
      /\ UNCHANGED <<head, wpc, posted, awaker, fromSock, Unsignalled>>
  BY PopFacts DEF pop_front, Unsignalled
<1>3. buffer' \in [0 .. Bufsz - 1 -> Msg \cup {NoMsg}]
  BY DEF pop_front, Inv, TypeOK
<1>4. delivered' \in Seq(Msg)
  BY <1>2, PopFacts, ConcatProperties DEF Inv, TypeOK
<1>5. TypeOK'
  BY <1>1, <1>2, <1>3, <1>4 DEF Inv, TypeOK
<1>6. CellsInUse'
  <2> SUFFICES ASSUME NEW j \in 0 .. size - fromSock - 1
               PROVE  buffer'[Advance(tail', j)] \in Msg
    BY <1>1 DEF CellsInUse, Advance
  <2>1. fromSock + j \in 0 .. size - 1
    BY <1>1
  <2>2. buffer'[Advance(tail', j)] = buffer[Advance(tail, fromSock + j)]
    BY PopFacts
  <2> QED BY <2>1, <2>2 DEF Inv, CellsInUse
<1>7. size = awaker + Cardinality(Unsignalled) + fromSock
  BY <1>2 DEF Inv, BytesMatchMessages
<1>8. awaker \in Nat /\ fromSock \in Nat
  BY QueueAssumption DEF Inv, TypeOK
<1>9. BytesMatchMessages'
  BY <1>1, <1>2, <1>7, <1>8, UnsignalledFinite DEF BytesMatchMessages
<1>10. PopsWhatWasSignalled' /\ ReadSome'
  BY <1>2 DEF PopsWhatWasSignalled, ReadSome
<1> QED BY <1>5, <1>6, <1>9, <1>10 DEF Inv

(* Notifying a waiting writer keeps it. *)
LEMMA NotifyInv ==
  ASSUME Inv, NotifyWriter
  PROVE  Inv'
<1>1. /\ rpc = "popped" /\ rpc' = "poll"
      /\ UNCHANGED <<bufVars, posted, awaker, fromSock, fromQueue, delivered, size>>
  BY DEF NotifyWriter, bufVars, size
<1>2. wpc' \in [Writers -> {"idle", "waitwr", "woken", "send"}]
      /\ Unsignalled' = Unsignalled
  BY SMTT(30) DEF NotifyWriter, Inv, TypeOK, Unsignalled
<1>3. TypeOK'
  BY <1>1, <1>2 DEF Inv, TypeOK, bufVars
<1>4. CellsInUse'
  BY <1>1 DEF Inv, CellsInUse, Advance, bufVars
<1>5. BytesMatchMessages' /\ PopsWhatWasSignalled' /\ ReadSome'
  BY <1>1, <1>2 DEF Inv, BytesMatchMessages, PopsWhatWasSignalled, ReadSome
<1> QED BY <1>3, <1>4, <1>5 DEF Inv

(* The invariant holds always. *)
LEMMA InvAlways == Spec => []Inv
<1>1. Inv /\ [Next]_vars => Inv'
  <2> SUFFICES ASSUME Inv, [Next]_vars PROVE Inv'
    OBVIOUS
  <2>1. ASSUME NEW w \in Writers, WaitForSpace(w) \/ SpuriousWakeup(w)
        PROVE  Inv'
    BY <2>1, QuietStep DEF WaitForSpace, SpuriousWakeup
  <2>2. CASE UNCHANGED vars
    <3>1. UNCHANGED <<buffer, head, tail, wpc, posted, awaker, rpc, fromSock,
                      fromQueue, delivered, size, Unsignalled>>
      BY <2>2 DEF vars, size, Unsignalled
    <3> QED BY <3>1 DEF Inv, TypeOK, CellsInUse, Advance, BytesMatchMessages,
                        PopsWhatWasSignalled, ReadSome
  <2> QED BY SMTT(30), <2>1, <2>2, PushInv, SendInv, ReadAwakerInv, PopInv, NotifyInv
          DEF Next, Writer, Reader
<1> QED BY <1>1, InitInv, PTL DEF Spec

(* Every message in the queue has exactly one byte on its way. *)
THEOREM BytesMatchMessagesAlways == Spec => []BytesMatchMessages
BY InvAlways, PTL DEF Inv

(* The loop takes as many messages from the queue as it read bytes, so the *)
(* assertions after pop_front hold, and it never blocks in it.             *)
THEOREM PopsWhatWasSignalledAlways == Spec => []PopsWhatWasSignalled
BY InvAlways, PTL DEF Inv

(* The indices of the circular buffer never leave it, and neither read count *)
(* exceeds a batch, for any buffer size, batch size and set of writers.     *)
THEOREM TypeOKAlways == Spec => []TypeOK
BY InvAlways, PTL DEF Inv

-----------------------------------------------------------------------------
(* The refinement. *)

FrontFacts ==
  /\ Front(size) \in Seq(Msg) /\ Len(Front(size)) = size
  /\ \A i \in 1 .. size : Front(size)[i] = buffer[Advance(tail, i - 1)]

(* The messages in the buffer, in order, are as FrontFacts says. *)
LEMMA FrontProperties == Inv => FrontFacts
<1> SUFFICES ASSUME Inv PROVE FrontFacts
  OBVIOUS
<1>1. size \in Nat
  BY SizeLemma, QueueAssumption DEF Inv, TypeOK
<1>2. \A i \in 1 .. size : buffer[Advance(tail, i - 1)] \in Msg
  <2> TAKE i \in 1 .. size
  <2>1. i - 1 \in 0 .. size - 1
    BY <1>1
  <2> QED BY <2>1 DEF Inv, CellsInUse
<1>3. Front(size) \in [1 .. size -> Msg]
  BY <1>2 DEF Front
<1>4. \A i \in 1 .. size : Front(size)[i] = buffer[Advance(tail, i - 1)]
  BY DEF Front
<1> QED BY <1>1, <1>3, <1>4 DEF FrontFacts

(* The same after a step. *)
LEMMA FrontPropertiesNext == Inv' => FrontFacts'
BY FrontProperties, PTL

(* push_back sends on the abstract channel. *)
LEMMA PushSends ==
  ASSUME Inv, Inv', NEW w \in Writers, push_back(w)
  PROVE  Channel!Send(w)
<1> DEFINE q == Front(size)
           m == <<w, posted[w] + 1>>
<1>1. /\ head \in 0 .. Bufsz - 1 /\ tail \in 0 .. Bufsz - 1
      /\ size \in 0 .. Bufsz - 1 /\ head = Advance(tail, size)
      /\ size \in Nat /\ Bufsz \in Nat
      /\ buffer \in [0 .. Bufsz - 1 -> Msg \cup {NoMsg}]
      /\ posted[w] + 1 \in 1 .. MaxPosts
  BY SMTT(30), SizeLemma, QueueAssumption DEF Inv, TypeOK, push_back
<1>2. size' = size + 1 /\ tail' = tail
      /\ buffer' = [buffer EXCEPT ![head] = m]
  BY <1>1, SizeAfterPush DEF push_back
<1>3. q \in Seq(Msg) /\ Len(q) = size
      /\ \A i \in 1 .. size : q[i] = buffer[Advance(tail, i - 1)]
  BY FrontProperties DEF FrontFacts
<1>4. q' \in Seq(Msg) /\ Len(q') = size + 1
      /\ \A i \in 1 .. size + 1 : q'[i] = buffer'[Advance(tail, i - 1)]
  <2>1. q' \in Seq(Msg) /\ Len(q') = size'
        /\ \A i \in 1 .. size' : q'[i] = buffer'[Advance(tail, i - 1)']
    BY FrontPropertiesNext DEF FrontFacts
  <2> QED BY <1>2, <2>1 DEF Advance
<1>5. m \in Msg
  BY <1>1 DEF Msg
<1> HIDE DEF q, m
<1>6. Append(q, m) \in Seq(Msg) /\ Len(Append(q, m)) = size + 1
      /\ \A i \in 1 .. size + 1 :
           Append(q, m)[i] = IF i = size + 1 THEN m ELSE q[i]
  BY <1>1, <1>3, <1>5
<1>7. \A i \in 1 .. size + 1 : q'[i] = Append(q, m)[i]
  <2> SUFFICES ASSUME NEW i \in 1 .. size + 1
               PROVE  q'[i] = Append(q, m)[i]
    BY Zenon
  <2>1. CASE i = size + 1
    <3>1. Advance(tail, i - 1) = head
      BY <1>1, <2>1
    <3> QED BY <1>1, <1>2, <1>4, <1>6, <2>1, <3>1
  <2>2. CASE i # size + 1
    <3>1. i \in 1 .. size /\ i - 1 \in 0 .. Bufsz - 1 /\ i - 1 # size
      BY <1>1, <2>2
    <3>2. Advance(tail, i - 1) # head /\ Advance(tail, i - 1) \in 0 .. Bufsz - 1
      BY Zenon, <1>1, <3>1, AdvanceLemma, AdvanceInjective
    <3>3. buffer'[Advance(tail, i - 1)] = buffer[Advance(tail, i - 1)]
      BY <1>1, <1>2, <3>2
    <3> QED BY <1>3, <1>4, <1>6, <2>2, <3>1, <3>3
  <2> QED BY Zenon, <2>1, <2>2
<1>8. q' = Append(q, m)
  BY <1>4, <1>6, <1>7, SeqEqual
<1>9. Len(q) < maxsz
  BY <1>1, <1>3 DEF push_back, is_full, maxsz
<1> QED BY <1>8, <1>9 DEF Channel!Send, push_back, q, m

(* pop_front receives from the abstract channel. *)
LEMMA PopReceives ==
  ASSUME Inv, Inv', pop_front
  PROVE  fromSock \in 1 .. MaxBatch /\ Channel!Receive(fromSock)
<1> DEFINE q == Front(size)
           n == fromSock
<1>1. /\ n \in 0 .. size /\ size' = size - n /\ size \in Nat /\ n \in Nat
      /\ n \in 0 .. MaxBatch /\ n # 0
  BY SMTT(30), PopFacts, SizeLemma, QueueAssumption DEF Inv, TypeOK, ReadSome, pop_front
<1>2. q \in Seq(Msg) /\ Len(q) = size
      /\ \A i \in 1 .. size : q[i] = buffer[Advance(tail, i - 1)]
  BY FrontProperties DEF FrontFacts
<1>3. q' \in Seq(Msg) /\ Len(q') = size'
      /\ \A i \in 1 .. size' : q'[i] = buffer'[Advance(tail', i - 1)]
  <2>1. q' \in Seq(Msg) /\ Len(q') = size'
        /\ \A i \in 1 .. size' : q'[i] = buffer'[Advance(tail, i - 1)']
    BY FrontPropertiesNext DEF FrontFacts
  <2> QED BY <2>1 DEF Advance
<1>4. delivered' = delivered \o Front(n) /\ UNCHANGED posted
  BY PopFacts DEF pop_front
<1> HIDE DEF q
<1>5. /\ SubSeq(q, 1, n) \in Seq(Msg) /\ Len(SubSeq(q, 1, n)) = n
      /\ \A i \in 1 .. n : SubSeq(q, 1, n)[i] = q[i]
  <2>1. \A i \in 1 .. n : q[i] \in Msg
    BY <1>1, <1>2
  <2>2. 1 \in Int /\ n \in Int
    BY <1>1
  <2>3. /\ SubSeq(q, 1, n) \in Seq(Msg)
        /\ Len(SubSeq(q, 1, n)) = IF 1 <= n THEN n - 1 + 1 ELSE 0
        /\ \A i \in 1 .. n - 1 + 1 : SubSeq(q, 1, n)[i] = q[1 + i - 1]
    BY <2>1, <2>2, SubSeqProperties
  <2> QED BY <1>1, <2>3
<1>6. SubSeq(q, 1, n) = Front(n)
  <2>1. \A i \in 1 .. n : Front(n)[i] = buffer[Advance(tail, i - 1)]
    BY DEF Front
  <2>2. Front(n) \in Seq(Msg) /\ Len(Front(n)) = n
    BY <1>1, PopFacts DEF Front
  <2>3. ASSUME NEW i \in 1 .. n
        PROVE  Front(n)[i] = SubSeq(q, 1, n)[i]
    <3>1. i \in 1 .. size
      BY <1>1
    <3>2. q[i] = buffer[Advance(tail, i - 1)]
      BY <1>2, <3>1
    <3> QED BY <1>5, <2>1, <3>2
  <2> QED BY <1>5, <2>2, <2>3, SeqEqual
<1>7. /\ SubSeq(q, n + 1, size) \in Seq(Msg)
      /\ Len(SubSeq(q, n + 1, size)) = size - n
      /\ \A i \in 1 .. size - n : SubSeq(q, n + 1, size)[i] = q[n + i]
  <2>1. \A i \in n + 1 .. size : q[i] \in Msg
    BY <1>1, <1>2
  <2>2. n + 1 \in Int /\ size \in Int
    BY <1>1
  <2>3. /\ SubSeq(q, n + 1, size) \in Seq(Msg)
        /\ Len(SubSeq(q, n + 1, size)) =
             IF n + 1 <= size THEN size - (n + 1) + 1 ELSE 0
        /\ \A i \in 1 .. size - (n + 1) + 1 :
             SubSeq(q, n + 1, size)[i] = q[n + 1 + i - 1]
    BY <2>1, <2>2, SubSeqProperties
  <2> QED BY <1>1, <2>3
<1>8. q' = SubSeq(q, n + 1, Len(q))
  <2>1. ASSUME NEW i \in 1 .. size - n
        PROVE  q'[i] = SubSeq(q, n + 1, size)[i]
    <3>1. i - 1 \in 0 .. size - n - 1 /\ n + i \in 1 .. size
          /\ n + (i - 1) = (n + i) - 1
      BY <1>1
    <3>2. buffer'[Advance(tail', i - 1)] = buffer[Advance(tail, n + (i - 1))]
      BY <3>1, PopFacts
    <3>3. q'[i] = buffer[Advance(tail, (n + i) - 1)]
      BY <1>1, <1>3, <3>1, <3>2
    <3> QED BY <1>2, <1>7, <3>1, <3>3
  <2> QED BY SMTT(30), <1>1, <1>2, <1>3, <1>7, <2>1, SeqEqual
<1>9. n \in 1 .. MaxBatch /\ n <= Len(q)
  BY <1>1, <1>2, QueueAssumption
<1>10. delivered' = delivered \o SubSeq(q, 1, n)
  BY Zenon, <1>4, <1>6
<1> QED BY <1>4, <1>8, <1>9, <1>10 DEF Channel!Receive, q

(* The queue of a thread is a first-in first-out channel of its capacity:  *)
(* whatever the size of the buffer and however its indices wrap, messages  *)
(* are handed over once each, in the order in which they were pushed.      *)
THEOREM QueueImplementsChannel == Spec => ImplementsChannel
<1>1. Init => Channel!Init
  <2> SUFFICES ASSUME Init PROVE Channel!Init
    OBVIOUS
  <2>1. size = 0
    BY QueueAssumption DEF Init, size
  <2>2. Front(size) = <<>>
    BY <2>1 DEF Front
  <2> QED BY <2>2 DEF Init, Channel!Init
<1>2. Inv /\ Inv' /\ [Next]_vars => [Channel!Next]_(Channel!chVars)
  <2> SUFFICES ASSUME Inv, Inv', [Next]_vars
               PROVE  [Channel!Next]_(Channel!chVars)
    OBVIOUS
  <2>1. ASSUME NEW w \in Writers, push_back(w)
        PROVE  [Channel!Next]_(Channel!chVars)
    BY <2>1, PushSends DEF Channel!Next
  <2>2. CASE pop_front
    BY <2>2, PopReceives DEF Channel!Next
  <2>3. ASSUME UNCHANGED <<bufVars, posted, delivered>>
        PROVE  UNCHANGED Channel!chVars
    BY <2>3 DEF bufVars, Channel!chVars, Front, size, Advance
  <2> QED BY <2>1, <2>2, <2>3
          DEF Next, Writer, Reader, WaitForSpace, SendByte, SpuriousWakeup,
              ReadAwaker, NotifyWriter, vars, bufVars
<1> QED BY <1>1, <1>2, InvAlways, PTL DEF Spec, ImplementsChannel, Channel!Spec

=============================================================================
