------------------------ MODULE HttpConnectionProofs ------------------------
(* Proofs about HttpConnection for queues of any size, any number of lines *)
(* and any number of calls.                                                *)
EXTENDS HttpConnection, WellFoundedInduction, TLAPS

(* Min of any set of numbers that is not empty is its least element. *)
LEMMA MinLemma ==
  ASSUME NEW S, S \subseteq Nat, S # {}
  PROVE  Min(S) \in S /\ \A y \in S : Min(S) <= y
<1> DEFINE R == {ss \in Nat \X Nat : ss[1] < ss[2]}
<1>1. IsWellFoundedOn(R, Nat)
  BY NatLessThanWellFounded DEF OpToRel
<1>2. PICK x \in S : \A y \in S : ~(<<y, x>> \in R)
  BY Zenon, <1>1, WFMin
<1>3. ASSUME NEW y \in S PROVE x <= y
  <2>1. ~(<<y, x>> \in R)
    BY <1>2
  <2>2. x \in Nat /\ y \in Nat
    OBVIOUS
  <2>3. ~(y < x)
    BY <2>1, <2>2
  <2> QED BY <2>2, <2>3
<1> QED BY Zenon, <1>3 DEF Min

-----------------------------------------------------------------------------
(* Arithmetic: indices of a window of at most c are told apart by their    *)
(* remainders.                                                             *)
LEMMA ModInjective ==
  ASSUME NEW c \in Nat \ {0}, NEW a \in Nat, NEW b \in Nat,
         a < b, b - a < c
  PROVE  a % c # b % c
<1> DEFINE k == b \div c
           j == a \div c
<1>1. a = c * j + (a % c) /\ b = c * k + (b % c)
  OBVIOUS
<1>2. j \in Nat /\ k \in Nat
  OBVIOUS
<1>4. a % c \in Nat
  OBVIOUS
<1> HIDE DEF j, k
<1> SUFFICES ASSUME a % c = b % c PROVE FALSE
  OBVIOUS
<1> DEFINE r == a % c
<1>5. a = c * j + r /\ b = c * k + r /\ r \in Nat
  BY <1>1, <1>4
<1> HIDE DEF r
<1>6. CASE k <= j
  <2>1. c * k <= c * j
    BY <1>2, <1>6
  <2> QED BY <2>1, <1>5, <1>2
<1>7. CASE k > j
  <2>1. c * k >= c * (j + 1)
    BY <1>2, <1>7
  <2>2. c * (j + 1) = c * j + c
    BY <1>2
  <2> QED BY <2>1, <2>2, <1>5, <1>2
<1> QED BY <1>2, <1>6, <1>7
-----------------------------------------------------------------------------
(* RRQueue. What is between tail and head fits; a pair that has been used  *)
(* knows its index; a pair in use is between tail and head; and the one at *)
(* tail is in use.                                                         *)
Ring(r) ==
  LET cells == 0 .. 2 ^ r.exp - 1
  IN  /\ r \in [exp : SizeExps, head : Nat, tail : Nat,
                idx : [cells -> -1 .. r.head - 1], active : [cells -> BOOLEAN]]
      /\ r.tail <= r.head /\ r.head - r.tail <= 2 ^ r.exp
      /\ \A p \in cells : r.idx[p] # -1 => r.idx[p] % 2 ^ r.exp = p
      /\ \A p \in cells : r.active[p] => r.idx[p] >= r.tail
      /\ r.tail < r.head => r.active[r.tail % 2 ^ r.exp]

(* getHead takes a pair that is free, and no other pair changes. *)
LEMMA GetHeadLemma ==
  ASSUME NEW r, Ring(r), canPush(r)
  PROVE  /\ Ring(getHead(r))
         /\ getHead(r).exp = r.exp
         /\ r.head % 2 ^ r.exp \in 0 .. 2 ^ r.exp - 1
         /\ ~r.active[r.head % 2 ^ r.exp]
         /\ getHead(r).active = [r.active EXCEPT ![r.head % 2 ^ r.exp] = TRUE]
<1> DEFINE c == 2 ^ r.exp
           n == r.head % c
           g == getHead(r)
<1>1. c \in Nat \ {0}
  BY Zenon, HttpAssumption DEF Ring
<1>2. n \in 0 .. c - 1
  BY <1>1 DEF Ring
<1>3. /\ r.exp \in SizeExps /\ r.head \in Nat /\ r.tail \in Nat
      /\ r.idx \in [0 .. c - 1 -> -1 .. r.head - 1]
      /\ r.active \in [0 .. c - 1 -> BOOLEAN]
      /\ r.tail <= r.head /\ r.head - r.tail < c
  BY DEF Ring, canPush
<1>4. ~r.active[n]
  <2> SUFFICES ASSUME r.active[n] PROVE FALSE
    OBVIOUS
  <2>1. r.idx[n] >= r.tail
    BY <1>2 DEF Ring
  <2>2. r.idx[n] \in -1 .. r.head - 1
    BY Zenon, <1>2, <1>3
  <2>3. r.idx[n] % c = n
    BY <1>2, <1>3, <2>1, <2>2 DEF Ring
  <2>4. r.idx[n] \in Nat /\ r.idx[n] < r.head /\ r.head - r.idx[n] < c
    <3> DEFINE i == r.idx[n]
    <3>1. i >= r.tail /\ i \in -1 .. r.head - 1
      BY <2>1, <2>2
    <3>2. c \in Nat /\ r.head \in Nat /\ r.tail \in Nat /\ r.head - r.tail < c
      BY <1>1, <1>3
    <3> HIDE DEF i, c
    <3>3. i \in Nat /\ i < r.head /\ r.head - i < c
      BY <3>1, <3>2
    <3> QED BY <3>3 DEF i
  <2>5. r.idx[n] % c # r.head % c
    BY Zenon, <1>1, <1>3, <2>4, ModInjective
  <2> QED BY <2>3, <2>5
<1>5. g = [exp |-> r.exp, head |-> r.head + 1, tail |-> r.tail,
           idx |-> [r.idx EXCEPT ![n] = r.head], active |-> [r.active EXCEPT ![n] = TRUE]]
  <2>1. r = [exp |-> r.exp, head |-> r.head, tail |-> r.tail, idx |-> r.idx,
             active |-> r.active]
    BY DEF Ring
  <2>2. g = [[[r EXCEPT !.active = [r.active EXCEPT ![n] = TRUE]]
               EXCEPT !.idx = [r.idx EXCEPT ![n] = r.head]]
               EXCEPT !.head = r.head + 1]
    BY <2>1 DEF getHead
  <2> HIDE DEF g, n
  <2> QED BY Zenon, <2>1, <2>2
<1>6. n = r.head % c
  OBVIOUS
<1>7. /\ \A p \in 0 .. c - 1 : r.idx[p] # -1 => r.idx[p] % c = p
      /\ \A p \in 0 .. c - 1 : r.active[p] => r.idx[p] >= r.tail
      /\ r.tail < r.head => r.active[r.tail % c]
  BY DEF Ring
<1> HIDE DEF g, n, c
<1>8. Ring(g)
  <2> DEFINE ni == [r.idx EXCEPT ![n] = r.head]
             na == [r.active EXCEPT ![n] = TRUE]
  <2>1. /\ ni \in [0 .. c - 1 -> -1 .. r.head]
        /\ ni[n] = r.head /\ \A p \in 0 .. c - 1 : p # n => ni[p] = r.idx[p]
    <3>1. r.head \in -1 .. r.head /\ -1 .. r.head - 1 \subseteq -1 .. r.head
      BY <1>3
    <3>2. r.idx \in [0 .. c - 1 -> -1 .. r.head]
      BY <1>3, <3>1, Zenon
    <3> QED BY <1>2, <3>1, <3>2, Zenon
  <2>2. /\ na \in [0 .. c - 1 -> BOOLEAN]
        /\ na[n] /\ \A p \in 0 .. c - 1 : p # n => na[p] = r.active[p]
    BY Zenon, <1>2, <1>3
  <2>3. g = [exp |-> r.exp, head |-> r.head + 1, tail |-> r.tail,
             idx |-> ni, active |-> na]
    BY <1>5
  <2> HIDE DEF ni, na
  <2>4. g.exp = r.exp /\ g.head = r.head + 1 /\ g.tail = r.tail /\ g.idx = ni /\ g.active = na
    BY <2>3
  <2>5. /\ r.head + 1 \in Nat /\ g.head - 1 = r.head
        /\ g.tail <= g.head /\ g.head - g.tail <= c
    BY <1>1, <1>3, <2>4
  <2>6. g \in [exp : SizeExps, head : Nat, tail : Nat,
               idx : [0 .. c - 1 -> -1 .. g.head - 1], active : [0 .. c - 1 -> BOOLEAN]]
    <3>1. g \in [exp : SizeExps, head : Nat, tail : Nat,
                 idx : [0 .. c - 1 -> -1 .. r.head], active : [0 .. c - 1 -> BOOLEAN]]
      BY <1>3, <2>1, <2>2, <2>3, <2>5
    <3> QED BY <2>5, <3>1, Zenon
  <2>7. \A p \in 0 .. c - 1 : g.idx[p] # -1 => g.idx[p] % c = p
    <3> SUFFICES ASSUME NEW p \in 0 .. c - 1, ni[p] # -1 PROVE ni[p] % c = p
      BY <2>4
    <3>1. CASE p = n
      BY <1>6, <2>1, <3>1
    <3>2. CASE p # n
      BY <1>7, <2>1, <3>2
    <3> QED BY <3>1, <3>2
  <2>8. \A p \in 0 .. c - 1 : g.active[p] => g.idx[p] >= g.tail
    <3> SUFFICES ASSUME NEW p \in 0 .. c - 1, na[p] PROVE ni[p] >= r.tail
      BY <2>4
    <3>1. CASE p = n
      BY <1>3, <2>1, <3>1
    <3>2. CASE p # n
      BY <1>7, <2>1, <2>2, <3>2
    <3> QED BY <3>1, <3>2
  <2>9. g.active[g.tail % c]
    <3>1. r.tail % c \in 0 .. c - 1
      BY <1>1, <1>3
    <3>2. CASE r.tail = r.head
      BY <1>6, <2>2, <2>4, <3>2
    <3>3. CASE r.tail # r.head
      <4>1. r.tail < r.head
        BY <1>3, <3>3
      <4> QED BY <1>7, <2>2, <2>4, <3>1, <4>1
    <3> QED BY <3>2, <3>3
  <2> QED BY Zenon, <2>4, <2>5, <2>6, <2>7, <2>8, <2>9 DEF Ring, c
<1> QED BY <1>2, <1>4, <1>5, <1>8 DEF g, n, c

(* release frees the pair and no other, also when it is called twice. *)
LEMMA ReleaseLemma ==
  ASSUME NEW r, Ring(r), NEW p \in 0 .. 2 ^ r.exp - 1, CanRelease(r, r.idx[p])
  PROVE  /\ Ring(release(r, r.idx[p]))
         /\ release(r, r.idx[p]).exp = r.exp
         /\ release(r, r.idx[p]).active = [r.active EXCEPT ![p] = FALSE]
<1> DEFINE c == 2 ^ r.exp
           i == r.idx[p]
           a == [r.active EXCEPT ![p] = FALSE]
           busy == {k \in i + 1 .. r.head - 1 : a[k % c]}
           tl == IF i = r.tail THEN Min(busy \cup {r.head}) ELSE r.tail
           g == release(r, i)
<1>1. c \in Nat \ {0}
  BY Zenon, HttpAssumption DEF Ring
<1>2. /\ r.exp \in SizeExps /\ r.head \in Nat /\ r.tail \in Nat
      /\ r.idx \in [0 .. c - 1 -> -1 .. r.head - 1]
      /\ r.active \in [0 .. c - 1 -> BOOLEAN]
      /\ r.tail <= r.head /\ r.head - r.tail <= c
  BY DEF Ring
<1>3. i \in Nat /\ i >= r.tail /\ i < r.head /\ i % c = p
  <2>1. i >= r.tail /\ i < r.head /\ i \in -1 .. r.head - 1
    BY Zenon, <1>2 DEF CanRelease
  <2>2. i \in Nat /\ i # -1
    BY SMTT(30), <1>2, <2>1
  <2> QED BY <2>1, <2>2 DEF Ring
<1>4. g = [exp |-> r.exp, head |-> r.head, tail |-> tl, idx |-> r.idx, active |-> a]
  <2>1. r = [exp |-> r.exp, head |-> r.head, tail |-> r.tail, idx |-> r.idx,
             active |-> r.active]
    BY DEF Ring
  <2>2. g = [r EXCEPT !.active = a, !.tail = tl]
    BY Zenon, <1>3 DEF release
  <2> HIDE DEF g, a, tl
  <2> QED BY Zenon, <2>1, <2>2
<1>5. a \in [0 .. c - 1 -> BOOLEAN]
  BY <1>2
<1>6. i = r.tail => /\ tl \in busy \cup {r.head}
                    /\ \A k \in busy \cup {r.head} : tl <= k
  <2>1. busy \cup {r.head} \subseteq Nat
    BY <1>2, <1>3
  <2> HIDE DEF busy
  <2> QED BY <2>1, MinLemma
<1>7. tl \in Nat /\ tl >= r.tail /\ tl <= r.head
  BY SMTT(30), <1>2, <1>3, <1>6
<1> HIDE DEF g, tl
<1>8. \A x \in 0 .. c - 1 : a[x] => r.idx[x] >= tl
  <2> SUFFICES ASSUME NEW x \in 0 .. c - 1, a[x] PROVE r.idx[x] >= tl
    OBVIOUS
  <2>1. x # p /\ r.active[x]
    BY Zenon, <1>2
  <2>2. r.idx[x] >= r.tail /\ r.idx[x] \in -1 .. r.head - 1
    BY Zenon, <1>2, <2>1 DEF Ring
  <2>3. r.idx[x] % c = x
    BY <1>2, <2>2 DEF Ring
  <2>4. r.idx[x] # i
    BY <1>3, <2>1, <2>3
  <2>5. CASE i = r.tail
    <3>1. r.idx[x] \in i + 1 .. r.head - 1
      <4> DEFINE y == r.idx[x]
      <4>1. y \in Int /\ y >= i /\ y # i /\ y <= r.head - 1
        BY <1>2, <2>2, <2>4, <2>5
      <4> HIDE DEF y, i
      <4>2. y \in i + 1 .. r.head - 1
        BY <1>2, <1>3, <4>1
      <4> QED BY <4>2 DEF y
    <3>2. r.idx[x] \in busy
      BY <2>3, <3>1
    <3> QED BY Zenon, <1>2, <1>6, <1>7, <2>2, <2>5, <3>2
  <2>6. CASE i # r.tail
    BY <2>2, <2>6 DEF tl
  <2> QED BY <2>5, <2>6
<1>9. tl < r.head => a[tl % c]
  <2> SUFFICES ASSUME tl < r.head PROVE a[tl % c]
    OBVIOUS
  <2>1. CASE i = r.tail
    BY <1>2, <1>6, <1>7, <2>1
  <2>2. CASE i # r.tail
    <3>1. tl = r.tail /\ r.tail < i /\ i - r.tail < c
      BY SMTT(30), <1>1, <1>2, <1>3, <2>2 DEF tl
    <3>2. r.tail % c # i % c
      BY Zenon, <1>1, <1>2, <1>3, <3>1, ModInjective
    <3>3. r.tail % c \in 0 .. c - 1
      BY SMTT(30), <1>1, <1>2
    <3>4. r.active[r.tail % c]
      BY <1>2, <1>3, <3>1 DEF Ring
    <3> QED BY ZenonT(60), <1>2, <1>3, <3>1, <3>2, <3>3, <3>4
  <2> QED BY <2>1, <2>2
<1>10. Ring(g)
  <2>1. /\ g.exp = r.exp /\ g.head = r.head /\ g.tail = tl /\ g.idx = r.idx /\ g.active = a
    BY <1>4
  <2>2. g \in [exp : SizeExps, head : Nat, tail : Nat,
              idx : [0 .. c - 1 -> -1 .. r.head - 1], active : [0 .. c - 1 -> BOOLEAN]]
    <3> HIDE DEF c, a
    <3> QED BY <1>2, <1>4, <1>5, <1>7
  <2>3. g.tail <= g.head /\ g.head - g.tail <= c
    BY <1>1, <1>2, <1>7, <2>1
  <2>4. \A x \in 0 .. c - 1 : g.idx[x] # -1 => g.idx[x] % c = x
    BY <2>1 DEF Ring
  <2> QED BY <1>8, <1>9, <2>1, <2>2, <2>3, <2>4 DEF Ring
<1> QED BY <1>4, <1>10 DEF g

-----------------------------------------------------------------------------
(* The types, with Ring for what TypeOK says of the queue: that alone is   *)
(* not preserved by release.                                               *)
Messages == [req : {"noinit", "in_hdr", "completed"},
             ws : {"notyet", "hdr_serialized", "hdr_flushed", "in_body"},
             set : SUBSET {"status", "headers"}]
Jobs == {"none", "flushHeaders", "writeBodyPart", "end"}
Places == {"read", "parse", "handler", "continue", "ended"}
Runs(P) == [at : Places, stage : {"method", "header"}, pair : P]
Handing(P) == [handler : BOOLEAN, h : BOOLEAN, pair : P \cup {NoPair},
               at : {"run", "wait"}, timer : BOOLEAN]
Conns == [st : {"open", "ended", "closing", "closed"}, net : Seq(Lines),
          rb : Seq(Lines), fin : BOOLEAN, rend : BOOLEAN]
Todos(P) == {<<>>} \cup ({"throw", "finish"} \X P)
Counts == [lines : Nat, calls : Nat]

Typed ==
  /\ Ring(q)
  /\ msg \in [Pairs -> Messages]
  /\ job \in [Pairs -> Jobs]
  /\ run \in Runs(Pairs)
  /\ held \subseteq Pairs
  /\ server \in Handing(Pairs)
  /\ conn \in Conns
  /\ writer \in Pairs \cup {NoPair}
  /\ todo \in Todos(Pairs)
  /\ count \in Counts
  /\ astray \in BOOLEAN

(* Typed is stronger than TypeOK, and says that the tail is active. *)
LEMMA TypedImpliesTypeOK == Typed => TypeOK /\ TailIsActive
BY DEF Typed, TypeOK, TailIsActive, Ring, Pairs, Capacity, Messages, Jobs, Places, Runs,
       Handing, Conns, Todos, Counts

(* The next pair, and what proceedToNext makes of the queue and of run(). *)
LEMMA NextPairTyped ==
  ASSUME NEW r, Ring(r), r.exp = q.exp, run \in Runs(Pairs), NextPair(r)
  PROVE  Ring(q') /\ q'.exp = q.exp /\ run' \in Runs(Pairs)
<1>1. CASE canPush(r)
  <2>1. /\ q' = getHead(r)
        /\ run' = [at |-> "parse", stage |-> "method", pair |-> r.head % 2 ^ r.exp]
    BY <1>1 DEF NextPair, Capacity
  <2>2. Ring(getHead(r)) /\ getHead(r).exp = r.exp
        /\ r.head % 2 ^ r.exp \in 0 .. 2 ^ r.exp - 1
    BY Zenon, <1>1, GetHeadLemma
  <2> QED BY <2>1, <2>2 DEF Runs, Pairs, Capacity, Places
<1>2. CASE ~canPush(r)
  BY <1>2 DEF NextPair
<1> QED BY <1>1, <1>2

(* proceedToNext leaves a queue. *)
LEMMA ProceedTyped ==
  ASSUME NEW r, Ring(r), r.exp = q.exp, run \in Runs(Pairs), proceedToNext(r)
  PROVE  Ring(q') /\ q'.exp = q.exp /\ run' \in Runs(Pairs)
BY NextPairTyped DEF proceedToNext

(* So does releasing a pair and going on. *)
LEMMA ReleasedTyped ==
  ASSUME Typed, NEW p \in Pairs,
         IF CanRelease(q, q.idx[p])
         THEN proceedToNext(release(q, q.idx[p]))
         ELSE failed' = "idx >= tail" /\ UNCHANGED <<q, run>>
  PROVE  Ring(q') /\ q'.exp = q.exp /\ run' \in Runs(Pairs)
<1>1. CASE CanRelease(q, q.idx[p])
  <2>1. Ring(release(q, q.idx[p])) /\ release(q, q.idx[p]).exp = q.exp
    BY Zenon, <1>1, ReleaseLemma DEF Typed, Pairs, Capacity
  <2>2. proceedToNext(release(q, q.idx[p]))
    BY <1>1
  <2> HIDE DEF proceedToNext, release
  <2> QED BY <2>1, <2>2, ProceedTyped DEF Typed
<1>2. CASE ~CanRelease(q, q.idx[p])
  BY <1>2 DEF Typed
<1> QED BY <1>1, <1>2

(* The responses that user code makes. *)
LEMMA MessageLemma ==
  ASSUME NEW m \in Messages
  PROVE  /\ serializeHeaders(m) \in Messages
         /\ ClearResponse(m) \in Messages
         /\ ClearRequest(m) \in Messages
         /\ ClearResponse(ClearRequest(m)) = NewMessage
         /\ NewMessage \in Messages
         /\ [m EXCEPT !.req = "in_hdr"] \in Messages
         /\ [m EXCEPT !.req = "completed"] \in Messages
         /\ [m EXCEPT !.set = @ \cup {"headers"}] \in Messages
<1>1. serializeHeaders(m) \in Messages
  BY Zenon DEF Messages, serializeHeaders
<1>2. ClearResponse(m) \in Messages
  BY Zenon DEF Messages, ClearResponse
<1>3. ClearRequest(m) \in Messages
  BY DEF Messages, ClearRequest
<1>4. ClearResponse(ClearRequest(m)) = NewMessage
  <2> DEFINE n == ClearRequest(m)
  <2>1. n.req = "noinit" /\ n = [req |-> n.req, ws |-> n.ws, set |-> n.set]
    BY <1>3 DEF Messages, ClearRequest
  <2> HIDE DEF n
  <2>2. ClearResponse(n) \in [req : {"noinit"}, ws : {"notyet"}, set : {{}}]
    BY Zenon, <2>1 DEF ClearResponse
  <2> QED BY <2>2 DEF n, NewMessage
<1>5. NewMessage \in Messages
  BY DEF Messages, NewMessage
<1>6. [m EXCEPT !.req = "in_hdr"] \in Messages /\ [m EXCEPT !.req = "completed"] \in Messages
  BY DEF Messages
<1>7. [m EXCEPT !.set = @ \cup {"headers"}] \in Messages
  BY DEF Messages
<1> QED BY <1>1, <1>2, <1>3, <1>4, <1>5, <1>6, <1>7

(* Typed holds at the start. *)
LEMMA TypedInit == Init => Typed
<1> SUFFICES ASSUME Init PROVE Typed
  OBVIOUS
<1>1. PICK e \in SizeExps :
        /\ q = getHead([exp |-> e, head |-> 0, tail |-> 0,
                        idx |-> [p \in 0 .. 2 ^ e - 1 |-> -1],
                        active |-> [p \in 0 .. 2 ^ e - 1 |-> FALSE]])
        /\ msg = [p \in 0 .. 2 ^ e - 1 |-> NewMessage]
        /\ job = [p \in 0 .. 2 ^ e - 1 |-> "none"]
  BY DEF Init
<1> DEFINE r == [exp |-> e, head |-> 0, tail |-> 0,
                 idx |-> [p \in 0 .. 2 ^ e - 1 |-> -1],
                 active |-> [p \in 0 .. 2 ^ e - 1 |-> FALSE]]
<1>2. 2 ^ e \in Nat \ {0}
  BY HttpAssumption
<1>3. Ring(r) /\ canPush(r) /\ r.exp = e
  BY <1>2 DEF Ring, canPush
<1>4. Ring(q) /\ q.exp = e
  <2> HIDE DEF r
  <2> QED BY Zenon, <1>1, <1>3, GetHeadLemma DEF r
<1>5. Pairs = 0 .. 2 ^ e - 1 /\ 0 \in Pairs
  BY <1>2, <1>4 DEF Pairs, Capacity
<1>6. msg \in [Pairs -> Messages] /\ job \in [Pairs -> Jobs]
  BY <1>1, <1>5 DEF Messages, Jobs, NewMessage
<1>7. /\ run \in Runs(Pairs) /\ held \subseteq Pairs /\ server \in Handing(Pairs)
      /\ writer \in Pairs \cup {NoPair} /\ todo \in Todos(Pairs)
      /\ count \in Counts /\ astray \in BOOLEAN
  <2>1. run \in Runs(Pairs) /\ held \subseteq Pairs
    BY <1>5 DEF Init, Runs, Places
  <2>2. PICK h \in BOOLEAN :
          server = [handler |-> h, h |-> FALSE, pair |-> NoPair, at |-> "run", timer |-> FALSE]
    BY DEF Init
  <2>3. server \in Handing(Pairs)
    BY <2>2 DEF Handing
  <2> QED BY <2>1, <2>3 DEF Init, Todos, Counts
<1>8. conn \in Conns
  <2>1. <<>> \in Seq(Lines)
    OBVIOUS
  <2> QED BY <2>1 DEF Init, Conns
<1> QED BY <1>4, <1>6, <1>7, <1>8 DEF Typed

(* What finishing a response does, whoever does it. *)
LEMMA FinishTyped ==
  ASSUME Typed, NEW p \in Pairs, NEW m \in Messages, Finish(p, m)
  PROVE  /\ Ring(q') /\ q'.exp = q.exp /\ run' \in Runs(Pairs)
         /\ msg' \in [Pairs -> Messages]
<1>1. msg' \in [Pairs -> Messages]
  BY MessageLemma DEF Finish, Typed
<1> QED BY <1>1, ReleasedTyped DEF Finish

(* A write that waits keeps the types. *)
LEMMA WaitsTyped ==
  ASSUME Typed, NEW p \in Pairs, NEW j \in Jobs, NEW m \in Messages, Waits(p, j, m)
  PROVE  /\ Ring(q') /\ q'.exp = q.exp /\ run' \in Runs(Pairs)
         /\ msg' \in [Pairs -> Messages] /\ held' \subseteq Pairs
         /\ job' \in [Pairs -> Jobs] /\ conn' \in Conns
         /\ writer' \in Pairs \cup {NoPair}
<1>1. conn' \in Conns
  BY SMTT(30) DEF Waits, Typed, Conns
<1> QED BY <1>1 DEF Waits, Typed

(* Lines are taken from the front and added at the end. *)
LEMMA LinesLemma ==
  ASSUME NEW s \in Seq(Lines)
  PROVE  /\ s # <<>> => Tail(s) \in Seq(Lines)
         /\ \A l \in Lines : Append(s, l) \in Seq(Lines)
         /\ <<>> \in Seq(Lines)
OBVIOUS

(* The calls are counted. *)
LEMMA CalledTyped == Typed /\ Called => count' \in Counts
BY DEF Typed, Called, Counts

(* Every step keeps Typed. *)
LEMMA TypedNext == Typed /\ [Next]_vars => Typed'
<1> SUFFICES ASSUME Typed, [Next]_vars PROVE Typed'
  OBVIOUS
<1> DEFINE Kept == /\ Ring(q') /\ q'.exp = q.exp
                   /\ msg' \in [Pairs -> Messages] /\ job' \in [Pairs -> Jobs]
                   /\ run' \in Runs(Pairs) /\ held' \subseteq Pairs
                   /\ server' \in Handing(Pairs) /\ conn' \in Conns
                   /\ writer' \in Pairs \cup {NoPair} /\ todo' \in Todos(Pairs)
                   /\ count' \in Counts /\ astray' \in BOOLEAN
<1> SUFFICES Kept
  BY DEF Typed, Pairs, Capacity
<1>pair. run.pair \in Pairs
  BY DEF Typed, Runs
<1>1. CASE ReadLineWaits
  BY <1>1 DEF ReadLineWaits, Typed, Runs, Places
<1>2. CASE GetMethod
  <2>1. /\ run' \in Runs(Pairs)
    BY <1>2 DEF GetMethod, RequestBad, Typed, Runs, Places
  <2>2. msg' \in [Pairs -> Messages]
    <3> DEFINE m == [msg[run.pair] EXCEPT !.req = "in_hdr"]
    <3>1. msg' = msg \/ msg' = [msg EXCEPT ![run.pair] = m]
      BY <1>2 DEF GetMethod, RequestBad
    <3>2. m \in Messages
      BY Zenon, <1>pair, MessageLemma DEF Typed
    <3> HIDE DEF m
    <3> QED BY <3>1, <3>2 DEF Typed
  <2>3. conn' \in Conns
    BY <1>2, LinesLemma DEF GetMethod, RequestBad, EndOf, Typed, Conns
  <2>4. UNCHANGED <<held, server>>
    BY <1>2 DEF GetMethod, RequestBad
  <2> QED BY <1>2, <2>1, <2>2, <2>3, <2>4 DEF GetMethod, Typed
<1>3. CASE GetHeader
  <2>1. /\ run' \in Runs(Pairs)
    BY <1>3 DEF GetHeader, RequestBad, Typed, Runs, Places
  <2>2. msg' \in [Pairs -> Messages]
    <3> DEFINE m == [msg[run.pair] EXCEPT !.req = "completed"]
    <3>1. msg' = msg \/ msg' = [msg EXCEPT ![run.pair] = m]
      BY <1>3 DEF GetHeader, RequestBad
    <3>2. m \in Messages
      BY Zenon, <1>pair, MessageLemma DEF Typed
    <3> HIDE DEF m
    <3> QED BY <3>1, <3>2 DEF Typed
  <2>3. conn' \in Conns
    BY <1>3, LinesLemma DEF GetHeader, RequestBad, EndOf, Typed, Conns
  <2>4. UNCHANGED <<held, server>> \/ onNewRequest
    BY <1>3 DEF GetHeader, RequestBad
  <2>5. held' \subseteq Pairs
    BY <1>pair, <2>4 DEF onNewRequest, Typed
  <2>6. server' \in Handing(Pairs)
    BY <1>pair, <2>4 DEF onNewRequest, Typed, Handing
  <2> QED BY <1>3, <2>1, <2>2, <2>3, <2>5, <2>6 DEF GetHeader, Typed
<1>4. CASE HandlerReturns
  <2>1. Ring(q') /\ q'.exp = q.exp /\ run' \in Runs(Pairs)
    <3>1. CASE canPush(q)
      BY <1>4, <3>1, NextPairTyped DEF HandlerReturns, Typed
    <3>2. CASE ~canPush(q)
      BY <1>4, <3>2 DEF HandlerReturns, Typed, Runs, Places
    <3> QED BY <3>1, <3>2
  <2> QED BY <1>4, <2>1 DEF HandlerReturns, Typed
<1>5. ASSUME NEW p \in Pairs, writeHead(p) PROVE Kept
  <2>1. msg' \in [Pairs -> Messages] /\ count' \in Counts
    BY <1>5 DEF writeHead, Called, Typed, Messages, Counts
  <2> QED BY <1>5, <2>1 DEF writeHead, Typed
<1>6. ASSUME NEW p \in Pairs, addHeader(p) PROVE Kept
  <2> DEFINE m == [msg[p] EXCEPT !.set = @ \cup {"headers"}]
  <2>1. msg' = msg \/ msg' = [msg EXCEPT ![p] = m]
    BY <1>6 DEF addHeader
  <2>2. m \in Messages
    BY Zenon, MessageLemma DEF Typed
  <2> HIDE DEF m
  <2>3. msg' \in [Pairs -> Messages]
    BY <2>1, <2>2 DEF Typed
  <2>4. count' \in Counts
    BY <1>6, CalledTyped DEF addHeader
  <2> QED BY <1>6, <2>3, <2>4 DEF addHeader, Typed
<1>m. ASSUME NEW p \in Pairs PROVE serializeHeaders(msg[p]) \in Messages
  BY Zenon, MessageLemma DEF Typed
<1>7. ASSUME NEW p \in Pairs, flushHeaders(p) PROVE Kept
  <2> DEFINE m == serializeHeaders(msg[p])
  <2>1. m \in Messages /\ [m EXCEPT !.ws = "hdr_flushed"] \in Messages
    BY <1>m DEF Messages
  <2> HIDE DEF m
  <2>2. count' \in Counts /\ UNCHANGED <<server, todo, astray>>
    BY <1>7, CalledTyped DEF flushHeaders
  <2>3. \/ UNCHANGED <<q, msg, job, run, held, conn, writer>>
        \/ /\ msg' = [msg EXCEPT ![p] = [m EXCEPT !.ws = "hdr_flushed"]]
           /\ UNCHANGED <<q, run, held, job, conn, writer>>
        \/ Waits(p, "flushHeaders", m)
    BY <1>7 DEF flushHeaders, Writes, Stop, m
  <2> QED BY <2>1, <2>2, <2>3, WaitsTyped DEF Typed, Jobs
<1>8. ASSUME NEW p \in Pairs, writeBodyPart(p) PROVE Kept
  <2> DEFINE m == serializeHeaders(msg[p])
  <2>1. m \in Messages /\ [m EXCEPT !.ws = "in_body"] \in Messages
    BY Zenon, <1>m DEF Messages
  <2> HIDE DEF m
  <2>2. count' \in Counts /\ UNCHANGED <<server, todo, astray>>
    BY <1>8, CalledTyped DEF writeBodyPart
  <2>3. \/ UNCHANGED <<q, msg, job, run, held, conn, writer>>
        \/ /\ msg' = [msg EXCEPT ![p] = [m EXCEPT !.ws = "in_body"]]
           /\ UNCHANGED <<q, run, held, job, conn, writer>>
        \/ Waits(p, "writeBodyPart", m)
    BY <1>8 DEF writeBodyPart, Writes, Stop, m
  <2> QED BY <2>1, <2>2, <2>3, WaitsTyped DEF Typed, Jobs
<1>9. ASSUME NEW p \in Pairs, endWith(p) \/ end(p) PROVE Kept
  <2> DEFINE m == serializeHeaders(msg[p])
  <2>1. m \in Messages
    BY <1>m
  <2> HIDE DEF m
  <2>2. count' \in Counts /\ UNCHANGED <<server, todo, astray>>
    BY <1>9, CalledTyped DEF endWith, end
  <2>3. \/ UNCHANGED <<q, msg, job, run, held, conn, writer>>
        \/ Finish(p, m) /\ held' = held \ {p} /\ UNCHANGED <<job, conn, writer>>
        \/ Waits(p, "end", m)
    BY <1>9 DEF endWith, end, Writes, Stop, m
  <2> QED BY <2>1, <2>2, <2>3, FinishTyped, WaitsTyped DEF Typed, Jobs
<1>10. ASSUME NEW p \in Pairs, a_readBody(p) PROVE Kept
  <2>1. count' \in Counts
    BY <1>10, CalledTyped DEF a_readBody
  <2>2. Ring(q') /\ q'.exp = q.exp /\ run' \in Runs(Pairs)
    BY <1>10, ProceedTyped DEF a_readBody, Typed
  <2> QED BY <1>10, <2>1, <2>2 DEF a_readBody, Typed
<1>11. ASSUME NEW timed \in BOOLEAN, a_request(timed) PROVE Kept
  <2>1. count' \in Counts
    BY <1>11, CalledTyped DEF a_request
  <2>2. server' \in Handing(Pairs)
    BY Zenon, <1>11 DEF a_request, Typed, Handing
  <2> QED BY <1>11, <2>1, <2>2 DEF a_request, Typed
<1>12. CASE ReadEvent
  <2>1. conn' \in Conns
    BY Zenon, <1>12, LinesLemma DEF ReadEvent, Typed, Conns
  <2>2. run' \in Runs(Pairs)
    BY <1>12 DEF ReadEvent, Typed, Runs, Places
  <2> QED BY <1>12, <2>1, <2>2 DEF ReadEvent, Typed
<1>13. CASE RemoteEnd
  <2>1. conn' \in Conns
    BY Zenon, <1>13 DEF RemoteEnd, Typed, Conns
  <2>2. run' \in Runs(Pairs)
    BY <1>13 DEF RemoteEnd, Typed, Runs, Places
  <2> QED BY <1>13, <2>1, <2>2 DEF RemoteEnd, Typed
<1>14. CASE ErrorClose
  BY SMTT(30), <1>14 DEF ErrorClose, Typed, Conns
<1>15. CASE CloseEvent
  <2>1. conn' \in Conns
    BY Zenon, <1>15, LinesLemma DEF CloseEvent, Typed, Conns
  <2>2. run' \in Runs(Pairs)
    BY <1>15 DEF CloseEvent, Typed, Runs, Places
  <2>3. todo' \in Todos(Pairs)
    BY <1>15 DEF CloseEvent, Typed, Todos
  <2> QED BY <1>15, <2>1, <2>2, <2>3 DEF CloseEvent, Typed
<1>16. CASE RequestTimesOut
  <2>1. server' \in Handing(Pairs)
    BY <1>16 DEF RequestTimesOut, Typed, Handing
  <2>2. held' \subseteq Pairs
    BY <1>16 DEF RequestTimesOut, Typed, Handing
  <2> QED BY <1>16, <2>1, <2>2 DEF RequestTimesOut, Typed
<1>todo. todo # <<>> => todo[2] \in Pairs
  BY DEF Typed, Todos
<1>17. CASE WriteThrows
  <2> DEFINE p == todo[2]
  <2>1. p \in Pairs
    BY <1>17, <1>todo DEF WriteThrows
  <2> HIDE DEF p
  <2>2. msg' \in [Pairs -> Messages]
    BY <1>17, <2>1, MessageLemma DEF WriteThrows, Typed, p
  <2>3. Ring(q') /\ q'.exp = q.exp /\ run' \in Runs(Pairs)
    BY <1>17, <2>1, ReleasedTyped DEF WriteThrows, p
  <2>4. todo' \in Todos(Pairs) /\ job' \in [Pairs -> Jobs]
    BY <1>17, <2>1 DEF WriteThrows, Typed, Todos, Jobs, p
  <2> QED BY <1>17, <2>2, <2>3, <2>4 DEF WriteThrows, Typed
<1>18. CASE EndGoesOn
  <2> DEFINE p == todo[2]
  <2>1. p \in Pairs /\ msg[p] \in Messages /\ Finish(p, msg[p])
    BY <1>18, <1>todo DEF EndGoesOn, Typed
  <2> HIDE DEF p
  <2>2. Ring(q') /\ q'.exp = q.exp /\ run' \in Runs(Pairs) /\ msg' \in [Pairs -> Messages]
    BY <2>1, FinishTyped
  <2> QED BY <1>18, <2>2 DEF EndGoesOn, Typed, Todos
<1>19. ASSUME NEW l \in Lines, PeerSends(l) PROVE Kept
  <2>1. conn' \in Conns
    <3>1. Append(conn.net, l) \in Seq(Lines)
      BY LinesLemma DEF Typed, Conns
    <3> QED BY <1>19, <3>1 DEF PeerSends, Typed, Conns
  <2>2. count' \in Counts
    <3>1. count' = [count EXCEPT !.lines = @ + 1]
      BY <1>19 DEF PeerSends
    <3> QED BY <3>1 DEF Typed, Counts
  <2> QED BY <1>19, <2>1, <2>2 DEF PeerSends, Typed
<1>20. CASE PeerEnds
  BY <1>20 DEF PeerEnds, Typed, Conns
<1>21. CASE UNCHANGED vars
  BY <1>21 DEF vars, Typed
<1> QED BY Zenon, <1>1, <1>2, <1>3, <1>4, <1>5, <1>6, <1>7, <1>8, <1>9, <1>10, <1>11, <1>12,
           <1>13, <1>14, <1>15, <1>16, <1>17, <1>18, <1>19, <1>20, <1>21
        DEF Next, Run, User, Loop

-----------------------------------------------------------------------------
(* The pairs of a queue r with messages ms and waiting calls jb, of which  *)
(* user code holds hd: the free ones are as new; those held or in a call   *)
(* are in use, and not both; and the one that run(), at rn, reads into is  *)
(* in use and is none of those.                                            *)
Clean(r, ms, jb) ==
  \A p \in 0 .. 2 ^ r.exp - 1 : ~r.active[p] => ms[p] = NewMessage /\ jb[p] = "none"

Busy(r, ms, jb, hd) ==
  \A p \in 0 .. 2 ^ r.exp - 1 :
     p \in hd \/ jb[p] # "none" =>
        /\ ms[p].req = "completed" /\ r.active[p]
        /\ p \in hd => jb[p] = "none"

Apart(r, jb, hd, rn) ==
  rn.at \in {"read", "parse"} =>
     r.active[rn.pair] /\ rn.pair \notin hd /\ jb[rn.pair] = "none"

Owned ==
  /\ ~astray => Clean(q, msg, job)
  /\ ~astray /\ failed = "" => Busy(q, msg, job, held) /\ Apart(q, job, held, run)

(* What the two properties say follows from Owned. *)
LEMMA OwnedImplies == Typed /\ Owned => FreePairsAreClean /\ HeldUntouched
BY DEF Typed, Owned, FreePairsAreClean, HeldUntouched, Clean, Busy, Apart, Pairs, Capacity

(* run() takes a pair that is free, so that nobody else has it. *)
LEMMA NextPairOwned ==
  ASSUME NEW r, Ring(r), canPush(r), NEW ms, NEW jb, NEW hd, NEW rn,
         Clean(r, ms, jb), Busy(r, ms, jb, hd), rn.pair = r.head % 2 ^ r.exp
  PROVE  /\ Clean(getHead(r), ms, jb) /\ Busy(getHead(r), ms, jb, hd)
         /\ Apart(getHead(r), jb, hd, rn)
<1> DEFINE n == r.head % 2 ^ r.exp
           g == getHead(r)
           cells == 0 .. 2 ^ r.exp - 1
<1>1. /\ g.exp = r.exp /\ n \in cells /\ ~r.active[n]
      /\ g.active = [r.active EXCEPT ![n] = TRUE]
  BY GetHeadLemma
<1>2. r.active \in [cells -> BOOLEAN]
  BY DEF Ring
<1>3. rn.pair = n
  OBVIOUS
<1> HIDE DEF n, g
<1>4. Clean(g, ms, jb)
  BY <1>1, <1>2 DEF Clean
<1>5. Busy(g, ms, jb, hd)
  BY <1>1, <1>2 DEF Busy
<1>6. Apart(g, jb, hd, rn)
  <2>1. n \notin hd /\ jb[n] = "none"
    BY <1>1 DEF Busy
  <2> QED BY Zenon, <1>1, <1>2, <1>3, <2>1 DEF Apart
<1> QED BY <1>4, <1>5, <1>6 DEF g

(* proceedToNext gives run() a pair that nobody else has. *)
LEMMA ProceedOwned ==
  ASSUME NEW r, Ring(r), r.exp = q.exp, NEW ms, NEW jb, NEW hd, proceedToNext(r),
         Clean(r, ms, jb), Busy(r, ms, jb, hd), Apart(r, jb, hd, run)
  PROVE  /\ Clean(q', ms, jb) /\ Busy(q', ms, jb, hd) /\ Apart(q', jb, hd, run')
<1>1. CASE canPush(r) /\ run.at = "continue"
  <2>1. q' = getHead(r) /\ run'.pair = r.head % 2 ^ r.exp
    BY <1>1 DEF proceedToNext, NextPair, Capacity
  <2> QED BY <1>1, <2>1, NextPairOwned
<1>2. CASE ~(canPush(r) /\ run.at = "continue")
  BY <1>2 DEF proceedToNext
<1> QED BY <1>1, <1>2

(* A pair that is in use can be released. *)
LEMMA ActiveCanBeReleased ==
  ASSUME NEW r, Ring(r), NEW p \in 0 .. 2 ^ r.exp - 1, r.active[p]
  PROVE  CanRelease(r, r.idx[p])
<1>1. r.idx[p] >= r.tail /\ r.idx[p] \in -1 .. r.head - 1 /\ r.head \in Nat /\ r.tail \in Nat
  BY Zenon DEF Ring
<1> QED BY <1>1 DEF CanRelease

(* Finishing a response that user code holds. *)
LEMMA FinishOwned ==
  ASSUME Typed, NEW p \in held, NEW m \in Messages, Finish(p, m),
         Clean(q, msg, job), Busy(q, msg, job, held), Apart(q, job, held, run)
  PROVE  /\ Clean(q', msg', job) /\ Busy(q', msg', job, held \ {p})
         /\ Apart(q', job, held \ {p}, run')
<1> DEFINE r == release(q, q.idx[p])
           hd == held \ {p}
           cells == 0 .. 2 ^ q.exp - 1
<1>1. p \in cells /\ Ring(q) /\ q.active \in [cells -> BOOLEAN]
      /\ msg \in [cells -> Messages]
  BY DEF Typed, Pairs, Capacity, Ring
<1>2. q.active[p] /\ job[p] = "none"
  BY <1>1 DEF Busy
<1>3. CanRelease(q, q.idx[p])
  BY <1>1, <1>2, ActiveCanBeReleased
<1>4. Ring(r) /\ r.exp = q.exp /\ r.active = [q.active EXCEPT ![p] = FALSE]
  BY <1>1, <1>3, ReleaseLemma
<1>5. msg' = [msg EXCEPT ![p] = NewMessage] /\ proceedToNext(r)
  BY Zenon, <1>3, MessageLemma DEF Finish
<1> HIDE DEF r
<1>6. Clean(r, msg', job)
  BY <1>1, <1>2, <1>4, <1>5 DEF Clean
<1>7. Busy(r, msg', job, hd)
  BY <1>1, <1>2, <1>4, <1>5 DEF Busy
<1>8. Apart(r, job, hd, run)
  <2>1. run.pair \in cells
    BY DEF Typed, Runs, Pairs, Capacity
  <2> QED BY <1>1, <1>4, <2>1 DEF Apart
<1> HIDE DEF hd
<1>9. Clean(q', msg', job) /\ Busy(q', msg', job, hd) /\ Apart(q', job, hd, run')
  BY <1>4, <1>5, <1>6, <1>7, <1>8, ProceedOwned
<1> QED BY <1>9 DEF hd

(* A write that waits keeps its pair. *)
LEMMA WaitsOwned ==
  ASSUME Typed, NEW p \in held, NEW j \in Jobs \ {"none"}, NEW m \in Messages,
         m.req = msg[p].req, Waits(p, j, m),
         Clean(q, msg, job), Busy(q, msg, job, held), Apart(q, job, held, run)
  PROVE  /\ Clean(q', msg', job') /\ Busy(q', msg', job', held')
         /\ Apart(q', job', held', run')
<1> DEFINE cells == 0 .. 2 ^ q.exp - 1
<1>1. p \in cells /\ msg \in [cells -> Messages] /\ job \in [cells -> Jobs]
      /\ run.pair \in cells
  BY DEF Typed, Runs, Pairs, Capacity
<1>2. /\ msg' = [msg EXCEPT ![p] = m] /\ job' = [job EXCEPT ![p] = j]
      /\ held' = held \ {p} /\ q' = q /\ run' = run
  BY DEF Waits
<1>3. q.active[p] /\ msg[p].req = "completed"
  BY <1>1 DEF Busy
<1>4. Clean(q, msg', job')
  BY <1>1, <1>2, <1>3 DEF Clean
<1>5. Busy(q, msg', job', held')
  BY <1>1, <1>2, <1>3 DEF Busy
<1>6. Apart(q, job', held', run)
  BY <1>1, <1>2 DEF Apart
<1> QED BY <1>2, <1>4, <1>5, <1>6

(* A change of one message that user code holds or run() reads into. *)
LEMMA MessageOwned ==
  ASSUME Typed, NEW p \in Pairs, NEW m, msg' = [msg EXCEPT ![p] = m],
         q.active[p], p \in held => m.req = msg[p].req, job[p] = "none",
         Clean(q, msg, job), Busy(q, msg, job, held)
  PROVE  Clean(q, msg', job) /\ Busy(q, msg', job, held)
<1>1. p \in 0 .. 2 ^ q.exp - 1 /\ msg \in [0 .. 2 ^ q.exp - 1 -> Messages]
  BY DEF Typed, Pairs, Capacity
<1>2. Clean(q, msg', job)
  BY <1>1 DEF Clean
<1>3. Busy(q, msg', job, held)
  BY <1>1 DEF Busy
<1> QED BY <1>2, <1>3

(* run() waits for room only if there is none. *)
LEMMA ProceedRoom ==
  ASSUME NEW r, proceedToNext(r)
  PROVE  run'.at = "continue" => ~canPush(q')
BY DEF proceedToNext, NextPair

(* Every step keeps this so. *)
LEMMA RoomNext == Typed /\ ContinuesWhenRoom /\ [Next]_vars => ContinuesWhenRoom'
<1> SUFFICES ASSUME Typed, ContinuesWhenRoom, [Next]_vars PROVE ContinuesWhenRoom'
  OBVIOUS
<1>1. ASSUME failed = "", q' = q, run' = run PROVE ContinuesWhenRoom'
  BY <1>1 DEF ContinuesWhenRoom, canPush
<1>2. ASSUME run'.at # "continue" PROVE ContinuesWhenRoom'
  BY <1>2 DEF ContinuesWhenRoom
<1>3. ASSUME failed' # "" PROVE ContinuesWhenRoom'
  BY <1>3 DEF ContinuesWhenRoom
<1>4. ASSUME NEW r, proceedToNext(r) PROVE ContinuesWhenRoom'
  BY <1>4, ProceedRoom DEF ContinuesWhenRoom, canPush
<1>5. ASSUME NEW p, NEW m, Finish(p, m) PROVE ContinuesWhenRoom'
  BY <1>3, <1>4, <1>5 DEF Finish
<1>6. CASE ReadLineWaits
  BY <1>2, <1>6 DEF ReadLineWaits, Typed, Runs
<1>7. CASE GetMethod
  BY <1>2, <1>7 DEF GetMethod, RequestBad, Typed, Runs
<1>8. CASE GetHeader
  BY <1>2, <1>8 DEF GetHeader, RequestBad, Typed, Runs
<1>9. CASE HandlerReturns
  <2>1. CASE canPush(q)
    <3>1. NextPair(q)
      BY <1>9, <2>1 DEF HandlerReturns
    <3>2. run' = [at |-> "parse", stage |-> "method", pair |-> q.head % Capacity]
      BY <2>1, <3>1 DEF NextPair
    <3> QED BY <1>2, <3>2
  <2>2. CASE ~canPush(q)
    BY <1>9, <2>2 DEF HandlerReturns, ContinuesWhenRoom, canPush
  <2> QED BY <2>1, <2>2
<1>10. ASSUME NEW p \in Pairs, writeHead(p) \/ addHeader(p) PROVE ContinuesWhenRoom'
  BY <1>1, <1>10 DEF writeHead, addHeader, UserRuns
<1>11. ASSUME NEW p \in Pairs, flushHeaders(p) \/ writeBodyPart(p) PROVE ContinuesWhenRoom'
  BY <1>1, <1>11 DEF flushHeaders, writeBodyPart, Writes, Waits, Stop, UserRuns
<1>12. ASSUME NEW p \in Pairs, endWith(p) \/ end(p) PROVE ContinuesWhenRoom'
  BY <1>1, <1>5, <1>12 DEF endWith, end, Writes, Waits, Stop, UserRuns
<1>13. ASSUME NEW p \in Pairs, a_readBody(p) PROVE ContinuesWhenRoom'
  BY <1>4, <1>13 DEF a_readBody
<1>14. ASSUME NEW timed \in BOOLEAN, a_request(timed) PROVE ContinuesWhenRoom'
  BY <1>1, <1>14 DEF a_request, UserRuns
<1>15. CASE ReadEvent \/ RemoteEnd \/ ErrorClose \/ CloseEvent
  BY <1>1, <1>2, <1>15
     DEF ReadEvent, RemoteEnd, ErrorClose, CloseEvent, Idle, Typed, Runs
<1>16. CASE RequestTimesOut
  BY <1>1, <1>16 DEF RequestTimesOut, Idle
<1>17. CASE WriteThrows
  BY <1>3, <1>4, <1>17 DEF WriteThrows
<1>18. CASE EndGoesOn
  BY <1>5, <1>18 DEF EndGoesOn
<1>19. CASE (\E l \in Lines : PeerSends(l)) \/ PeerEnds
  BY <1>1, <1>19 DEF PeerSends, PeerEnds
<1>20. CASE UNCHANGED vars
  BY <1>20 DEF vars, ContinuesWhenRoom, canPush
<1> QED BY <1>6, <1>7, <1>8, <1>9, <1>10, <1>11, <1>12, <1>13, <1>14, <1>15, <1>16, <1>17,
           <1>18, <1>19, <1>20
        DEF Next, Run, User, Loop

(* end() goes on behind a write only after that has thrown. *)
AfterThrow == todo # <<>> /\ todo[1] = "finish" => astray

(* Every step keeps AfterThrow. *)
LEMMA AfterThrowNext == AfterThrow /\ [Next]_vars => AfterThrow'
<1> SUFFICES ASSUME AfterThrow, [Next]_vars PROVE AfterThrow'
  OBVIOUS
<1>1. ASSUME todo' = todo, astray' = astray \/ astray' PROVE AfterThrow'
  BY Zenon, <1>1 DEF AfterThrow
<1>2. CASE ReadLineWaits \/ GetMethod \/ GetHeader \/ HandlerReturns
  BY <1>1, <1>2 DEF ReadLineWaits, GetMethod, GetHeader, HandlerReturns
<1>3. ASSUME NEW p \in Pairs, \/ writeHead(p) \/ addHeader(p) \/ flushHeaders(p)
                             \/ writeBodyPart(p) \/ endWith(p) \/ end(p) \/ a_readBody(p)
      PROVE  AfterThrow'
  BY <1>1, <1>3 DEF writeHead, addHeader, flushHeaders, writeBodyPart, endWith, end, a_readBody
<1>4. ASSUME NEW timed \in BOOLEAN, a_request(timed) PROVE AfterThrow'
  BY <1>1, <1>4 DEF a_request
<1>5. CASE ReadEvent \/ RemoteEnd \/ ErrorClose \/ RequestTimesOut
  BY <1>1, <1>5 DEF ReadEvent, RemoteEnd, ErrorClose, RequestTimesOut
<1>6. CASE CloseEvent
  BY <1>6 DEF CloseEvent, AfterThrow
<1>7. CASE WriteThrows \/ EndGoesOn
  BY <1>7 DEF WriteThrows, EndGoesOn, AfterThrow
<1>8. CASE (\E l \in Lines : PeerSends(l)) \/ PeerEnds
  BY <1>1, <1>8 DEF PeerSends, PeerEnds
<1>9. CASE UNCHANGED vars
  BY <1>9 DEF vars, AfterThrow
<1> QED BY <1>2, <1>3, <1>4, <1>5, <1>6, <1>7, <1>8, <1>9 DEF Next, Run, User, Loop

(* Every step keeps Owned. *)
LEMMA OwnedNext == Typed /\ AfterThrow /\ Owned /\ [Next]_vars => Owned'
<1> SUFFICES ASSUME Typed, AfterThrow, Owned, [Next]_vars PROVE Owned'
  OBVIOUS
<1> DEFINE Before == /\ failed = "" /\ Clean(q, msg, job) /\ Busy(q, msg, job, held)
                     /\ Apart(q, job, held, run)
           After == /\ Clean(q', msg', job')
                    /\ failed' = "" => Busy(q', msg', job', held') /\ Apart(q', job', held', run')
<1>1. ASSUME astray' PROVE Owned'
  BY <1>1 DEF Owned
<1>2. ASSUME astray' = astray, failed = "", Before => After PROVE Owned'
  BY <1>2 DEF Owned, Clean, Busy, Apart
<1>pair. run.pair \in Pairs
  BY DEF Typed, Runs
<1>same. ASSUME Before, UNCHANGED <<q, msg, job, held>>,
                run' = run \/ run'.at \in {"handler", "continue", "ended"}
                  \/ (run.at \in {"read", "parse"} /\ run'.pair = run.pair)
         PROVE  After
  BY <1>same DEF Apart
<1> HIDE DEF Before, After
<1>3. CASE ReadLineWaits
  BY <1>2, <1>3, <1>same DEF ReadLineWaits, Typed, Runs
<1>4. CASE GetMethod
  <2>1. ASSUME Before PROVE After
    <3>1. run.at = "parse" /\ q.active[run.pair] /\ run.pair \notin held /\ job[run.pair] = "none"
      BY <1>4, <2>1 DEF GetMethod, Before, Apart
    <3>2. CASE UNCHANGED msg
      BY <1>4, <2>1, <3>1, <3>2, <1>same DEF GetMethod, RequestBad, Typed, Runs
    <3>3. CASE ~UNCHANGED msg
      <4>1. /\ msg' = [msg EXCEPT ![run.pair] = [msg[run.pair] EXCEPT !.req = "in_hdr"]]
            /\ run' = [run EXCEPT !.stage = "header"] /\ UNCHANGED <<q, job, held>>
        BY <1>4, <3>3 DEF GetMethod, RequestBad
      <4>2. Clean(q, msg', job) /\ Busy(q, msg', job, held)
        BY <1>pair, <2>1, <3>1, <4>1, MessageOwned DEF Before
      <4>3. Apart(q, job, held, run')
        BY <3>1, <4>1 DEF Apart, Typed, Runs
      <4> QED BY <4>1, <4>2, <4>3 DEF After
    <3> QED BY <3>2, <3>3
  <2> QED BY <1>2, <1>4, <2>1 DEF GetMethod
<1>5. CASE GetHeader
  <2>1. ASSUME Before PROVE After
    <3>1. run.at = "parse" /\ q.active[run.pair] /\ run.pair \notin held /\ job[run.pair] = "none"
      BY <1>5, <2>1 DEF GetHeader, Before, Apart
    <3>2. CASE ~(msg[run.pair].req = "in_hdr" /\ Head(conn.rb) = "empty")
      BY <1>5, <2>1, <3>1, <3>2, <1>same DEF GetHeader, RequestBad, Typed, Runs
    <3>3. CASE msg[run.pair].req = "in_hdr" /\ Head(conn.rb) = "empty"
      <4>1. /\ msg' = [msg EXCEPT ![run.pair] = [msg[run.pair] EXCEPT !.req = "completed"]]
            /\ run' = [run EXCEPT !.at = "handler"] /\ UNCHANGED <<q, job>>
            /\ onNewRequest
        BY <1>5, <3>3 DEF GetHeader, RequestBad
      <4>2. Clean(q, msg', job) /\ Busy(q, msg', job, held)
        BY <1>pair, <2>1, <3>1, <4>1, MessageOwned DEF Before
      <4>3. held' = held \/ held' = held \cup {run.pair}
        BY <4>1 DEF onNewRequest
      <4>4. msg'[run.pair].req = "completed"
        BY <1>pair, <4>1 DEF Typed, Messages
      <4>5. Busy(q, msg', job, held')
        BY <3>1, <4>2, <4>3, <4>4 DEF Busy
      <4>6. Apart(q, job, held', run')
        BY <4>1 DEF Apart, Typed, Runs
      <4> QED BY <4>1, <4>2, <4>5, <4>6 DEF After
    <3> QED BY <3>2, <3>3
  <2> QED BY <1>2, <1>5, <2>1 DEF GetHeader
<1>6. CASE HandlerReturns
  <2>1. ASSUME Before, canPush(q) PROVE After
    <3>1. /\ q' = getHead(q) /\ run'.pair = q.head % 2 ^ q.exp
          /\ UNCHANGED <<msg, job, held>>
      <4>1. NextPair(q) /\ UNCHANGED <<msg, job, held>>
        BY <1>6, <2>1 DEF HandlerReturns
      <4>2. /\ q' = getHead(q)
            /\ run' = [at |-> "parse", stage |-> "method", pair |-> q.head % Capacity]
        BY <2>1, <4>1 DEF NextPair
      <4> QED BY <4>1, <4>2 DEF Capacity
    <3>2. Ring(q)
      BY DEF Typed
    <3> QED BY <2>1, <3>1, <3>2, NextPairOwned DEF Before, After
  <2>2. ASSUME Before, ~canPush(q) PROVE After
    BY <1>6, <2>2, <1>same DEF HandlerReturns, Typed, Runs
  <2> QED BY <1>2, <1>6, <2>1, <2>2 DEF HandlerReturns
<1>7. ASSUME NEW p \in Pairs, writeHead(p) \/ addHeader(p) PROVE Owned'
  <2>1. ASSUME Before PROVE After
    <3>1. p \in held /\ UNCHANGED <<q, job, run, held>>
      BY <1>7 DEF writeHead, addHeader
    <3>2. q.active[p] /\ job[p] = "none"
      BY <2>1, <3>1 DEF Before, Busy, Pairs, Capacity
    <3>3. PICK m : msg' = [msg EXCEPT ![p] = m] /\ m.req = msg[p].req
      <4>1. CASE msg' = msg
        BY <4>1 DEF Typed
      <4>2. CASE ~(msg' = msg)
        BY <1>7, <4>2 DEF writeHead, addHeader, Typed, Messages
      <4> QED BY <4>1, <4>2
    <3>4. Clean(q, msg', job) /\ Busy(q, msg', job, held)
      BY ZenonT(60), <2>1, <3>1, <3>2, <3>3, MessageOwned DEF Before
    <3> QED BY <2>1, <3>1, <3>4 DEF Before, After
  <2> QED BY <1>2, <1>7, <2>1 DEF writeHead, addHeader, UserRuns
<1>m. ASSUME NEW p \in Pairs
      PROVE  /\ serializeHeaders(msg[p]) \in Messages
             /\ serializeHeaders(msg[p]).req = msg[p].req
  <2>1. msg[p] \in Messages
    BY DEF Typed
  <2> QED BY ZenonT(60), <2>1, MessageLemma DEF serializeHeaders, Messages
<1>8. ASSUME NEW p \in Pairs, flushHeaders(p) PROVE Owned'
  <2> DEFINE m == serializeHeaders(msg[p])
             ms == [m EXCEPT !.ws = "hdr_flushed"]
  <2>1. m \in Messages /\ m.req = msg[p].req /\ ms.req = msg[p].req
    BY <1>m DEF Messages
  <2> HIDE DEF m, ms
  <2>2. /\ p \in held /\ failed = "" /\ astray' = astray
        /\ \/ UNCHANGED <<q, msg, job, run, held>>
           \/ msg' = [msg EXCEPT ![p] = ms] /\ UNCHANGED <<q, run, held, job>>
           \/ Waits(p, "flushHeaders", m)
    BY <1>8 DEF flushHeaders, Writes, Stop, UserRuns, m, ms
  <2>3. ASSUME Before PROVE After
    <3>1. q.active[p] /\ job[p] = "none"
      BY <2>2, <2>3 DEF Before, Busy, Pairs, Capacity
    <3>2. CASE UNCHANGED <<q, msg, job, run, held>>
      BY <2>3, <3>2, <1>same
    <3>3. CASE msg' = [msg EXCEPT ![p] = ms] /\ UNCHANGED <<q, run, held, job>>
      <4>1. Clean(q, msg', job) /\ Busy(q, msg', job, held)
        BY ZenonT(60), <2>1, <2>3, <3>1, <3>3, MessageOwned DEF Before
      <4> QED BY <2>3, <3>3, <4>1 DEF Before, After
    <3>4. CASE Waits(p, "flushHeaders", m)
      BY <2>1, <2>2, <2>3, <3>4, WaitsOwned DEF Before, After, Jobs
    <3> QED BY <2>2, <3>2, <3>3, <3>4
  <2> QED BY <1>2, <2>2, <2>3
<1>9. ASSUME NEW p \in Pairs, writeBodyPart(p) PROVE Owned'
  <2> DEFINE m == serializeHeaders(msg[p])
             ms == [m EXCEPT !.ws = "in_body"]
  <2>1. m \in Messages /\ m.req = msg[p].req /\ ms.req = msg[p].req
    BY <1>m DEF Messages
  <2> HIDE DEF m, ms
  <2>2. /\ p \in held /\ failed = "" /\ astray' = astray
        /\ \/ UNCHANGED <<q, msg, job, run, held>>
           \/ msg' = [msg EXCEPT ![p] = ms] /\ UNCHANGED <<q, run, held, job>>
           \/ Waits(p, "writeBodyPart", m)
    BY <1>9 DEF writeBodyPart, Writes, Stop, UserRuns, m, ms
  <2>3. ASSUME Before PROVE After
    <3>1. q.active[p] /\ job[p] = "none"
      BY ZenonT(60), <2>2, <2>3 DEF Before, Busy, Pairs, Capacity
    <3>2. CASE UNCHANGED <<q, msg, job, run, held>>
      BY <2>3, <3>2, <1>same
    <3>3. CASE msg' = [msg EXCEPT ![p] = ms] /\ UNCHANGED <<q, run, held, job>>
      <4>1. Clean(q, msg', job) /\ Busy(q, msg', job, held)
        BY <2>1, <2>3, <3>1, <3>3, MessageOwned DEF Before
      <4> QED BY <2>3, <3>3, <4>1 DEF Before, After
    <3>4. CASE Waits(p, "writeBodyPart", m)
      BY <2>1, <2>2, <2>3, <3>4, WaitsOwned DEF Before, After, Jobs
    <3> QED BY <2>2, <3>2, <3>3, <3>4
  <2> QED BY <1>2, <2>2, <2>3
<1>10. ASSUME NEW p \in Pairs, endWith(p) \/ end(p) PROVE Owned'
  <2> DEFINE m == serializeHeaders(msg[p])
  <2>1. m \in Messages /\ m.req = msg[p].req
    BY SMTT(30), <1>m
  <2> HIDE DEF m
  <2>2. /\ p \in held /\ failed = "" /\ astray' = astray
        /\ \/ UNCHANGED <<q, msg, job, run, held>>
           \/ Finish(p, m) /\ held' = held \ {p} /\ UNCHANGED job
           \/ Waits(p, "end", m)
    BY <1>10 DEF endWith, end, Writes, Stop, UserRuns, m
  <2>3. ASSUME Before PROVE After
    <3>1. CASE UNCHANGED <<q, msg, job, run, held>>
      BY <2>3, <3>1, <1>same
    <3>2. CASE Finish(p, m) /\ held' = held \ {p} /\ UNCHANGED job
      BY ZenonT(60), <2>1, <2>2, <2>3, <3>2, FinishOwned DEF Before, After
    <3>3. CASE Waits(p, "end", m)
      BY <2>1, <2>2, <2>3, <3>3, WaitsOwned DEF Before, After, Jobs
    <3> QED BY ZenonT(60), <2>2, <3>1, <3>2, <3>3
  <2> QED BY <1>2, <2>2, <2>3
<1>11. ASSUME NEW p \in Pairs, a_readBody(p) PROVE Owned'
  <2>1. proceedToNext(q) /\ UNCHANGED <<msg, job, held>>
    BY <1>11 DEF a_readBody
  <2>2. ASSUME Before PROVE After
    BY <2>1, <2>2, ProceedOwned DEF Before, After, Typed
  <2> QED BY <1>2, <1>11, <2>2 DEF a_readBody, UserRuns
<1>12. ASSUME NEW timed \in BOOLEAN, a_request(timed) PROVE Owned'
  BY <1>2, <1>12, <1>same DEF a_request, UserRuns
<1>13. CASE ReadEvent \/ RemoteEnd \/ ErrorClose \/ CloseEvent
  <2>1. UNCHANGED <<q, msg, job, held>> /\ failed = "" /\ astray' = astray
    BY <1>13 DEF ReadEvent, RemoteEnd, ErrorClose, CloseEvent, Idle
  <2>2. run' = run \/ (run.at = "read" /\ run'.pair = run.pair)
    BY <1>13 DEF ReadEvent, RemoteEnd, ErrorClose, CloseEvent, Typed, Runs
  <2> QED BY <1>2, <2>1, <2>2, <1>same
<1>14. CASE RequestTimesOut \/ WriteThrows
  BY <1>1, <1>14 DEF RequestTimesOut, WriteThrows
<1>15. CASE EndGoesOn
  BY <1>1, <1>15 DEF EndGoesOn, AfterThrow
<1>16. CASE (\E l \in Lines : PeerSends(l)) \/ PeerEnds
  BY <1>2, <1>16, <1>same DEF PeerSends, PeerEnds
<1>17. CASE UNCHANGED vars
  BY <1>17 DEF vars, Owned
<1> QED BY <1>3, <1>4, <1>5, <1>6, <1>7, <1>8, <1>9, <1>10, <1>11, <1>12, <1>13, <1>14,
           <1>15, <1>16, <1>17
        DEF Next, Run, User, Loop

-----------------------------------------------------------------------------
(* The inductive invariant: the ring and the types, the two facts about    *)
(* run() and a write that throws, and who has which pair.                  *)
Inv == Typed /\ ContinuesWhenRoom /\ AfterThrow /\ Owned

(* The invariant holds at the start. *)
LEMMA InvInit == Init => Inv
<1> SUFFICES ASSUME Init PROVE Inv
  OBVIOUS
<1>1. Typed
  BY SMTT(30), TypedInit
<1>2. ContinuesWhenRoom /\ AfterThrow
  BY ZenonT(60) DEF Init, ContinuesWhenRoom, AfterThrow
<1>3. PICK e \in SizeExps :
        /\ q = getHead([exp |-> e, head |-> 0, tail |-> 0,
                        idx |-> [p \in 0 .. 2 ^ e - 1 |-> -1],
                        active |-> [p \in 0 .. 2 ^ e - 1 |-> FALSE]])
        /\ msg = [p \in 0 .. 2 ^ e - 1 |-> NewMessage]
        /\ job = [p \in 0 .. 2 ^ e - 1 |-> "none"]
  BY DEF Init
<1> DEFINE r == [exp |-> e, head |-> 0, tail |-> 0,
                 idx |-> [p \in 0 .. 2 ^ e - 1 |-> -1],
                 active |-> [p \in 0 .. 2 ^ e - 1 |-> FALSE]]
<1>4. 2 ^ e \in Nat \ {0}
  BY HttpAssumption
<1>5. Ring(r) /\ canPush(r) /\ r.exp = e /\ r.head = 0
  BY SMTT(30), <1>4 DEF Ring, canPush
<1>6. Clean(r, msg, job) /\ Busy(r, msg, job, held)
  BY <1>3 DEF Clean, Busy, Init
<1>7. run.pair = r.head % 2 ^ r.exp
  <2> DEFINE c == 2 ^ e
  <2>1. c \in Nat \ {0}
    BY <1>4
  <2> HIDE DEF c
  <2>2. 0 % c = 0
    BY SMTT(30), <2>1
  <2>3. run.pair = 0 /\ r.head = 0 /\ r.exp = e
    BY DEF Init
  <2> QED BY <2>2, <2>3 DEF c
<1> HIDE DEF r
<1>8. Clean(q, msg, job) /\ Busy(q, msg, job, held) /\ Apart(q, job, held, run)
  BY <1>3, <1>5, <1>6, <1>7, NextPairOwned DEF r
<1> QED BY <1>1, <1>2, <1>8 DEF Inv, Owned

(* Everything the server, the client and user code do preserves it.        *)
THEOREM Invariance == Spec => []Inv
<1>1. Init => Inv
  BY InvInit
<1>2. Inv /\ [Next]_vars => Inv'
  BY TypedNext, RoomNext, AfterThrowNext, OwnedNext DEF Inv
<1> QED BY <1>1, <1>2, PTL DEF Spec

(* The queue of a connection never holds more pairs than it has, and every *)
(* piece of state keeps its type.                                          *)
THEOREM TypeCorrect == Spec => []TypeOK
<1>1. Inv => TypeOK
  BY TypedImpliesTypeOK DEF Inv
<1> QED BY <1>1, Invariance, PTL

(* Pairs released out of order are given back with the oldest.             *)
THEOREM TailAlwaysActive == Spec => []TailIsActive
<1>1. Inv => TailIsActive
  BY TypedImpliesTypeOK DEF Inv
<1> QED BY <1>1, Invariance, PTL

(* A pair is reused without anything of the exchange before.               *)
THEOREM ReuseIsClean == Spec => []FreePairsAreClean
<1>1. Inv => FreePairsAreClean
  BY OwnedImplies DEF Inv
<1> QED BY <1>1, Invariance, PTL

(* run() does not touch a pair that user code holds.                       *)
THEOREM HeldStaysUntouched == Spec => []HeldUntouched
<1>1. Inv => HeldUntouched
  BY OwnedImplies DEF Inv
<1> QED BY <1>1, Invariance, PTL

(* run() does not wait while there is room.                                *)
THEOREM NoLostWakeUp == Spec => []ContinuesWhenRoom
<1>1. Inv => ContinuesWhenRoom
  BY DEF Inv
<1> QED BY <1>1, Invariance, PTL
=============================================================================
