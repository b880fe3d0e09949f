----------------------- MODULE TimeoutManagerProofs -----------------------
(* Proofs about TimeoutManager that hold for every set of delays, every    *)
(* integer width and every bound.                                          *)
EXTENDS TimeoutManager, SequenceTheorems, FiniteSetTheorems, TLAPS

-----------------------------------------------------------------------------
(* Facts about sequences. *)

(* InsertAt keeps the elements in order and puts the new one at i. *)
LEMMA InsertAtLemma ==
  ASSUME NEW S, NEW s \in Seq(S), NEW i \in 1 .. Len(s) + 1, NEW e \in S
  PROVE  /\ InsertAt(s, i, e) \in Seq(S)
         /\ Len(InsertAt(s, i, e)) = Len(s) + 1
         /\ \A j \in 1 .. Len(s) + 1 :
              InsertAt(s, i, e)[j] =
                IF j < i THEN s[j] ELSE IF j = i THEN e ELSE s[j - 1]
<1> DEFINE a == SubSeq(s, 1, i - 1)
           b == SubSeq(s, i, Len(s))
<1>1. Len(s) \in Nat
  BY LenProperties
<1>2. /\ a \in Seq(S) /\ Len(a) = i - 1
      /\ \A j \in 1 .. i - 1 : a[j] = s[j]
  BY <1>1, SubSeqProperties
<1>3. /\ b \in Seq(S) /\ Len(b) = Len(s) - i + 1
      /\ \A j \in 1 .. Len(s) - i + 1 : b[j] = s[i + j - 1]
  BY <1>1, SubSeqProperties
<1>4. /\ a \o <<e>> \in Seq(S) /\ Len(a \o <<e>>) = i
      /\ \A j \in 1 .. i : (a \o <<e>>)[j] = IF j < i THEN s[j] ELSE e
  BY <1>1, <1>2
<1>5. InsertAt(s, i, e) = (a \o <<e>>) \o b
  BY DEF InsertAt
<1> HIDE DEF a, b
<1>6. /\ (a \o <<e>>) \o b \in Seq(S)
      /\ Len((a \o <<e>>) \o b) = Len(s) + 1
      /\ \A j \in 1 .. Len(s) + 1 :
           ((a \o <<e>>) \o b)[j] =
             IF j <= i THEN (a \o <<e>>)[j] ELSE b[j - i]
  BY <1>1, <1>3, <1>4, ConcatProperties
<1> QED
  BY <1>1, <1>3, <1>4, <1>5, <1>6

(* RemoveAt leaves out the element at i only. *)
LEMMA RemoveAtLemma ==
  ASSUME NEW S, NEW s \in Seq(S), NEW i \in 1 .. Len(s)
  PROVE  /\ RemoveAt(s, i) \in Seq(S)
         /\ Len(RemoveAt(s, i)) = Len(s) - 1
         /\ \A j \in 1 .. Len(s) - 1 :
              RemoveAt(s, i)[j] = IF j < i THEN s[j] ELSE s[j + 1]
<1> DEFINE a == SubSeq(s, 1, i - 1)
           b == SubSeq(s, i + 1, Len(s))
<1>1. Len(s) \in Nat
  BY LenProperties
<1>2. /\ a \in Seq(S) /\ Len(a) = i - 1
      /\ \A j \in 1 .. i - 1 : a[j] = s[j]
  BY <1>1, SubSeqProperties
<1>3. /\ b \in Seq(S) /\ Len(b) = Len(s) - i
      /\ \A j \in 1 .. Len(s) - i : b[j] = s[i + j]
  BY <1>1, SubSeqProperties
<1>4. RemoveAt(s, i) = a \o b
  BY DEF RemoveAt
<1> HIDE DEF a, b
<1>5. /\ a \o b \in Seq(S)
      /\ Len(a \o b) = Len(a) + Len(b)
      /\ \A j \in 1 .. Len(a) + Len(b) :
           (a \o b)[j] = IF j <= Len(a) THEN a[j] ELSE b[j - Len(a)]
  BY Zenon, <1>2, <1>3, ConcatProperties
<1>6. /\ Len(a \o b) = Len(s) - 1
      /\ \A j \in 1 .. Len(s) - 1 :
           (a \o b)[j] = IF j <= i - 1 THEN a[j] ELSE b[j - (i - 1)]
  BY <1>1, <1>2, <1>3, <1>5
<1> QED
  BY <1>1, <1>2, <1>3, <1>4, <1>5, <1>6

(* UpperBound is a position of the sequence. *)
LEMMA UpperBoundLemma ==
  ASSUME NEW S, NEW q \in Seq(S), NEW t
  PROVE  UpperBound(q, t) \in 0 .. Len(q)
<1>1. Len(q) \in Nat /\ DOMAIN q = 1 .. Len(q)
  BY LenProperties
<1>2. /\ IsFiniteSet(1 .. Len(q))
      /\ Cardinality(1 .. Len(q)) = Len(q)
  BY <1>1, FS_Interval
<1>3. {i \in DOMAIN q : q[i].at <= t} \subseteq 1 .. Len(q)
  BY <1>1
<1>4. /\ IsFiniteSet({i \in DOMAIN q : q[i].at <= t})
      /\ Cardinality({i \in DOMAIN q : q[i].at <= t}) <= Len(q)
  BY <1>2, <1>3, FS_Subset
<1> QED
  BY <1>1, <1>4, FS_CardinalityType DEF UpperBound

-----------------------------------------------------------------------------
(* What scheduling and clearing do to the queue. *)

(* Insert adds exactly one entry, somewhere, and keeps all the others. *)
LEMMA InsertLemma ==
  ASSUME NEW q \in Seq(Due), NEW at \in 0 .. U64 - 1, NEW id \in Ids
  PROVE  /\ Insert(q, at, id) \in Seq(Due)
         /\ LET p == UpperBound(q, at) + 1
            IN
              /\ p \in 1 .. Len(q) + 1
              /\ DOMAIN Insert(q, at, id) = 1 .. Len(q) + 1
              /\ Insert(q, at, id)[p] = [at |-> at, id |-> id]
              /\ \A j \in 1 .. p - 1 : Insert(q, at, id)[j] = q[j]
              /\ \A j \in p + 1 .. Len(q) + 1 :
                   Insert(q, at, id)[j] = q[j - 1]
<1> DEFINE e == [at |-> at, id |-> id]
           p == UpperBound(q, at) + 1
<1>1. Len(q) \in Nat /\ p \in 1 .. Len(q) + 1
  BY UpperBoundLemma, LenProperties
<1>2. e \in Due
  BY DEF Due
<1>3. Insert(q, at, id) = InsertAt(q, p, e)
  BY DEF Insert
<1> HIDE DEF e, p
<1>4. /\ InsertAt(q, p, e) \in Seq(Due)
      /\ Len(InsertAt(q, p, e)) = Len(q) + 1
      /\ \A j \in 1 .. Len(q) + 1 :
           InsertAt(q, p, e)[j] =
             IF j < p THEN q[j] ELSE IF j = p THEN e ELSE q[j - 1]
  BY <1>1, <1>2, InsertAtLemma
<1>5. DOMAIN InsertAt(q, p, e) = 1 .. Len(q) + 1
  BY <1>4, LenProperties
<1>6. /\ InsertAt(q, p, e)[p] = e
      /\ \A j \in 1 .. p - 1 : InsertAt(q, p, e)[j] = q[j]
      /\ \A j \in p + 1 .. Len(q) + 1 : InsertAt(q, p, e)[j] = q[j - 1]
  BY <1>1, <1>4
<1> QED
  BY <1>1, <1>3, <1>4, <1>5, <1>6 DEF e, p

(* Scheduling a timer that has no entry keeps queue and timers in step. *)
LEMMA InsertMatches ==
  ASSUME NEW ts, NEW us, NEW q \in Seq(Due), NEW id \in Ids,
         NEW at \in 0 .. U64 - 1,
         Matches(ts, q),
         \A i \in DOMAIN q : q[i].id # id,
         DOMAIN us = DOMAIN ts \cup {id},
         \A j \in DOMAIN ts : j # id => us[j] = ts[j],
         us[id].active, us[id].nextTimeout = at
  PROVE  Matches(us, Insert(q, at, id))
<1> DEFINE r == Insert(q, at, id)
           p == UpperBound(q, at) + 1
<1>1. Len(q) \in Nat /\ DOMAIN q = 1 .. Len(q)
  BY LenProperties
<1>2. /\ p \in 1 .. Len(q) + 1
      /\ r \in Seq(Due)
      /\ DOMAIN r = 1 .. Len(q) + 1
      /\ r[p] = [at |-> at, id |-> id]
      /\ \A j \in 1 .. p - 1 : r[j] = q[j]
      /\ \A j \in p + 1 .. Len(q) + 1 : r[j] = q[j - 1]
  BY InsertLemma
<1> HIDE DEF r, p
<1> DEFINE old(j) == IF j < p THEN j ELSE j - 1
<1>3. /\ r[p].id = id /\ r[p].at = at
      /\ \A j \in DOMAIN r \ {p} : old(j) \in DOMAIN q /\ r[j] = q[old(j)]
      /\ \A i, j \in DOMAIN r \ {p} : old(i) = old(j) => i = j
  BY <1>1, <1>2
<1>4. \A i \in DOMAIN q : \E j \in DOMAIN r \ {p} : old(j) = i
  <2> TAKE i \in DOMAIN q
  <2>1. CASE i < p
    <3>1. i \in DOMAIN r \ {p}
      BY <1>1, <1>2, <2>1
    <3> WITNESS i \in DOMAIN r \ {p}
    <3> QED BY <1>1, <1>2, <2>1
  <2>2. CASE i >= p
    <3>1. i + 1 \in DOMAIN r \ {p}
      BY <1>1, <1>2, <2>2
    <3> WITNESS i + 1 \in DOMAIN r \ {p}
    <3> QED BY <1>1, <1>2, <2>2
  <2> QED BY <1>1, <1>2, <2>1, <2>2
<1> HIDE DEF old
<1>5. ASSUME NEW k \in DOMAIN us, us[k].active
      PROVE  Position(us, r, k) # {}
  <2>1. CASE k = id
    BY <1>2, <1>3, <2>1 DEF Position
  <2>2. CASE k # id
    <3>1. PICK i \in DOMAIN q : q[i].at = ts[k].nextTimeout /\ q[i].id = k
      BY <1>5, <2>2 DEF Matches, Position
    <3>2. PICK j \in DOMAIN r \ {p} : old(j) = i
      BY <1>4
    <3> QED BY <1>3, <2>2, <3>1, <3>2 DEF Position
  <2> QED BY <2>1, <2>2
<1>6. ASSUME NEW i \in DOMAIN r
      PROVE  /\ r[i].id \in DOMAIN us
             /\ us[r[i].id].active
             /\ us[r[i].id].nextTimeout = r[i].at
  <2>1. CASE i = p
    BY <1>3, <2>1
  <2>2. CASE i # p
    <3>1. old(i) \in DOMAIN q /\ r[i] = q[old(i)]
      BY <1>3, <2>2
    <3> QED BY <3>1 DEF Matches
  <2> QED BY <2>1, <2>2
<1>7. ASSUME NEW i \in DOMAIN r, NEW j \in DOMAIN r, r[i].id = r[j].id
      PROVE  i = j
  BY <1>3, <1>7 DEF Matches
<1> QED BY <1>5, <1>6, <1>7 DEF Matches, r

(* Clearing a timer takes its entry, and only that one, out of the queue. *)
LEMMA ClearMatches ==
  ASSUME NEW ts, NEW q \in Seq(Due), NEW id \in DOMAIN ts,
         ts \in [DOMAIN ts -> Entry], Matches(ts, q)
  PROVE  LET us == [ts EXCEPT ![id] = ClearedEntry(ts, q, id)]
             r  == ClearedQueue(ts, q, id)
         IN  /\ r \in Seq(Due)
             /\ Matches(us, r)
             /\ ClearedEntry(ts, q, id) = [ts[id] EXCEPT !.active = FALSE]
             /\ \A i \in DOMAIN r : r[i].id # id
<1> DEFINE us == [ts EXCEPT ![id] = ClearedEntry(ts, q, id)]
           r  == ClearedQueue(ts, q, id)
<1>1. Len(q) \in Nat /\ DOMAIN q = 1 .. Len(q) /\ ts[id] \in Entry
  BY LenProperties
<1>2. CASE ~ts[id].active
  <2>1. ClearedEntry(ts, q, id) = ts[id] /\ r = q
    BY <1>2 DEF ClearedEntry, ClearedQueue, FoundActive
  <2>2. ts[id] = [ts[id] EXCEPT !.active = FALSE]
    BY <1>1, <1>2 DEF Entry
  <2>3. us = ts
    BY <2>1
  <2>4. \A i \in DOMAIN q : q[i].id # id
    BY <1>2 DEF Matches
  <2> QED BY <2>1, <2>2, <2>3, <2>4
<1>3. CASE ts[id].active
  <2> DEFINE p == CHOOSE i \in Position(ts, q, id) : TRUE
  <2>1. FoundActive(ts, q, id) /\ p \in Position(ts, q, id)
    BY <1>3 DEF Matches, FoundActive
  <2>2. /\ r = RemoveAt(q, p)
        /\ ClearedEntry(ts, q, id) = [ts[id] EXCEPT !.active = FALSE]
    BY <2>1 DEF ClearedEntry, ClearedQueue
  <2>3. p \in 1 .. Len(q) /\ q[p].id = id
    BY <1>1, <2>1 DEF Position
  <2> HIDE DEF p
  <2>4. /\ RemoveAt(q, p) \in Seq(Due)
        /\ Len(RemoveAt(q, p)) = Len(q) - 1
        /\ \A j \in 1 .. Len(q) - 1 :
             RemoveAt(q, p)[j] = IF j < p THEN q[j] ELSE q[j + 1]
    BY <2>3, RemoveAtLemma
  <2>5. r \in Seq(Due) /\ DOMAIN r = 1 .. Len(q) - 1
    BY <2>2, <2>4, LenProperties
  <2>6. /\ DOMAIN us = DOMAIN ts
        /\ us[id] = [ts[id] EXCEPT !.active = FALSE]
        /\ \A k \in DOMAIN ts \ {id} : us[k] = ts[k]
    BY <2>2
  <2>7. ~us[id].active
    BY <1>1, <2>6 DEF Entry
  <2> DEFINE old(j) == IF j < p THEN j ELSE j + 1
  <2>8. /\ \A j \in DOMAIN r : old(j) \in DOMAIN q \ {p} /\ r[j] = q[old(j)]
        /\ \A i, j \in DOMAIN r : old(i) = old(j) => i = j
    BY <1>1, <2>2, <2>3, <2>4, <2>5
  <2>9. \A i \in DOMAIN q \ {p} : \E j \in DOMAIN r : old(j) = i
    <3> TAKE i \in DOMAIN q \ {p}
    <3>1. CASE i < p
      <4>1. i \in DOMAIN r
        BY <1>1, <2>3, <2>5, <3>1
      <4> WITNESS i \in DOMAIN r
      <4> QED BY <3>1
    <3>2. CASE i > p
      <4>1. i - 1 \in DOMAIN r
        BY <1>1, <2>3, <2>5, <3>2
      <4> WITNESS i - 1 \in DOMAIN r
      <4> QED BY <1>1, <2>3, <3>2
    <3> QED BY <1>1, <2>3, <3>1, <3>2
  <2> HIDE DEF old, us, r
  <2>10. \A i \in DOMAIN r : r[i].id # id
    BY <2>3, <2>8, <1>1 DEF Matches
  <2>11. ASSUME NEW k \in DOMAIN us, us[k].active
         PROVE  Position(us, r, k) # {}
    <3>1. k # id /\ k \in DOMAIN ts /\ us[k] = ts[k]
      BY Zenon, <2>6, <2>7, <2>11
    <3>2. PICK i \in DOMAIN q : q[i].at = ts[k].nextTimeout /\ q[i].id = k
      BY <2>11, <3>1 DEF Matches, Position
    <3>3. PICK j \in DOMAIN r : old(j) = i
      BY <2>3, <2>9, <3>1, <3>2
    <3> QED BY <2>8, <3>1, <3>2, <3>3 DEF Position
  <2>12. ASSUME NEW i \in DOMAIN r
         PROVE  /\ r[i].id \in DOMAIN us
                /\ us[r[i].id].active
                /\ us[r[i].id].nextTimeout = r[i].at
    <3>1. old(i) \in DOMAIN q /\ r[i] = q[old(i)] /\ r[i].id # id
      BY <2>8, <2>10
    <3> QED BY <2>6, <3>1 DEF Matches
  <2>13. ASSUME NEW i \in DOMAIN r, NEW j \in DOMAIN r, r[i].id = r[j].id
         PROVE  i = j
    BY <2>8, <2>13 DEF Matches
  <2>14. Matches(us, r)
    BY <2>11, <2>12, <2>13 DEF Matches
  <2> QED BY <2>2, <2>5, <2>10, <2>14 DEF us, r
<1> QED BY <1>2, <1>3

(* Facts about the width of the integers. *)
LEMMA ModRange ==
  ASSUME NEW a \in Int, NEW b \in Nat \ {0}
  PROVE  a % b \in 0 .. b - 1
OBVIOUS

(* A number below the modulus is its own remainder. *)
LEMMA ModSmall ==
  ASSUME NEW b \in Nat \ {0}, NEW a \in 0 .. b - 1
  PROVE  a % b = a
OBVIOUS

(* A delay is not negative when it is used. *)
LEMMA EffectiveMsType ==
  ASSUME NEW ms \in Int
  PROVE  EffectiveMs(ms) \in Nat
BY ConstantsAssumption DEF EffectiveMs

(* Whatever the overflow gives, the stored delay fits 64 bits. *)
LEMMA DelayType ==
  ASSUME NEW n \in Nat, NEW d \in DelayOutcomes(n)
  PROVE  d \in 0 .. U64 - 1
<1>1. n * Ms \in Nat
  BY ConstantsAssumption
<1>2. 2 * (INT_MAX + 1) \in Nat \ {0} /\ n * Ms + INT_MAX + 1 \in Int
  BY <1>1, ConstantsAssumption
<1>3. (n * Ms + INT_MAX + 1) % (2 * (INT_MAX + 1)) \in Int
  BY <1>2, ModRange
<1>4. Wrapped(n * Ms) \in Int
  BY <1>3, ConstantsAssumption DEF Wrapped
<1> QED
  BY <1>1, <1>4, ModRange, ConstantsAssumption DEF DelayOutcomes

(* A product that fits int32_t is not changed by the conversions. *)
LEMMA DelayExact ==
  ASSUME NEW n \in Nat, NEW d \in DelayOutcomes(n), n * Ms <= INT_MAX
  PROVE  d = n * Ms
<1> DEFINE x == n * Ms
<1>1. x \in Nat /\ x <= INT_MAX /\ INT_MAX \in Nat
  BY ConstantsAssumption
<1> HIDE DEF x
<1>2. (x + INT_MAX + 1) % (2 * (INT_MAX + 1)) = x + INT_MAX + 1
  <2>1. 2 * (INT_MAX + 1) \in Nat \ {0}
    BY <1>1
  <2>2. x + INT_MAX + 1 \in 0 .. 2 * (INT_MAX + 1) - 1
    BY <1>1
  <2> QED BY <2>1, <2>2, ModSmall
<1>3. Wrapped(x) = x
  BY <1>1, <1>2 DEF Wrapped
<1>4. x % U64 = x
  BY <1>1, ModSmall, ConstantsAssumption
<1> QED
  BY <1>3, <1>4 DEF DelayOutcomes, x

(* A scheduled entry is well formed, active and due after its delay. *)
LEMMA ArmedLemma ==
  ASSUME NEW e \in Entry, NEW now \in 0 .. MaxClock
  PROVE  /\ Armed(e, now) \in Entry
         /\ Armed(e, now).active
         /\ Armed(e, now).ms = e.ms
         /\ Armed(e, now).delay = e.delay
         /\ Armed(e, now).lastSchedule = now
         /\ Armed(e, now).nextTimeout = (now + e.delay) % U64
         /\ Armed(e, now).handleDestroyed = e.handleDestroyed
<1>1. now + e.delay \in Int
  BY ConstantsAssumption DEF Entry
<1>2. (now + e.delay) % U64 \in 0 .. U64 - 1
  BY Zenon, <1>1, ModRange, ConstantsAssumption
<1> DEFINE n == (now + e.delay) % U64
<1>3. n \in 0 .. U64 - 1 /\ now \in Nat
  BY <1>2, ConstantsAssumption
<1>4. Armed(e, now) = [e EXCEPT !.lastSchedule = now, !.nextTimeout = n,
                                !.active = TRUE]
  BY DEF Armed
<1> HIDE DEF n
<1>5. Armed(e, now) =
        [ms |-> e.ms, delay |-> e.delay, lastSchedule |-> now,
         nextTimeout |-> n, handleDestroyed |-> e.handleDestroyed,
         active |-> TRUE]
  BY Zenon, <1>4 DEF Entry
<1>6. Armed(e, now) \in Entry
  BY <1>3, <1>5 DEF Entry
<1> QED
  BY <1>5, <1>6 DEF n

-----------------------------------------------------------------------------
(* Types, queue and handles are kept together: collecting a batch is well  *)
(* typed only because every queued id has an entry, and clearing leaves no *)
(* active entry behind only because the queue holds it.                    *)
Consistent == TypeOK /\ QueueMatchesTimers /\ NoLeakedEntry

(* No timer, empty queue: Consistent. *)
LEMMA InitConsistent == Init => Consistent
BY ConstantsAssumption
   DEF Init, Consistent, TypeOK, QueueMatchesTimers, Matches, NoLeakedEntry,
       Ids, Position

(* setTimeout keeps Consistent. *)
LEMMA SetTimeoutConsistent ==
  ASSUME Consistent, NEW ms \in Delays, setTimeout(ms)
  PROVE  Consistent'
<1> DEFINE id == lastId + 1
<1>1. PICK delay \in DelayOutcomes(EffectiveMs(ms)) :
        LET e == Armed([ms |-> ms, delay |-> delay, lastSchedule |-> 0,
                        nextTimeout |-> 0, handleDestroyed |-> FALSE,
                        active |-> FALSE], clock)
        IN  /\ lastId' = id
            /\ timers' = [i \in DOMAIN timers \cup {id} |->
                            IF i = id THEN e ELSE timers[i]]
            /\ nextTimeouts' = Insert(nextTimeouts, e.nextTimeout, id)
            /\ held' = held \cup {id}
            /\ armings' = [armings EXCEPT ![id] = 1]
  BY Zenon DEF setTimeout, NewId
<1> DEFINE fresh == [ms |-> ms, delay |-> delay, lastSchedule |-> 0,
                     nextTimeout |-> 0, handleDestroyed |-> FALSE,
                     active |-> FALSE]
           e == Armed(fresh, clock)
<1>2. /\ lastId \in 0 .. MaxTimers /\ lastId < MaxTimers
      /\ clock \in 0 .. MaxClock
      /\ UNCHANGED <<clock, handlers, userRuns, cleared, firings>>
  BY DEF Consistent, TypeOK, setTimeout
<1>3. id \in Ids /\ id \in Nat /\ id \notin 1 .. lastId
  BY <1>2, ConstantsAssumption DEF Ids
<1>4. ms \in Int /\ delay \in 0 .. U64 - 1
  BY EffectiveMsType, DelayType, ConstantsAssumption
<1>5. fresh \in Entry /\ ~fresh.handleDestroyed
  BY <1>4, ConstantsAssumption DEF Entry
<1> HIDE DEF fresh
<1>6. /\ e \in Entry /\ e.active /\ ~e.handleDestroyed
      /\ e.nextTimeout \in 0 .. U64 - 1
  <2>1. e \in Entry /\ e.active /\ e.handleDestroyed = fresh.handleDestroyed
    BY <1>2, <1>5, ArmedLemma
  <2> QED BY <1>5, <2>1 DEF Entry
<1>7. /\ lastId' = id
      /\ timers' = [i \in DOMAIN timers \cup {id} |->
                       IF i = id THEN e ELSE timers[i]]
      /\ nextTimeouts' = Insert(nextTimeouts, e.nextTimeout, id)
      /\ held' = held \cup {id}
      /\ armings' = [armings EXCEPT ![id] = 1]
  BY <1>1 DEF fresh
<1> HIDE DEF e, id
<1>8. /\ DOMAIN timers' = DOMAIN timers \cup {id}
      /\ timers'[id] = e
      /\ \A j \in DOMAIN timers : j # id => timers'[j] = timers[j]
      /\ id \notin DOMAIN timers
  BY <1>3, <1>7 DEF Consistent, TypeOK
<1>9. nextTimeouts' \in Seq(Due)
  BY Zenon, <1>3, <1>6, <1>7, InsertLemma DEF Consistent, TypeOK
<1>10. 1 .. lastId' = (1 .. lastId) \cup {id} /\ lastId' \in 0 .. MaxTimers
  BY <1>2, <1>7, ConstantsAssumption DEF id
<1>11. timers' \in [DOMAIN timers' -> Entry]
  BY <1>6, <1>7, <1>8 DEF Consistent, TypeOK
<1>12. TypeOK'
  BY <1>2, <1>3, <1>7, <1>8, <1>9, <1>10, <1>11 DEF Consistent, TypeOK
<1>13. QueueMatchesTimers'
  <2>1. \A i \in DOMAIN nextTimeouts : nextTimeouts[i].id # id
    BY <1>8 DEF Consistent, QueueMatchesTimers, Matches
  <2>2. timers'[id].active /\ timers'[id].nextTimeout = e.nextTimeout
    BY <1>6, <1>8
  <2>3. Matches(timers', Insert(nextTimeouts, e.nextTimeout, id))
    BY Zenon, <1>3, <1>6, <1>8, <2>1, <2>2, InsertMatches
       DEF Consistent, TypeOK, QueueMatchesTimers
  <2> QED BY <1>7, <2>3 DEF QueueMatchesTimers
<1>14. NoLeakedEntry'
  BY <1>6, <1>7, <1>8 DEF Consistent, NoLeakedEntry
<1> QED BY <1>12, <1>13, <1>14 DEF Consistent

(* refreshTimeout keeps Consistent. *)
LEMMA RefreshConsistent ==
  ASSUME Consistent, NEW id \in Ids, refreshTimeout(id)
  PROVE  Consistent'
<1> DEFINE c == ClearedEntry(timers, nextTimeouts, id)
           ts == [timers EXCEPT ![id] = c]
           q == ClearedQueue(timers, nextTimeouts, id)
           e == Armed(c, clock)
<1>1. /\ id \in held /\ id \in DOMAIN timers
      /\ timers' = [timers EXCEPT ![id] = e]
      /\ nextTimeouts' = Insert(q, e.nextTimeout, id)
      /\ armings' = [armings EXCEPT ![id] = @ + 1]
      /\ UNCHANGED <<clock, lastId, handlers, userRuns, held, cleared, firings>>
  BY DEF refreshTimeout
<1>2. /\ timers \in [DOMAIN timers -> Entry]
      /\ clock \in 0 .. MaxClock
      /\ timers[id] \in Entry
  BY <1>1 DEF Consistent, TypeOK
<1>3. /\ q \in Seq(Due) /\ Matches(ts, q)
      /\ c = [timers[id] EXCEPT !.active = FALSE]
      /\ \A i \in DOMAIN q : q[i].id # id
  BY Zenon, <1>1, <1>2, ClearMatches DEF Consistent, TypeOK, QueueMatchesTimers
<1>4. c \in Entry /\ c.handleDestroyed = timers[id].handleDestroyed
  BY Zenon, <1>2, <1>3 DEF Entry
<1>5. DOMAIN ts = DOMAIN timers /\ \A j \in DOMAIN timers \ {id} : ts[j] = timers[j]
  OBVIOUS
<1> HIDE DEF c, q, ts
<1>6. /\ e \in Entry /\ e.active
      /\ e.handleDestroyed = timers[id].handleDestroyed
      /\ e.nextTimeout \in 0 .. U64 - 1
  <2>1. e \in Entry /\ e.active /\ e.handleDestroyed = c.handleDestroyed
    BY <1>2, <1>4, ArmedLemma
  <2> QED BY <1>4, <2>1 DEF Entry
<1> HIDE DEF e
<1>7. /\ DOMAIN timers' = DOMAIN timers /\ timers'[id] = e
      /\ \A j \in DOMAIN timers \ {id} : timers'[j] = timers[j]
  BY <1>1
<1>8. TypeOK'
  <2>1. nextTimeouts' \in Seq(Due)
    BY <1>1, <1>3, <1>6, InsertLemma
  <2>2. timers' \in [DOMAIN timers' -> Entry]
    BY <1>1, <1>2, <1>6
  <2> QED BY <1>1, <1>7, <2>1, <2>2 DEF Consistent, TypeOK
<1>9. QueueMatchesTimers'
  <2>1. /\ DOMAIN timers' = DOMAIN ts \cup {id}
        /\ \A j \in DOMAIN ts : j # id => timers'[j] = ts[j]
    BY <1>1, <1>5, <1>7
  <2>2. Matches(timers', Insert(q, e.nextTimeout, id))
    BY <1>3, <1>6, <1>7, <2>1, InsertMatches
  <2> QED BY <1>1, <2>2 DEF QueueMatchesTimers
<1>10. NoLeakedEntry'
  BY <1>1, <1>6, <1>7 DEF Consistent, NoLeakedEntry
<1> QED BY <1>8, <1>9, <1>10 DEF Consistent

(* Destroying a handle removes an entry that is not in the queue, or marks *)
(* one that stays.                                                         *)
LEMMA DestroyedLemma ==
  ASSUME NEW ts, NEW id, NEW q \in Seq(Due), ts \in [DOMAIN ts -> Entry],
         Matches(ts, q)
  PROVE  LET us == Destroyed(ts, id)
         IN  /\ DOMAIN us \subseteq DOMAIN ts
             /\ us \in [DOMAIN us -> Entry]
             /\ \A j \in DOMAIN us : j # id => us[j] = ts[j]
             /\ id \in DOMAIN us => us[id].active /\ us[id].handleDestroyed
             /\ (id \in DOMAIN ts /\ ~ts[id].active) => id \notin DOMAIN us
             /\ Matches(us, q)
<1>1. CASE id \notin DOMAIN ts
  BY <1>1 DEF Destroyed
<1>2. CASE id \in DOMAIN ts /\ ts[id].active
  <2>1. Destroyed(ts, id) = [ts EXCEPT ![id].handleDestroyed = TRUE]
    BY <1>2 DEF Destroyed
  <2> DEFINE us == [ts EXCEPT ![id].handleDestroyed = TRUE]
  <2>2. /\ DOMAIN us = DOMAIN ts
        /\ us[id] = [ts[id] EXCEPT !.handleDestroyed = TRUE]
        /\ \A j \in DOMAIN ts \ {id} : us[j] = ts[j]
    BY <1>2
  <2>3. /\ us[id] \in Entry /\ us[id].active /\ us[id].handleDestroyed
        /\ us[id].nextTimeout = ts[id].nextTimeout
    BY <1>2, <2>2 DEF Entry
  <2>4. us \in [DOMAIN us -> Entry]
    BY <1>2, <2>2, <2>3
  <2> HIDE DEF us
  <2>5. \A j \in DOMAIN us : us[j].nextTimeout = ts[j].nextTimeout
    BY <1>2, <2>2, <2>3
  <2>6. Matches(us, q)
    <3>1. \A j \in DOMAIN us : Position(us, q, j) = Position(ts, q, j)
      BY <2>5 DEF Position
    <3>2. ASSUME NEW j \in DOMAIN us, us[j].active
          PROVE  Position(us, q, j) # {}
      <4>1. ts[j].active
        BY <1>2, <2>2, <3>2
      <4> QED BY <2>2, <3>1, <4>1 DEF Matches
    <3>3. ASSUME NEW i \in DOMAIN q
          PROVE  /\ q[i].id \in DOMAIN us
                 /\ us[q[i].id].active
                 /\ us[q[i].id].nextTimeout = q[i].at
      BY <2>2, <2>3, <2>5 DEF Matches
    <3> QED BY <3>2, <3>3 DEF Matches
  <2> QED BY <1>2, <2>1, <2>2, <2>3, <2>4, <2>6 DEF us
<1>3. CASE id \in DOMAIN ts /\ ~ts[id].active
  <2> DEFINE us == [i \in DOMAIN ts \ {id} |-> ts[i]]
  <2>1. Destroyed(ts, id) = us
    BY <1>3 DEF Destroyed
  <2>2. DOMAIN us = DOMAIN ts \ {id} /\ \A j \in DOMAIN us : us[j] = ts[j]
    OBVIOUS
  <2>3. us \in [DOMAIN us -> Entry]
    OBVIOUS
  <2> HIDE DEF us
  <2>4. \A i \in DOMAIN q : q[i].id \in DOMAIN us
    BY <1>3, <2>2 DEF Matches
  <2>5. \A j \in DOMAIN us : Position(us, q, j) = Position(ts, q, j)
    BY <2>2 DEF Position
  <2>6. \A j \in DOMAIN us : us[j].active => Position(us, q, j) # {}
    BY <2>2, <2>5 DEF Matches
  <2>7. Matches(us, q)
    BY <2>2, <2>4, <2>6 DEF Matches
  <2> QED BY <1>3, <2>1, <2>2, <2>3, <2>7
<1> QED BY <1>1, <1>2, <1>3

(* clearTimeout keeps Consistent. *)
LEMMA ClearConsistent ==
  ASSUME Consistent, NEW id \in Ids, clearTimeout(id)
  PROVE  Consistent' /\ id \notin DOMAIN timers'
<1>1. /\ id \in held /\ cleared' = cleared \cup {id}
      /\ UNCHANGED <<clock, lastId, handlers, userRuns, held, armings, firings>>
  BY DEF clearTimeout
<1>2. CASE id \notin DOMAIN timers
  <2>1. UNCHANGED <<nextTimeouts, timers>>
    BY <1>2 DEF clearTimeout
  <2> QED BY <1>1, <1>2, <2>1
          DEF Consistent, TypeOK, QueueMatchesTimers, Matches, Position,
              NoLeakedEntry
<1>3. CASE id \in DOMAIN timers
  <2> DEFINE c == ClearedEntry(timers, nextTimeouts, id)
             ts == [timers EXCEPT ![id] = c]
             q == ClearedQueue(timers, nextTimeouts, id)
  <2>1. nextTimeouts' = q /\ timers' = Destroyed(ts, id)
    BY <1>3 DEF clearTimeout
  <2>2. /\ timers \in [DOMAIN timers -> Entry] /\ timers[id] \in Entry
    BY <1>3 DEF Consistent, TypeOK
  <2>3. /\ q \in Seq(Due) /\ Matches(ts, q)
        /\ c = [timers[id] EXCEPT !.active = FALSE]
    BY <1>3, <2>2, ClearMatches DEF Consistent, TypeOK, QueueMatchesTimers
  <2>4. c \in Entry /\ ~c.active
    BY <2>2, <2>3 DEF Entry
  <2> HIDE DEF c, q
  <2>5. /\ DOMAIN ts = DOMAIN timers /\ ts[id] = c
        /\ ts \in [DOMAIN ts -> Entry]
        /\ \A j \in DOMAIN timers \ {id} : ts[j] = timers[j]
    BY <1>3, <2>2, <2>4
  <2> HIDE DEF ts
  <2>6. /\ DOMAIN timers' \subseteq DOMAIN timers
        /\ timers' \in [DOMAIN timers' -> Entry]
        /\ \A j \in DOMAIN timers' : j # id => timers'[j] = ts[j]
        /\ id \notin DOMAIN timers'
        /\ Matches(timers', q)
    <3>1. id \in DOMAIN ts /\ ~ts[id].active
      BY <1>3, <2>4, <2>5
    <3>2. LET us == Destroyed(ts, id)
          IN  /\ DOMAIN us \subseteq DOMAIN ts
              /\ us \in [DOMAIN us -> Entry]
              /\ \A j \in DOMAIN us : j # id => us[j] = ts[j]
              /\ id \notin DOMAIN us
              /\ Matches(us, q)
      BY <2>3, <2>5, <3>1, DestroyedLemma
    <3> QED BY <2>1, <2>5, <3>2
  <2>7. TypeOK'
    <3>1. id \in 1 .. lastId
      BY <1>1 DEF Consistent, TypeOK
    <3> QED BY <1>1, <2>1, <2>3, <2>6, <3>1 DEF Consistent, TypeOK
  <2>8. QueueMatchesTimers'
    BY <2>1, <2>6 DEF QueueMatchesTimers
  <2>9. NoLeakedEntry'
    BY <1>1, <2>5, <2>6 DEF Consistent, NoLeakedEntry
  <2> QED BY <2>6, <2>7, <2>8, <2>9 DEF Consistent
<1> QED BY <1>2, <1>3

(* So does dropping a handle. *)
LEMMA DropConsistent ==
  ASSUME Consistent, NEW id \in Ids, dropTimeout(id)
  PROVE  Consistent'
<1>1. /\ id \in held /\ held' = held \ {id}
      /\ timers' = Destroyed(timers, id)
      /\ UNCHANGED <<clock, lastId, nextTimeouts, handlers, userRuns, cleared,
                     armings, firings>>
  BY DEF dropTimeout
<1>2. /\ DOMAIN timers' \subseteq DOMAIN timers
      /\ timers' \in [DOMAIN timers' -> Entry]
      /\ \A j \in DOMAIN timers' : j # id => timers'[j] = timers[j]
      /\ id \in DOMAIN timers' =>
           timers'[id].active /\ timers'[id].handleDestroyed
      /\ Matches(timers', nextTimeouts)
  BY <1>1, DestroyedLemma DEF Consistent, TypeOK, QueueMatchesTimers
<1>3. TypeOK'
  BY <1>1, <1>2 DEF Consistent, TypeOK
<1>4. QueueMatchesTimers'
  BY <1>1, <1>2 DEF QueueMatchesTimers
<1>5. NoLeakedEntry'
  BY <1>1, <1>2 DEF Consistent, NoLeakedEntry
<1> QED BY <1>3, <1>4, <1>5 DEF Consistent

(* The batch: what infraTimeoutEvents takes from the queue. *)
LEMMA CollectConsistent ==
  ASSUME Consistent, infraTimeoutEvents
  PROVE  Consistent'
<1> DEFINE k == UpperBound(nextTimeouts, clock)
           n == Len(nextTimeouts)
           ids == {nextTimeouts[i].id : i \in 1 .. k}
           kept == {j \in DOMAIN timers :
                      ~(j \in ids /\ timers[j].handleDestroyed)}
<1>1. /\ handlers' = [i \in 1 .. k |->
                        [id |-> nextTimeouts[i].id,
                         ms |-> timers[nextTimeouts[i].id].ms,
                         since |-> timers[nextTimeouts[i].id].lastSchedule]]
      /\ timers' = [id \in kept |-> IF id \in ids THEN Fired(timers[id])
                                                 ELSE timers[id]]
      /\ nextTimeouts' = Rest(nextTimeouts, k)
      /\ userRuns' = FALSE
      /\ UNCHANGED <<clock, lastId, held, cleared, armings, firings>>
  BY DEF infraTimeoutEvents
<1>2. /\ nextTimeouts \in Seq(Due)
      /\ n \in Nat /\ DOMAIN nextTimeouts = 1 .. n
      /\ k \in 0 .. n
  BY UpperBoundLemma, LenProperties DEF Consistent, TypeOK
<1> HIDE DEF k, n
<1>3. \A i \in 1 .. n : nextTimeouts[i] \in Due
  BY <1>2
<1>4. \A i \in 1 .. k : /\ nextTimeouts[i].id \in Ids
                        /\ nextTimeouts[i].id \in DOMAIN timers
                        /\ timers[nextTimeouts[i].id] \in Entry
  <2> TAKE i \in 1 .. k
  <2>1. i \in 1 .. n
    BY <1>2
  <2>2. nextTimeouts[i].id \in Ids
    BY <1>3, <2>1 DEF Due
  <2>3. nextTimeouts[i].id \in DOMAIN timers
    BY <1>2, <2>1 DEF Consistent, QueueMatchesTimers, Matches
  <2> QED BY <2>2, <2>3 DEF Consistent, TypeOK
<1>5. handlers' \in Seq(Handler)
  <2>1. \A i \in 1 .. k :
          [id |-> nextTimeouts[i].id, ms |-> timers[nextTimeouts[i].id].ms,
           since |-> timers[nextTimeouts[i].id].lastSchedule] \in Handler
    BY <1>4 DEF Handler, Entry
  <2>2. handlers' \in [1 .. k -> Handler] /\ k \in Nat
    BY <1>1, <1>2, <2>1
  <2> QED BY <2>2
<1>6. /\ nextTimeouts' \in Seq(Due)
      /\ DOMAIN nextTimeouts' = 1 .. n - k
      /\ \A i \in 1 .. n - k : nextTimeouts'[i] = nextTimeouts[k + i]
  <2>1. nextTimeouts' = SubSeq(nextTimeouts, k + 1, n)
    BY <1>1 DEF Rest, n
  <2>2. /\ nextTimeouts' \in Seq(Due)
        /\ Len(nextTimeouts') = IF k + 1 <= n THEN n - (k + 1) + 1 ELSE 0
        /\ \A i \in 1 .. n - (k + 1) + 1 :
             nextTimeouts'[i] = nextTimeouts[k + 1 + i - 1]
    <3>1. \A i \in k + 1 .. n : nextTimeouts[i] \in Due
      BY <1>2, <1>3
    <3>2. k + 1 \in Int /\ n \in Int
      BY <1>2
    <3> QED BY <2>1, <3>1, <3>2, SubSeqProperties
  <2>3. Len(nextTimeouts') = n - k
    BY <1>2, <2>2
  <2>4. DOMAIN nextTimeouts' = 1 .. n - k
    BY <2>2, <2>3, LenProperties
  <2> QED BY <1>2, <2>2, <2>4
<1>7. \A j \in DOMAIN timers' :
        /\ j \in DOMAIN timers
        /\ timers'[j] \in Entry
        /\ timers'[j].nextTimeout = timers[j].nextTimeout
        /\ timers'[j].handleDestroyed = timers[j].handleDestroyed
        /\ timers'[j].active <=> timers[j].active /\ j \notin ids
        /\ j \in ids => ~timers[j].handleDestroyed
  <2> TAKE j \in DOMAIN timers'
  <2>1. j \in kept /\ j \in DOMAIN timers /\ timers[j] \in Entry
    BY <1>1 DEF Consistent, TypeOK
  <2>2. j \in ids => ~timers[j].handleDestroyed
    BY <2>1
  <2> HIDE DEF ids, kept
  <2>3. CASE j \in ids
    <3>1. timers'[j] = [timers[j] EXCEPT !.active = FALSE]
      BY <1>1, <2>1, <2>3 DEF Fired
    <3> QED BY <2>1, <2>2, <2>3, <3>1 DEF Entry
  <2>4. CASE j \notin ids
    <3>1. timers'[j] = timers[j]
      BY <1>1, <2>1, <2>4
    <3> QED BY <2>1, <2>4, <3>1
  <2> QED BY <2>3, <2>4
<1>8. TypeOK'
  <2>1. timers' \in [DOMAIN timers' -> Entry]
    BY <1>1, <1>7
  <2>2. DOMAIN timers' \subseteq 1 .. lastId
    BY <1>7 DEF Consistent, TypeOK
  <2> QED BY <1>1, <1>5, <1>6, <2>1, <2>2 DEF Consistent, TypeOK
<1>9. \A i \in 1 .. n - k : /\ k + i \in 1 .. n
                           /\ nextTimeouts'[i] = nextTimeouts[k + i]
                           /\ nextTimeouts[k + i].id \notin ids
  <2> TAKE i \in 1 .. n - k
  <2>1. k + i \in 1 .. n /\ \A j \in 1 .. k : j # k + i /\ j \in 1 .. n
    BY <1>2
  <2>2. \A j \in 1 .. k : nextTimeouts[j].id # nextTimeouts[k + i].id
    BY <1>2, <2>1 DEF Consistent, QueueMatchesTimers, Matches
  <2> QED BY <1>6, <2>1, <2>2
<1>10. kept = DOMAIN timers'
  BY <1>1
<1>11. QueueMatchesTimers'
  <2>1. ASSUME NEW j \in DOMAIN timers', timers'[j].active
        PROVE  Position(timers', nextTimeouts', j) # {}
    <3>1. /\ j \in DOMAIN timers /\ timers[j].active /\ j \notin ids
          /\ timers'[j].nextTimeout = timers[j].nextTimeout
      BY <1>7, <2>1
    <3>2. PICK i \in 1 .. n :
            nextTimeouts[i].at = timers[j].nextTimeout /\ nextTimeouts[i].id = j
      BY <1>2, <3>1 DEF Consistent, QueueMatchesTimers, Matches, Position
    <3>3. i \notin 1 .. k
      BY <3>1, <3>2
    <3>4. i - k \in 1 .. n - k /\ k + (i - k) = i
      BY <1>2, <3>3
    <3>5. nextTimeouts'[i - k] = nextTimeouts[i]
      BY <1>6, <3>4
    <3> QED BY <1>6, <3>1, <3>2, <3>4, <3>5 DEF Position
  <2>2. ASSUME NEW i \in DOMAIN nextTimeouts'
        PROVE  /\ nextTimeouts'[i].id \in DOMAIN timers'
               /\ timers'[nextTimeouts'[i].id].active
               /\ timers'[nextTimeouts'[i].id].nextTimeout
                    = nextTimeouts'[i].at
    <3>1. /\ k + i \in DOMAIN nextTimeouts
          /\ nextTimeouts'[i] = nextTimeouts[k + i]
          /\ nextTimeouts[k + i].id \notin ids
      BY <1>2, <1>6, <1>9
    <3> DEFINE d == nextTimeouts[k + i]
    <3>2. d.id \in DOMAIN timers /\ timers[d.id].active
          /\ timers[d.id].nextTimeout = d.at
      BY <3>1 DEF Consistent, QueueMatchesTimers, Matches
    <3>3. d.id \in DOMAIN timers'
      BY <1>10, <3>1, <3>2
    <3> HIDE DEF d, ids
    <3> QED BY <1>7, <3>1, <3>2, <3>3 DEF d
  <2>3. ASSUME NEW i \in DOMAIN nextTimeouts', NEW j \in DOMAIN nextTimeouts',
               nextTimeouts'[i].id = nextTimeouts'[j].id
        PROVE  i = j
    <3>1. /\ i \in 1 .. n - k /\ j \in 1 .. n - k
          /\ k + i \in DOMAIN nextTimeouts /\ k + j \in DOMAIN nextTimeouts
          /\ nextTimeouts[k + i].id = nextTimeouts[k + j].id
      BY <1>2, <1>6, <1>9, <2>3
    <3>2. k + i = k + j
      BY <3>1 DEF Consistent, QueueMatchesTimers, Matches
    <3> QED BY <1>2, <3>1, <3>2
  <2> QED BY <2>1, <2>2, <2>3 DEF QueueMatchesTimers, Matches
<1>12. NoLeakedEntry'
  <2> HIDE DEF ids, kept
  <2> QED BY <1>1, <1>7 DEF Consistent, NoLeakedEntry
<1> QED BY <1>8, <1>11, <1>12 DEF Consistent

(* So do the remaining steps. *)
LEMMA OtherConsistent ==
  ASSUME Consistent, runHandler \/ tick \/ UNCHANGED vars
  PROVE  Consistent'
<1>1. CASE runHandler
  <2>1. TypeOK'
    <3>1. handlers \in Seq(Handler) /\ handlers # <<>>
      BY <1>1 DEF Consistent, TypeOK, runHandler
    <3>2. Head(handlers) \in Handler /\ Tail(handlers) \in Seq(Handler)
      BY <3>1, HeadTailProperties
    <3>3. Head(handlers).id \in Ids
      BY <3>2 DEF Handler
    <3> QED BY <1>1, <3>2, <3>3 DEF Consistent, TypeOK, runHandler
  <2> QED BY <1>1, <2>1 DEF Consistent, QueueMatchesTimers, Matches, Position,
                            NoLeakedEntry, runHandler
<1>2. CASE tick
  <2>1. clock' \in 0 .. MaxClock
    BY <1>2, ConstantsAssumption DEF Consistent, TypeOK, tick
  <2>2. UNCHANGED <<lastId, timers, nextTimeouts, handlers, userRuns, held,
                    cleared, armings, firings>>
    BY <1>2 DEF tick
  <2>3. TypeOK'
    BY <2>1, <2>2 DEF Consistent, TypeOK
  <2>4. QueueMatchesTimers' /\ NoLeakedEntry'
    BY <2>2 DEF Consistent, QueueMatchesTimers, NoLeakedEntry
  <2> QED BY <2>3, <2>4 DEF Consistent
<1>3. CASE UNCHANGED vars
  BY <1>3 DEF Consistent, TypeOK, QueueMatchesTimers, Matches, Position,
              NoLeakedEntry, vars
<1> QED BY <1>1, <1>2, <1>3

(* Types are right, nextTimeouts and timers are in step and no entry       *)
(* outlives its handle, whatever timers the handlers set, refresh, clear   *)
(* and drop: the assertions of timeout_manager.cpp never fail.             *)
THEOREM ConsistentAlways == Spec => []Consistent
<1>1. Consistent /\ [Next]_vars => Consistent'
  <2> SUFFICES ASSUME Consistent, [Next]_vars PROVE Consistent'
    OBVIOUS
  <2> QED BY SetTimeoutConsistent, RefreshConsistent, ClearConsistent,
             DropConsistent, CollectConsistent, OtherConsistent DEF Next
<1> QED BY <1>1, InitConsistent, PTL DEF Spec

(* The assertions alone, as the run of TimeoutManager checks them. *)
THEOREM QueueMatchesTimersAlways == Spec => []QueueMatchesTimers
BY ConsistentAlways, PTL DEF Consistent

(* TypeOK alone. *)
THEOREM TypeOKAlways == Spec => []TypeOK
BY ConsistentAlways, PTL DEF Consistent

(* NoLeakedEntry alone. *)
THEOREM NoLeakedEntryAlways == Spec => []NoLeakedEntry
BY ConsistentAlways, PTL DEF Consistent

-----------------------------------------------------------------------------
(* The queue is ordered by due time, so that the due timers are a prefix. *)
Ordered(q) == \A i, j \in DOMAIN q : i <= j => q[i].at <= q[j].at

(* An element of the queue. *)
LEMMA DueAtType ==
  ASSUME NEW q \in Seq(Due), NEW i \in 1 .. Len(q)
  PROVE  q[i].at \in Int /\ q[i].id \in Ids
<1>1. q[i] \in Due
  OBVIOUS
<1>2. q[i].at \in 0 .. U64 - 1 /\ q[i].id \in Ids
  BY <1>1 DEF Due
<1> QED BY <1>2, ConstantsAssumption

(* upper_bound splits an ordered queue. *)
LEMMA UpperBoundSplits ==
  ASSUME NEW q \in Seq(Due), Ordered(q), NEW t \in Int
  PROVE  /\ \A i \in 1 .. UpperBound(q, t) : q[i].at <= t
         /\ \A i \in UpperBound(q, t) + 1 .. Len(q) : q[i].at > t
<1> DEFINE D == {i \in DOMAIN q : q[i].at <= t}
           k == UpperBound(q, t)
           n == Len(q)
<1>1. n \in Nat /\ DOMAIN q = 1 .. n /\ k \in 0 .. n /\ k = Cardinality(D)
  BY LenProperties, UpperBoundLemma DEF UpperBound
<1>2. \A i \in 1 .. n : q[i].at \in Int
  BY DueAtType
<1>3. IsFiniteSet(D)
  <2>1. IsFiniteSet(1 .. n) /\ D \subseteq 1 .. n
    BY <1>1, FS_Interval
  <2> QED BY <2>1, FS_Subset
<1>4. ASSUME NEW i \in 1 .. k, q[i].at > t PROVE FALSE
  <2>1. i \in 1 .. n /\ i - 1 \in Nat
    BY <1>1
  <2>2. \A j \in D : j \in 1 .. i - 1
    <3> TAKE j \in D
    <3>1. j \in 1 .. n /\ q[j].at <= t
      BY <1>1
    <3>2. ~(i <= j)
      BY <1>1, <1>2, <1>4, <2>1, <3>1 DEF Ordered
    <3> QED BY <2>1, <3>1, <3>2
  <2>3. IsFiniteSet(1 .. i - 1) /\ Cardinality(1 .. i - 1) = i - 1
    BY <2>1, FS_Interval
  <2>4. D \subseteq 1 .. i - 1
    BY <2>2
  <2>5. Cardinality(D) <= i - 1
    <3> HIDE DEF D
    <3> QED BY <2>3, <2>4, FS_Subset
  <2> HIDE DEF k, D
  <2> QED BY <1>1, <2>1, <2>5
<1>5. ASSUME NEW i \in k + 1 .. n, q[i].at <= t PROVE FALSE
  <2>1. i \in 1 .. n
    BY <1>1
  <2>2. 1 .. i \subseteq D
    <3> SUFFICES ASSUME NEW j \in 1 .. i PROVE j \in D
      OBVIOUS
    <3>1. j \in 1 .. n /\ j <= i
      BY <1>1, <2>1
    <3>2. q[j].at <= q[i].at
      BY <1>1, <2>1, <3>1 DEF Ordered
    <3>3. q[j].at <= t
      BY <1>2, <1>5, <2>1, <3>1, <3>2
    <3> QED BY <1>1, <3>1, <3>3
  <2>3. Cardinality(1 .. i) = i
    BY <2>1, FS_Interval
  <2>4. i <= Cardinality(D)
    <3> HIDE DEF D
    <3> QED BY <1>3, <2>2, <2>3, FS_Subset
  <2> HIDE DEF k, D
  <2> QED BY <1>1, <2>1, <2>4
<1>6. \A i \in 1 .. n : q[i].at > t <=> ~(q[i].at <= t)
  BY <1>2
<1> HIDE DEF k, n, D
<1>7. \A i \in 1 .. k : q[i].at <= t
  BY <1>1, <1>4, <1>6
<1>8. \A i \in k + 1 .. n : q[i].at > t
  BY <1>1, <1>5, <1>6
<1> QED BY <1>7, <1>8 DEF k, n

(* Inserting keeps the queue ordered. *)
LEMMA InsertOrdered ==
  ASSUME NEW q \in Seq(Due), Ordered(q), NEW at \in 0 .. U64 - 1,
         NEW id \in Ids
  PROVE  Ordered(Insert(q, at, id))
<1> DEFINE r == Insert(q, at, id)
           k == UpperBound(q, at)
           n == Len(q)
<1>1. n \in Nat /\ DOMAIN q = 1 .. n /\ at \in Int
  BY LenProperties, ConstantsAssumption
<1>2. \A i \in 1 .. n : q[i].at \in Int
  BY DueAtType
<1>3. /\ \A i \in 1 .. k : q[i].at <= at
      /\ \A i \in k + 1 .. n : q[i].at > at
  BY <1>1, UpperBoundSplits
<1>4. /\ k + 1 \in 1 .. n + 1
      /\ DOMAIN r = 1 .. n + 1
      /\ r[k + 1] = [at |-> at, id |-> id]
      /\ \A j \in 1 .. (k + 1) - 1 : r[j] = q[j]
      /\ \A j \in (k + 1) + 1 .. n + 1 : r[j] = q[j - 1]
  BY InsertLemma
<1>5. k \in 0 .. n
  BY UpperBoundLemma
<1> HIDE DEF r, k, n
<1>6. r[k + 1].at = at
  BY <1>4
<1>7. \A j \in 1 .. k : j \in 1 .. n /\ r[j] = q[j]
  BY <1>1, <1>4, <1>5
<1>8. \A j \in k + 2 .. n + 1 : /\ j - 1 \in k + 1 .. n /\ j - 1 \in 1 .. n
                                /\ r[j] = q[j - 1]
  BY <1>1, <1>4, <1>5
<1>9. \A i, j \in 1 .. n : i <= j => q[i].at <= q[j].at
  BY <1>1 DEF Ordered
<1>10. ASSUME NEW i \in 1 .. n + 1, NEW j \in 1 .. n + 1, i <= j
       PROVE  r[i].at <= r[j].at
  <2>1. CASE i \in 1 .. k /\ j \in 1 .. k
    BY <1>7, <1>9, <1>10, <2>1
  <2>2. CASE i \in 1 .. k /\ j = k + 1
    BY <1>3, <1>6, <1>7, <2>2
  <2>3. CASE i \in 1 .. k /\ j \in k + 2 .. n + 1
    <3>1. i <= j - 1
      BY <1>1, <1>5, <2>3
    <3> QED BY <1>7, <1>8, <1>9, <2>3, <3>1
  <2>4. CASE i = k + 1 /\ j = k + 1
    BY <1>1, <1>6, <2>4
  <2>5. CASE i = k + 1 /\ j \in k + 2 .. n + 1
    BY <1>1, <1>2, <1>3, <1>6, <1>8, <2>5
  <2>6. CASE i \in k + 2 .. n + 1
    <3>1. j \in k + 2 .. n + 1 /\ i - 1 <= j - 1
      BY <1>1, <1>5, <1>10, <2>6
    <3> QED BY <1>8, <1>9, <2>6, <3>1
  <2> QED BY <1>1, <1>5, <1>10, <2>1, <2>2, <2>3, <2>4, <2>5, <2>6
<1> QED BY <1>4, <1>10 DEF Ordered, r

(* Clearing keeps the queue ordered. *)
LEMMA ClearedOrdered ==
  ASSUME NEW ts, NEW q \in Seq(Due), Ordered(q), NEW id
  PROVE  ClearedQueue(ts, q, id) \in Seq(Due) /\ Ordered(ClearedQueue(ts, q, id))
<1>1. CASE ~FoundActive(ts, q, id)
  BY <1>1 DEF ClearedQueue
<1>2. CASE FoundActive(ts, q, id)
  <2> DEFINE p == CHOOSE i \in Position(ts, q, id) : TRUE
             r == RemoveAt(q, p)
  <2>1. ClearedQueue(ts, q, id) = r /\ p \in Position(ts, q, id)
    BY <1>2 DEF ClearedQueue, FoundActive
  <2>2. Len(q) \in Nat /\ DOMAIN q = 1 .. Len(q) /\ p \in 1 .. Len(q)
    BY <2>1, LenProperties DEF Position
  <2> HIDE DEF p
  <2>3. /\ r \in Seq(Due) /\ Len(r) = Len(q) - 1
        /\ \A j \in 1 .. Len(q) - 1 : r[j] = IF j < p THEN q[j] ELSE q[j + 1]
    BY <2>2, RemoveAtLemma
  <2>4. DOMAIN r = 1 .. Len(q) - 1
    BY <2>3, LenProperties
  <2> HIDE DEF r
  <2> DEFINE old(j) == IF j < p THEN j ELSE j + 1
  <2>5. \A j \in DOMAIN r : old(j) \in DOMAIN q /\ r[j] = q[old(j)]
    BY <2>2, <2>3, <2>4
  <2>6. \A i, j \in DOMAIN r : i <= j => old(i) <= old(j)
    BY <2>2, <2>4
  <2> HIDE DEF old
  <2>7. Ordered(r)
    BY <2>5, <2>6 DEF Ordered
  <2> QED BY <2>1, <2>3, <2>7
<1> QED BY <1>1, <1>2

-----------------------------------------------------------------------------
(* Due times. *)
DueTimesRight ==
  \A id \in DOMAIN timers :
    /\ timers[id].delay \in DelayOutcomes(EffectiveMs(timers[id].ms))
    /\ timers[id].lastSchedule <= clock
    /\ timers[id].nextTimeout =
         (timers[id].lastSchedule + timers[id].delay) % U64

Timely == Ordered(nextTimeouts) /\ DueTimesRight /\ NotEarly

(* A due time in the past means that a delay that fits has gone by. *)
LEMMA DelayWaitedFor ==
  ASSUME NEW e \in Entry, e.delay \in DelayOutcomes(EffectiveMs(e.ms)),
         clock \in 0 .. MaxClock, e.lastSchedule <= clock,
         e.nextTimeout = (e.lastSchedule + e.delay) % U64,
         e.nextTimeout <= clock, EffectiveMs(e.ms) * Ms <= INT_MAX
  PROVE  e.lastSchedule + EffectiveMs(e.ms) * Ms <= clock
<1> DEFINE d == EffectiveMs(e.ms) * Ms
<1>1. e.ms \in Int /\ e.lastSchedule \in Nat
  BY DEF Entry
<1>2. EffectiveMs(e.ms) \in Nat
  BY <1>1, EffectiveMsType
<1>3. d \in Nat /\ d <= INT_MAX /\ e.delay = d
  BY <1>2, DelayExact, ConstantsAssumption
<1> HIDE DEF d
<1>4. e.lastSchedule + d \in 0 .. U64 - 1
  BY <1>1, <1>3, ConstantsAssumption
<1>5. (e.lastSchedule + d) % U64 = e.lastSchedule + d
  BY <1>4, ModSmall, ConstantsAssumption
<1> QED BY <1>3, <1>5 DEF d

(* The calls on timers keep Timely. *)
LEMMA UserTimely ==
  ASSUME Consistent, Timely,
         \/ \E ms \in Delays : setTimeout(ms)
         \/ \E id \in Ids : \/ refreshTimeout(id)
                           \/ clearTimeout(id)
                           \/ dropTimeout(id)
  PROVE  Timely'
<1>1. NotEarly'
  <2>1. UNCHANGED <<clock, handlers>>
    BY DEF setTimeout, refreshTimeout, clearTimeout, dropTimeout
  <2> QED BY <2>1 DEF Timely, NotEarly
<1>2. /\ clock \in 0 .. MaxClock /\ nextTimeouts \in Seq(Due)
      /\ timers \in [DOMAIN timers -> Entry] /\ Ordered(nextTimeouts)
      /\ lastId \in 0 .. MaxTimers
  BY DEF Consistent, TypeOK, Timely
<1>3. ASSUME NEW ms \in Delays, setTimeout(ms) PROVE Timely'
  <2> DEFINE id == lastId + 1
             fresh(d) == [ms |-> ms, delay |-> d, lastSchedule |-> 0,
                          nextTimeout |-> 0, handleDestroyed |-> FALSE,
                          active |-> FALSE]
  <2>1. PICK d \in DelayOutcomes(EffectiveMs(ms)) :
          LET e == Armed(fresh(d), clock)
          IN  /\ timers' = [i \in DOMAIN timers \cup {id} |->
                              IF i = id THEN e ELSE timers[i]]
              /\ nextTimeouts' = Insert(nextTimeouts, e.nextTimeout, id)
    BY <1>3 DEF setTimeout, NewId
  <2> DEFINE f == fresh(d)
             e == Armed(f, clock)
  <2>2. ms \in Int /\ d \in 0 .. U64 - 1
    BY EffectiveMsType, DelayType, ConstantsAssumption
  <2>3. f \in Entry /\ f.ms = ms /\ f.delay = d
    BY <2>2, ConstantsAssumption DEF Entry
  <2>4. id \in Ids /\ clock' = clock
    BY <1>2, <1>3, ConstantsAssumption DEF Ids, setTimeout
  <2>5. /\ timers' = [i \in DOMAIN timers \cup {id} |->
                        IF i = id THEN e ELSE timers[i]]
        /\ nextTimeouts' = Insert(nextTimeouts, e.nextTimeout, id)
    BY <2>1
  <2> HIDE DEF f, id
  <2>6. /\ e \in Entry /\ e.ms = ms /\ e.delay = d
        /\ e.lastSchedule = clock
        /\ e.nextTimeout = (clock + d) % U64
    BY <1>2, <2>3, ArmedLemma
  <2> HIDE DEF e
  <2>7. e.nextTimeout \in 0 .. U64 - 1
    BY <2>6 DEF Entry
  <2>8. Ordered(nextTimeouts')
    BY <1>2, <2>4, <2>5, <2>7, InsertOrdered
  <2>9. DueTimesRight'
    <3> SUFFICES ASSUME NEW i \in DOMAIN timers'
                 PROVE  /\ timers'[i].delay
                             \in DelayOutcomes(EffectiveMs(timers'[i].ms))
                        /\ timers'[i].lastSchedule <= clock
                        /\ timers'[i].nextTimeout =
                             (timers'[i].lastSchedule + timers'[i].delay) % U64
      BY <2>4 DEF DueTimesRight
    <3>1. CASE i = id
      <4>1. timers'[i] = e
        BY <2>5, <3>1
      <4> QED BY <1>2, <2>6, <4>1
    <3>2. CASE i # id
      <4>1. i \in DOMAIN timers /\ timers'[i] = timers[i]
        BY <2>5, <3>2
      <4> QED BY <4>1 DEF Timely, DueTimesRight
    <3> QED BY <3>1, <3>2
  <2> QED BY <1>1, <2>8, <2>9 DEF Timely
<1>4. ASSUME NEW id \in Ids, refreshTimeout(id) PROVE Timely'
  <2> DEFINE c == ClearedEntry(timers, nextTimeouts, id)
             q == ClearedQueue(timers, nextTimeouts, id)
             e == Armed(c, clock)
  <2>1. /\ id \in DOMAIN timers /\ clock' = clock
        /\ timers' = [timers EXCEPT ![id] = e]
        /\ nextTimeouts' = Insert(q, e.nextTimeout, id)
    BY <1>4 DEF refreshTimeout
  <2>2. timers[id] \in Entry
    BY <1>2, <2>1
  <2>3. c = [timers[id] EXCEPT !.active = FALSE]
    BY <1>2, <2>1, ClearMatches DEF Consistent, QueueMatchesTimers
  <2>4. c \in Entry /\ c.ms = timers[id].ms /\ c.delay = timers[id].delay
    BY <2>2, <2>3 DEF Entry
  <2>5. q \in Seq(Due) /\ Ordered(q)
    BY <1>2, ClearedOrdered
  <2> HIDE DEF c, q
  <2>6. /\ e \in Entry /\ e.ms = timers[id].ms /\ e.delay = timers[id].delay
        /\ e.lastSchedule = clock
        /\ e.nextTimeout = (clock + e.delay) % U64
    BY <1>2, <2>4, ArmedLemma
  <2> HIDE DEF e
  <2>7. e.nextTimeout \in 0 .. U64 - 1
    BY <2>6 DEF Entry
  <2>8. Ordered(nextTimeouts')
    BY <2>1, <2>5, <2>7, InsertOrdered
  <2>9. DueTimesRight'
    <3> SUFFICES ASSUME NEW i \in DOMAIN timers'
                 PROVE  /\ timers'[i].delay
                             \in DelayOutcomes(EffectiveMs(timers'[i].ms))
                        /\ timers'[i].lastSchedule <= clock
                        /\ timers'[i].nextTimeout =
                             (timers'[i].lastSchedule + timers'[i].delay) % U64
      BY <2>1 DEF DueTimesRight
    <3>1. CASE i = id
      <4>1. timers'[i] = e
        BY <2>1, <3>1
      <4>2. timers[id].delay \in DelayOutcomes(EffectiveMs(timers[id].ms))
        BY <2>1 DEF Timely, DueTimesRight
      <4> QED BY <1>2, <2>6, <4>1, <4>2
    <3>2. CASE i # id
      <4>1. i \in DOMAIN timers /\ timers'[i] = timers[i]
        BY <2>1, <3>2
      <4> QED BY <4>1 DEF Timely, DueTimesRight
    <3> QED BY <3>1, <3>2
  <2> QED BY <1>1, <2>8, <2>9 DEF Timely
<1>5. ASSUME NEW id \in Ids, clearTimeout(id) PROVE Timely'
  <2>1. CASE id \notin DOMAIN timers
    <3>1. UNCHANGED <<nextTimeouts, timers, clock>>
      BY <1>5, <2>1 DEF clearTimeout
    <3> QED BY <1>1, <3>1 DEF Timely, DueTimesRight, Ordered
  <2>2. CASE id \in DOMAIN timers
    <3> DEFINE ts == [timers EXCEPT ![id] =
                        ClearedEntry(timers, nextTimeouts, id)]
    <3>1. /\ nextTimeouts' = ClearedQueue(timers, nextTimeouts, id)
          /\ timers' = Destroyed(ts, id) /\ clock' = clock
      BY <1>5, <2>2 DEF clearTimeout
    <3>2. id \notin DOMAIN timers'
      BY <1>5, ClearConsistent
    <3>3. \A i \in DOMAIN timers' : i \in DOMAIN timers /\ timers'[i] = timers[i]
      <4>1. CASE ts[id].active
        BY <3>1, <3>2, <2>2, <4>1 DEF Destroyed
      <4>2. CASE ~ts[id].active
        BY <3>1, <3>2, <2>2, <4>2 DEF Destroyed
      <4> QED BY <4>1, <4>2
    <3>4. Ordered(nextTimeouts')
      BY <1>2, <3>1, ClearedOrdered
    <3>5. DueTimesRight'
      BY <3>1, <3>3 DEF Timely, DueTimesRight
    <3> QED BY <1>1, <3>4, <3>5 DEF Timely
  <2> QED BY <2>1, <2>2
<1>6. ASSUME NEW id \in Ids, dropTimeout(id) PROVE Timely'
  <2>1. timers' = Destroyed(timers, id) /\ UNCHANGED <<clock, nextTimeouts>>
    BY <1>6 DEF dropTimeout
  <2>2. \A i \in DOMAIN timers' :
          /\ i \in DOMAIN timers
          /\ timers'[i].delay = timers[i].delay
          /\ timers'[i].ms = timers[i].ms
          /\ timers'[i].lastSchedule = timers[i].lastSchedule
          /\ timers'[i].nextTimeout = timers[i].nextTimeout
    <3> TAKE i \in DOMAIN timers'
    <3>1. CASE id \in DOMAIN timers /\ timers[id].active /\ i = id
      <4>1. /\ i \in DOMAIN timers
            /\ timers'[i] = [timers[i] EXCEPT !.handleDestroyed = TRUE]
        BY <2>1, <3>1 DEF Destroyed
      <4>2. timers[i] \in Entry
        BY <1>2, <4>1
      <4> QED BY <4>1, <4>2 DEF Entry
    <3>2. CASE ~(id \in DOMAIN timers /\ timers[id].active /\ i = id)
      <4>1. i \in DOMAIN timers /\ timers'[i] = timers[i]
        BY <2>1, <3>2 DEF Destroyed
      <4> QED BY <4>1
    <3> QED BY <3>1, <3>2
  <2>3. DueTimesRight'
    BY <2>1, <2>2 DEF Timely, DueTimesRight
  <2> QED BY <1>1, <2>1, <2>3 DEF Timely, Ordered
<1> QED BY <1>3, <1>4, <1>5, <1>6

(* Collecting the due timers keeps Timely. *)
LEMMA CollectTimely ==
  ASSUME Consistent, Timely, infraTimeoutEvents
  PROVE  Timely'
<1> DEFINE k == UpperBound(nextTimeouts, clock)
           n == Len(nextTimeouts)
           ids == {nextTimeouts[i].id : i \in 1 .. k}
           entry(i) == timers[nextTimeouts[i].id]
<1>1. /\ handlers' = [i \in 1 .. k |->
                        [id |-> nextTimeouts[i].id, ms |-> entry(i).ms,
                         since |-> entry(i).lastSchedule]]
      /\ timers' = [id \in {j \in DOMAIN timers :
                              ~(j \in ids /\ timers[j].handleDestroyed)} |->
                      IF id \in ids THEN Fired(timers[id]) ELSE timers[id]]
      /\ nextTimeouts' = Rest(nextTimeouts, k)
      /\ clock' = clock
  BY DEF infraTimeoutEvents
<1>2. /\ nextTimeouts \in Seq(Due) /\ Ordered(nextTimeouts)
      /\ clock \in 0 .. MaxClock /\ clock \in Int
      /\ n \in Nat /\ DOMAIN nextTimeouts = 1 .. n /\ k \in 0 .. n
  BY UpperBoundLemma, LenProperties, ConstantsAssumption
     DEF Consistent, TypeOK, Timely
<1>3. \A i \in 1 .. k : nextTimeouts[i].at <= clock
  BY <1>2, UpperBoundSplits
<1>4. Ordered(nextTimeouts')
  <2>1. \A i \in k + 1 .. n : nextTimeouts[i] \in Due
    BY <1>2
  <2>2. k + 1 \in Int /\ n \in Int
    BY <1>2
  <2>3. nextTimeouts' = SubSeq(nextTimeouts, k + 1, n)
    BY <1>1 DEF Rest
  <2> HIDE DEF k, n
  <2>4. /\ nextTimeouts' \in Seq(Due)
        /\ Len(nextTimeouts') = IF k + 1 <= n THEN n - (k + 1) + 1 ELSE 0
        /\ \A i \in 1 .. n - (k + 1) + 1 :
             nextTimeouts'[i] = nextTimeouts[k + 1 + i - 1]
    BY <2>1, <2>2, <2>3, SubSeqProperties
  <2>5. Len(nextTimeouts') = n - k
    BY <1>2, <2>4
  <2>6. DOMAIN nextTimeouts' = 1 .. n - k
    BY <2>4, <2>5, LenProperties
  <2>7. \A i \in 1 .. n - k : /\ k + i \in DOMAIN nextTimeouts
                            /\ nextTimeouts'[i] = nextTimeouts[k + i]
    BY <1>2, <2>4
  <2>8. \A i, j \in 1 .. n - k : i <= j => k + i <= k + j
    BY <1>2
  <2> QED BY <1>2, <2>6, <2>7, <2>8 DEF Ordered
<1> HIDE DEF k, n
<1>5. DueTimesRight'
  <2> SUFFICES ASSUME NEW j \in DOMAIN timers'
               PROVE  /\ timers'[j].delay
                           \in DelayOutcomes(EffectiveMs(timers'[j].ms))
                      /\ timers'[j].lastSchedule <= clock
                      /\ timers'[j].nextTimeout =
                           (timers'[j].lastSchedule + timers'[j].delay) % U64
    BY <1>1 DEF DueTimesRight
  <2>1. /\ j \in DOMAIN timers /\ timers[j] \in Entry
        /\ timers'[j] = IF j \in ids THEN Fired(timers[j]) ELSE timers[j]
    BY <1>1 DEF Consistent, TypeOK
  <2> HIDE DEF ids
  <2>2. /\ timers'[j].delay = timers[j].delay
        /\ timers'[j].ms = timers[j].ms
        /\ timers'[j].lastSchedule = timers[j].lastSchedule
        /\ timers'[j].nextTimeout = timers[j].nextTimeout
    BY <2>1 DEF Fired, Entry
  <2> QED BY <2>1, <2>2 DEF Timely, DueTimesRight
<1>6. NotEarly'
  <2> SUFFICES ASSUME NEW i \in 1 .. k,
                      EffectiveMs(handlers'[i].ms) * Ms <= INT_MAX
               PROVE  handlers'[i].since + EffectiveMs(handlers'[i].ms) * Ms
                        <= clock
    BY <1>1 DEF NotEarly
  <2>1. handlers'[i].ms = entry(i).ms /\ handlers'[i].since = entry(i).lastSchedule
    BY <1>1
  <2>2. i \in DOMAIN nextTimeouts
    BY <1>2
  <2>3. /\ nextTimeouts[i].id \in DOMAIN timers
        /\ entry(i).nextTimeout = nextTimeouts[i].at
    BY <2>2 DEF Consistent, QueueMatchesTimers, Matches
  <2>4. /\ entry(i) \in Entry
        /\ entry(i).delay \in DelayOutcomes(EffectiveMs(entry(i).ms))
        /\ entry(i).lastSchedule <= clock
        /\ entry(i).nextTimeout = (entry(i).lastSchedule + entry(i).delay) % U64
    BY <2>3 DEF Consistent, TypeOK, Timely, DueTimesRight
  <2>5. entry(i).nextTimeout <= clock
    BY <1>3, <2>3
  <2> HIDE DEF entry
  <2> QED BY <1>2, <2>1, <2>4, <2>5, DelayWaitedFor
<1> QED BY <1>4, <1>5, <1>6 DEF Timely

(* So do the remaining steps. *)
LEMMA OtherTimely ==
  ASSUME Consistent, Timely, runHandler \/ tick \/ UNCHANGED vars
  PROVE  Timely'
<1>1. CASE runHandler
  <2>1. UNCHANGED <<clock, timers, nextTimeouts>> /\ handlers' = Tail(handlers)
    BY <1>1 DEF runHandler
  <2>2. handlers \in Seq(Handler) /\ handlers # <<>>
    BY <1>1 DEF runHandler, Consistent, TypeOK
  <2>3. \A i \in DOMAIN handlers' :
          i + 1 \in DOMAIN handlers /\ handlers'[i] = handlers[i + 1]
    BY <2>1, <2>2
  <2>4. NotEarly'
    BY <2>1, <2>3 DEF Timely, NotEarly
  <2> QED BY <2>1, <2>4 DEF Timely, DueTimesRight, Ordered
<1>2. CASE tick
  <2>1. /\ clock' = clock + 1 /\ clock \in Nat
        /\ UNCHANGED <<handlers, timers, nextTimeouts>>
    BY <1>2, ConstantsAssumption DEF tick, Consistent, TypeOK
  <2>2. \A id \in DOMAIN timers : timers[id].lastSchedule \in Nat
    BY DEF Consistent, TypeOK, Entry
  <2>3. \A i \in DOMAIN handlers :
          handlers[i].since + EffectiveMs(handlers[i].ms) * Ms \in Nat
    <3> TAKE i \in DOMAIN handlers
    <3>1. handlers[i] \in Handler
      BY DEF Consistent, TypeOK
    <3>2. handlers[i].ms \in Int /\ handlers[i].since \in Nat
      BY <3>1 DEF Handler
    <3>3. EffectiveMs(handlers[i].ms) \in Nat
      BY <3>2, EffectiveMsType
    <3> QED BY <3>2, <3>3, ConstantsAssumption
  <2>4. DueTimesRight'
    BY <2>1, <2>2 DEF Timely, DueTimesRight
  <2>5. NotEarly'
    BY <2>1, <2>3 DEF Timely, NotEarly
  <2> QED BY <2>1, <2>4, <2>5 DEF Timely, Ordered
<1>3. CASE UNCHANGED vars
  BY <1>3 DEF vars, Timely, Ordered, DueTimesRight, NotEarly
<1> QED BY <1>1, <1>2, <1>3

(* Timely is an invariant. *)
LEMMA TimelyAlways == Spec => []Timely
<1>1. Init => Timely
  BY DEF Init, Timely, Ordered, DueTimesRight, NotEarly
<1>2. Consistent /\ Timely /\ [Next]_vars => Timely'
  <2> SUFFICES ASSUME Consistent, Timely, [Next]_vars PROVE Timely'
    OBVIOUS
  <2> QED BY UserTimely, CollectTimely, OtherTimely DEF Next
<1> QED BY <1>1, <1>2, ConsistentAlways, PTL DEF Spec

(* A delay whose product with 1000 fits int32_t is waited for in full, for *)
(* every width of the integers that leaves room for clock plus delay.      *)
THEOREM NotEarlyAlways == Spec => []NotEarly
BY TimelyAlways, PTL DEF Timely

(* infraNextTimeout is the earliest due time of all active timers. *)
THEOREM NextTimeoutIsEarliestAlways == Spec => []NextTimeoutIsEarliest
<1>1. Consistent /\ Timely => NextTimeoutIsEarliest
  <2> SUFFICES ASSUME Consistent, Timely, NEW id \in DOMAIN timers,
                      timers[id].active
               PROVE  Head(nextTimeouts).at <= timers[id].nextTimeout
    BY DEF NextTimeoutIsEarliest
  <2>1. PICK i \in DOMAIN nextTimeouts : nextTimeouts[i].at = timers[id].nextTimeout
    BY DEF Consistent, QueueMatchesTimers, Matches, Position
  <2>2. nextTimeouts \in Seq(Due)
    BY DEF Consistent, TypeOK
  <2>3. 1 \in DOMAIN nextTimeouts /\ 1 <= i /\ Head(nextTimeouts) = nextTimeouts[1]
    BY <2>1, <2>2
  <2> QED BY <2>1, <2>3 DEF Timely, Ordered
<1> QED BY <1>1, ConsistentAlways, TimelyAlways, PTL

-----------------------------------------------------------------------------
(* A cleared timer has no entry left: clearTimeout's temporary Timeout     *)
(* takes it away, and ids are never used again.                            *)
ClearedGone == \A id \in cleared : id \notin DOMAIN timers

(* A timer that has been cleared stays so. *)
LEMMA ClearedGoneStep ==
  ASSUME Consistent, ClearedGone, [Next]_vars
  PROVE  ClearedGone'
<1>1. cleared \subseteq 1 .. lastId /\ lastId \in Nat
  BY ConstantsAssumption DEF Consistent, TypeOK
<1>2. ASSUME NEW ms \in Delays, setTimeout(ms) PROVE ClearedGone'
  <2>1. DOMAIN timers' = DOMAIN timers \cup {lastId + 1} /\ cleared' = cleared
    BY <1>2 DEF setTimeout, NewId
  <2>2. lastId + 1 \notin cleared
    BY <1>1
  <2> QED BY <2>1, <2>2 DEF ClearedGone
<1>3. ASSUME NEW id \in Ids, refreshTimeout(id) PROVE ClearedGone'
  BY <1>3 DEF refreshTimeout, ClearedGone
<1>4. ASSUME NEW id \in Ids, clearTimeout(id) PROVE ClearedGone'
  <2>1. cleared' = cleared \cup {id} /\ id \notin DOMAIN timers'
    BY <1>4, ClearConsistent DEF clearTimeout
  <2>2. DOMAIN timers' \subseteq DOMAIN timers
    BY <1>4 DEF clearTimeout, Destroyed
  <2> QED BY <2>1, <2>2 DEF ClearedGone
<1>5. ASSUME NEW id \in Ids, dropTimeout(id) PROVE ClearedGone'
  <2>1. DOMAIN timers' \subseteq DOMAIN timers /\ cleared' = cleared
    BY <1>5 DEF dropTimeout, Destroyed
  <2> QED BY <2>1 DEF ClearedGone
<1>6. CASE infraTimeoutEvents
  <2>1. DOMAIN timers' \subseteq DOMAIN timers /\ cleared' = cleared
    BY <1>6 DEF infraTimeoutEvents
  <2> QED BY <2>1 DEF ClearedGone
<1>7. CASE runHandler \/ tick \/ UNCHANGED vars
  BY <1>7 DEF runHandler, tick, vars, ClearedGone
<1> QED BY <1>2, <1>3, <1>4, <1>5, <1>6, <1>7 DEF Next

(* A timer given to clearTimeout is never collected again. *)
THEOREM ClearedNotCollectedAlways == Spec => ClearedNotCollected
<1> DEFINE Step == \A id \in cleared : \A i \in DOMAIN handlers' :
                     handlers'[i].id = id =>
                       \E j \in DOMAIN handlers : handlers[j] = handlers'[i]
<1>1. Init => ClearedGone
  BY DEF Init, ClearedGone
<1>2. Consistent /\ ClearedGone /\ [Next]_vars => [Step]_vars
  <2> SUFFICES ASSUME Consistent, ClearedGone, Next PROVE Step
    OBVIOUS
  <2>1. CASE handlers' = handlers
    BY <2>1
  <2>2. CASE infraTimeoutEvents
    <3> DEFINE k == UpperBound(nextTimeouts, clock)
    <3>1. /\ DOMAIN handlers' = 1 .. k
          /\ \A i \in 1 .. k : handlers'[i].id = nextTimeouts[i].id
      BY <2>2 DEF infraTimeoutEvents
    <3>2. k \in 0 .. Len(nextTimeouts) /\ DOMAIN nextTimeouts = 1 .. Len(nextTimeouts)
          /\ Len(nextTimeouts) \in Nat
      BY UpperBoundLemma, LenProperties DEF Consistent, TypeOK
    <3>3. \A i \in 1 .. k : i \in DOMAIN nextTimeouts
      BY <3>2
    <3>4. \A i \in 1 .. k : nextTimeouts[i].id \in DOMAIN timers
      BY <3>3 DEF Consistent, QueueMatchesTimers, Matches
    <3> QED BY <3>1, <3>4 DEF ClearedGone
  <2>3. CASE runHandler
    <3>1. handlers \in Seq(Handler) /\ handlers # <<>> /\ handlers' = Tail(handlers)
      BY <2>3 DEF Consistent, TypeOK, runHandler
    <3>2. \A i \in DOMAIN handlers' :
            i + 1 \in DOMAIN handlers /\ handlers'[i] = handlers[i + 1]
      BY <3>1
    <3> QED BY <3>2
  <2> QED BY <2>1, <2>2, <2>3
          DEF Next, setTimeout, refreshTimeout, clearTimeout, dropTimeout, tick
<1>3. Consistent /\ ClearedGone /\ [Next]_vars => ClearedGone'
  BY ClearedGoneStep
<1> QED BY <1>1, <1>2, <1>3, ConsistentAlways, PTL DEF Spec, ClearedNotCollected


-----------------------------------------------------------------------------
(* A timer is in a batch at most once, since its entry is in the multimap  *)
(* at most once and a batch is run to its end before the next is           *)
(* collected; and a timer that was never set was never scheduled.          *)
InBatch(id) == \E i \in DOMAIN handlers : handlers[i].id = id
Scheduled(id) == id \in DOMAIN timers /\ timers[id].active

BatchOnce == \A i, j \in DOMAIN handlers : handlers[i].id = handlers[j].id => i = j

Accounted ==
  /\ BatchOnce
  /\ \A id \in Ids : id > lastId => armings[id] = 0
  /\ \A id \in Ids : firings[id] + (IF InBatch(id) THEN 1 ELSE 0)
                       + (IF Scheduled(id) THEN 1 ELSE 0) <= armings[id]

(* Accounted bounds the firings by the armings. *)
LEMMA AccountedImplies == TypeOK /\ Accounted => OncePerArming
<1> SUFFICES ASSUME TypeOK, Accounted, NEW id \in Ids
             PROVE  firings[id] + Cardinality({i \in DOMAIN handlers : handlers[i].id = id})
                      + (IF id \in DOMAIN timers /\ timers[id].active THEN 1 ELSE 0)
                      <= armings[id]
  BY DEF OncePerArming
<1> DEFINE B == {i \in DOMAIN handlers : handlers[i].id = id}
<1>1. Cardinality(B) = IF InBatch(id) THEN 1 ELSE 0
  <2>1. CASE InBatch(id)
    <3>1. PICK i \in DOMAIN handlers : handlers[i].id = id
      BY <2>1 DEF InBatch
    <3>2. B = {i}
      BY <3>1 DEF Accounted, BatchOnce
    <3> QED BY <2>1, <3>2, FS_Singleton
  <2>2. CASE ~InBatch(id)
    <3>1. B = {}
      BY <2>2 DEF InBatch
    <3> QED BY <2>2, <3>1, FS_EmptySet
  <2> QED BY <2>1, <2>2
<1> HIDE DEF B
<1>2. firings[id] + (IF InBatch(id) THEN 1 ELSE 0) + (IF Scheduled(id) THEN 1 ELSE 0)
        <= armings[id]
  BY DEF Accounted
<1>3. firings[id] + Cardinality(B) + (IF Scheduled(id) THEN 1 ELSE 0) <= armings[id]
  BY <1>1, <1>2
<1> QED BY <1>3 DEF B, Scheduled

(* User code schedules a timer only as it counts the scheduling. *)
LEMMA UserAccounted ==
  ASSUME TypeOK, Accounted, handlers' = handlers, firings' = firings, lastId' >= lastId,
         armings' \in [Ids -> Nat], lastId' \in Nat,
         \A id \in Ids : id > lastId' => armings'[id] = armings[id],
         \A id \in Ids : \/ armings'[id] = armings[id] /\ (Scheduled(id)' => Scheduled(id))
                         \/ armings'[id] = armings[id] + 1
  PROVE  Accounted'
<1>1. BatchOnce'
  BY DEF Accounted, BatchOnce
<1>2. \A id \in Ids : id > lastId' => armings'[id] = 0
  <2> SUFFICES ASSUME NEW id \in Ids, id > lastId' PROVE armings'[id] = 0
    OBVIOUS
  <2>1. id > lastId
    BY ConstantsAssumption DEF TypeOK, Ids
  <2> QED BY <2>1 DEF Accounted
<1>3. ASSUME NEW id \in Ids
      PROVE  firings'[id] + (IF InBatch(id)' THEN 1 ELSE 0) + (IF Scheduled(id)' THEN 1 ELSE 0)
               <= armings'[id]
  <2>1. InBatch(id)' <=> InBatch(id)
    BY DEF InBatch
  <2>2. firings[id] + (IF InBatch(id) THEN 1 ELSE 0) + (IF Scheduled(id) THEN 1 ELSE 0)
          <= armings[id]
    BY DEF Accounted
  <2>3. firings[id] \in Nat /\ armings[id] \in Nat /\ armings'[id] \in Nat
    BY DEF TypeOK
  <2> HIDE DEF InBatch, Scheduled
  <2> QED BY <2>1, <2>2, <2>3
<1> QED BY <1>1, <1>2, <1>3 DEF Accounted

(* setTimeout counts an arming of a new timer. *)
LEMMA SetAccounted ==
  ASSUME Consistent, Accounted, NEW ms \in Delays, setTimeout(ms)
  PROVE  Accounted'
<1> DEFINE new == lastId + 1
<1>1. /\ handlers' = handlers /\ firings' = firings /\ lastId' = new
      /\ armings' = [armings EXCEPT ![new] = 1] /\ lastId < MaxTimers
      /\ \A i \in DOMAIN timers' : i # new => i \in DOMAIN timers /\ timers'[i] = timers[i]
  BY DEF setTimeout, NewId
<1>2. lastId \in Nat /\ new \in Ids /\ new > lastId /\ armings \in [Ids -> Nat]
  BY <1>1, ConstantsAssumption DEF Consistent, TypeOK, Ids
<1>3. armings[new] = 0
  BY <1>2 DEF Accounted
<1>4. \A id \in Ids : \/ armings'[id] = armings[id] /\ (Scheduled(id)' => Scheduled(id))
                      \/ armings'[id] = armings[id] + 1
  BY <1>1, <1>2, <1>3 DEF Scheduled
<1>5. \A id \in Ids : id > lastId' => armings'[id] = armings[id]
  BY <1>1, <1>2 DEF Ids
<1>6. armings' \in [Ids -> Nat] /\ lastId' >= lastId /\ lastId' \in Nat
  BY <1>1, <1>2
<1> QED BY <1>1, <1>4, <1>5, <1>6, UserAccounted DEF Consistent

(* refreshTimeout counts one more. *)
LEMMA RefreshAccounted ==
  ASSUME Consistent, Accounted, NEW t \in Ids, refreshTimeout(t)
  PROVE  Accounted'
<1>1. /\ handlers' = handlers /\ firings' = firings /\ lastId' = lastId
      /\ armings' = [armings EXCEPT ![t] = @ + 1] /\ t \in DOMAIN timers
      /\ DOMAIN timers' = DOMAIN timers
      /\ \A i \in DOMAIN timers : i # t => timers'[i] = timers[i]
  BY DEF refreshTimeout
<1>2. lastId \in Nat /\ armings \in [Ids -> Nat] /\ t <= lastId
  BY <1>1, ConstantsAssumption DEF Consistent, TypeOK
<1>3. \A id \in Ids : \/ armings'[id] = armings[id] /\ (Scheduled(id)' => Scheduled(id))
                      \/ armings'[id] = armings[id] + 1
  BY <1>1, <1>2 DEF Scheduled
<1>4. \A id \in Ids : id > lastId' => armings'[id] = armings[id]
  BY <1>1, <1>2, ConstantsAssumption DEF Ids
<1>5. armings' \in [Ids -> Nat]
  BY <1>1, <1>2
<1> QED BY <1>1, <1>2, <1>3, <1>4, <1>5, UserAccounted DEF Consistent

(* Clearing or dropping a timer counts nothing. *)
LEMMA EndAccounted ==
  ASSUME Consistent, Accounted, NEW t \in Ids, clearTimeout(t) \/ dropTimeout(t)
  PROVE  Accounted'
<1>1. /\ handlers' = handlers /\ firings' = firings /\ lastId' = lastId /\ armings' = armings
  BY DEF clearTimeout, dropTimeout
<1>2. lastId \in Nat /\ armings \in [Ids -> Nat]
  BY ConstantsAssumption DEF Consistent, TypeOK
<1>3. \A id \in Ids : Scheduled(id)' => Scheduled(id)
  <2>1. CASE dropTimeout(t)
    BY <2>1 DEF dropTimeout, Destroyed, Scheduled
  <2>2. CASE clearTimeout(t)
    <3>1. t \notin DOMAIN timers'
      BY <2>2, ClearConsistent
    <3>2. DOMAIN timers' \subseteq DOMAIN timers
          /\ \A i \in DOMAIN timers' : i # t => timers'[i] = timers[i]
      BY <2>2 DEF clearTimeout, Destroyed
    <3> QED BY <3>1, <3>2 DEF Scheduled
  <2> QED BY <2>1, <2>2
<1> QED BY <1>1, <1>2, <1>3, UserAccounted DEF Consistent

(* Collecting moves a timer from the queue to the batch. *)
LEMMA CollectAccounted ==
  ASSUME Consistent, Accounted, infraTimeoutEvents
  PROVE  Accounted'
<1> DEFINE k == UpperBound(nextTimeouts, clock)
           ids == {nextTimeouts[i].id : i \in 1 .. k}
<1>1. /\ handlers = <<>> /\ UNCHANGED <<lastId, armings, firings>>
      /\ DOMAIN handlers' = 1 .. k
      /\ \A i \in 1 .. k : handlers'[i].id = nextTimeouts[i].id
      /\ \A t \in DOMAIN timers' : t \in DOMAIN timers
      /\ \A t \in DOMAIN timers' :
            timers'[t] = IF t \in ids THEN Fired(timers[t]) ELSE timers[t]
  BY DEF infraTimeoutEvents
<1>2. k \in 0 .. Len(nextTimeouts) /\ DOMAIN nextTimeouts = 1 .. Len(nextTimeouts)
      /\ Len(nextTimeouts) \in Nat
  BY UpperBoundLemma, LenProperties DEF Consistent, TypeOK
<1> HIDE DEF k
<1>3. \A i \in 1 .. k : /\ i \in DOMAIN nextTimeouts
                       /\ nextTimeouts[i].id \in DOMAIN timers
                       /\ timers[nextTimeouts[i].id].active
  BY <1>2 DEF Consistent, QueueMatchesTimers, Matches
<1>4. BatchOnce'
  BY <1>1, <1>3 DEF BatchOnce, Consistent, QueueMatchesTimers, Matches
<1>5. ASSUME NEW t \in Ids
      PROVE  firings[t] + (IF InBatch(t)' THEN 1 ELSE 0) + (IF Scheduled(t)' THEN 1 ELSE 0)
               <= armings[t]
  <2>1. ~InBatch(t)
    BY <1>1 DEF InBatch
  <2>2. InBatch(t)' <=> t \in ids
    BY <1>1 DEF InBatch
  <2>3. t \in ids => Scheduled(t) /\ ~Scheduled(t)'
    <3> SUFFICES ASSUME t \in ids PROVE Scheduled(t) /\ ~Scheduled(t)'
      OBVIOUS
    <3>1. Scheduled(t)
      BY <1>3 DEF Scheduled
    <3>2. t \in DOMAIN timers' => timers[t] \in Entry /\ timers'[t] = Fired(timers[t])
      BY <1>1 DEF Consistent, TypeOK
    <3>3. t \in DOMAIN timers' => ~timers'[t].active
      BY <3>2 DEF Fired, Entry
    <3> QED BY <3>1, <3>3 DEF Scheduled
  <2>4. t \notin ids => (Scheduled(t)' => Scheduled(t))
    BY <1>1 DEF Scheduled
  <2>5. firings[t] + (IF InBatch(t) THEN 1 ELSE 0) + (IF Scheduled(t) THEN 1 ELSE 0)
          <= armings[t]
    BY DEF Accounted
  <2>6. firings[t] \in Nat /\ armings[t] \in Nat
    BY DEF Consistent, TypeOK
  <2> HIDE DEF ids
  <2> QED BY <2>1, <2>2, <2>3, <2>4, <2>5, <2>6
<1> QED BY <1>1, <1>4, <1>5 DEF Accounted

(* Running a handler counts one firing. *)
LEMMA RunAccounted ==
  ASSUME Consistent, Accounted, runHandler
  PROVE  Accounted'
<1> DEFINE h == Head(handlers).id
<1>1. /\ handlers # <<>> /\ handlers' = Tail(handlers)
      /\ firings' = [firings EXCEPT ![h] = @ + 1]
      /\ UNCHANGED <<lastId, timers, armings>>
  BY DEF runHandler
<1>2. /\ handlers \in Seq(Handler) /\ firings \in [Ids -> Nat] /\ armings \in [Ids -> Nat]
  BY DEF Consistent, TypeOK
<1>3. /\ 1 \in DOMAIN handlers /\ h = handlers[1].id
      /\ \A i \in DOMAIN handlers' :
           i # 0 /\ i + 1 # 1 /\ i + 1 \in DOMAIN handlers /\ handlers'[i] = handlers[i + 1]
      /\ \A i \in DOMAIN handlers :
           i # 1 => i - 1 \in DOMAIN handlers' /\ handlers'[i - 1] = handlers[i]
  <2> DEFINE n == Len(handlers)
  <2>1. n \in Nat \ {0} /\ DOMAIN handlers = 1 .. n /\ h = handlers[1].id
    BY <1>1, <1>2
  <2>2. DOMAIN handlers' = 1 .. n - 1 /\ \A i \in 1 .. n - 1 : handlers'[i] = handlers[i + 1]
    BY <1>1, <1>2
  <2>3. \A i \in 1 .. n : i # 1 => i - 1 \in 1 .. n - 1 /\ (i - 1) + 1 = i
    BY <2>1
  <2> HIDE DEF n, h
  <2>4. \A i \in DOMAIN handlers :
           i # 1 => i - 1 \in DOMAIN handlers' /\ handlers'[i - 1] = handlers[i]
    <3> SUFFICES ASSUME NEW i \in 1 .. n, i # 1
                 PROVE  i - 1 \in 1 .. n - 1 /\ handlers'[i - 1] = handlers[i]
      BY <2>1, <2>2
    <3>1. i - 1 \in 1 .. n - 1 /\ (i - 1) + 1 = i
      BY <2>3
    <3>2. handlers'[i - 1] = handlers[(i - 1) + 1]
      BY <2>2, <3>1
    <3> QED BY <3>1, <3>2
  <2>5. \A i \in 1 .. n - 1 : i # 0 /\ i + 1 # 1 /\ i + 1 \in 1 .. n
    BY <2>1
  <2>6. 1 \in 1 .. n
    BY <2>1
  <2>7. \A i \in DOMAIN handlers' :
           i # 0 /\ i + 1 # 1 /\ i + 1 \in DOMAIN handlers /\ handlers'[i] = handlers[i + 1]
    <3> SUFFICES ASSUME NEW i \in 1 .. n - 1
                 PROVE  i # 0 /\ i + 1 # 1 /\ i + 1 \in 1 .. n /\ handlers'[i] = handlers[i + 1]
      BY <2>1, <2>2
    <3> QED BY <2>2, <2>5
  <2> QED BY <2>1, <2>4, <2>6, <2>7
<1>4. h \in Ids
  <2>1. Head(handlers) \in Handler
    BY <1>1, <1>2, HeadTailProperties
  <2> QED BY <2>1 DEF Handler
<1> HIDE DEF h
<1>5. BatchOnce'
  <2> SUFFICES ASSUME NEW i \in DOMAIN handlers', NEW j \in DOMAIN handlers',
                      handlers'[i].id = handlers'[j].id
               PROVE  i = j
    BY DEF BatchOnce
  <2>1. i + 1 = j + 1
    BY <1>3 DEF Accounted, BatchOnce
  <2>2. i \in Int /\ j \in Int
    BY <1>1, <1>2
  <2> QED BY <2>1, <2>2
<1>6. ASSUME NEW t \in Ids
      PROVE  firings'[t] + (IF InBatch(t)' THEN 1 ELSE 0) + (IF Scheduled(t)' THEN 1 ELSE 0)
               <= armings[t]
  <2>1. Scheduled(t)' <=> Scheduled(t)
    BY <1>1 DEF Scheduled
  <2>2. t = h => InBatch(t) /\ ~InBatch(t)'
    BY <1>3 DEF InBatch, Accounted, BatchOnce
  <2>3. t # h => (InBatch(t)' <=> InBatch(t))
    BY <1>3 DEF InBatch
  <2>4. firings'[t] = IF t = h THEN firings[t] + 1 ELSE firings[t]
    BY <1>1, <1>2, <1>4
  <2>5. firings[t] + (IF InBatch(t) THEN 1 ELSE 0) + (IF Scheduled(t) THEN 1 ELSE 0)
          <= armings[t]
    BY DEF Accounted
  <2>6. firings[t] \in Nat /\ armings[t] \in Nat
    BY <1>2
  <2> QED BY <2>1, <2>2, <2>3, <2>4, <2>5, <2>6
<1> QED BY <1>1, <1>5, <1>6 DEF Accounted

(* However timers are refreshed, cleared and dropped while a batch runs,   *)
(* one scheduling of a timer runs its handler at most once.                *)
THEOREM OncePerArmingAlways == Spec => []OncePerArming
<1>1. Init => Accounted
  BY DEF Init, Accounted, BatchOnce, InBatch, Scheduled
<1>2. Consistent /\ Accounted /\ [Next]_vars => Accounted'
  <2> SUFFICES ASSUME Consistent, Accounted, [Next]_vars PROVE Accounted'
    OBVIOUS
  <2>1. CASE tick \/ UNCHANGED vars
    BY <2>1 DEF tick, vars, Accounted, BatchOnce, InBatch, Scheduled
  <2> QED BY <2>1, SetAccounted, RefreshAccounted, EndAccounted, CollectAccounted,
             RunAccounted
          DEF Next
<1>3. Consistent /\ Accounted => OncePerArming
  BY AccountedImplies DEF Consistent
<1> QED BY <1>1, <1>2, <1>3, ConsistentAlways, PTL DEF Spec

=============================================================================
