------------------------ MODULE CoroutineSocketProofs ------------------------
(* Proofs about CoroutineSocket for any number of coroutines and calls,    *)
(* reads and writes of any size, and a ring of any size.                   *)
EXTENDS CoroutineSocket, TLAPS

(* A set of natural numbers that is not empty has a least element. Lemmas *)
(* that need it assume it; it is proved from the library at the end.      *)
LeastLaw ==
  \A S \in SUBSET Nat : S # {} => Min(S) \in S /\ \A y \in S : Min(S) <= y

(* The least of two numbers. *)
LEMMA LeastOfTwo ==
  ASSUME NEW a \in Nat, NEW b \in Nat
  PROVE  Min({a, b}) \in Nat /\ Min({a, b}) <= a /\ Min({a, b}) <= b
<1>1. \E x \in {a, b} : \A y \in {a, b} : x <= y
  OBVIOUS
<1> DEFINE x == Min({a, b})
<1>2. x \in {a, b} /\ \A y \in {a, b} : x <= y
  BY <1>1, Zenon DEF Min
<1> HIDE DEF x
<1>3. x \in Nat /\ x <= a /\ x <= b
  BY <1>2
<1> QED BY <1>3 DEF x

-----------------------------------------------------------------------------
FrameRecords ==
  [at : Kinds \cup {"none", "run", "ended", "line"}, min : Nat, max : Nat,
   exc : BOOLEAN, timer : BOOLEAN, part : BOOLEAN]

(* The inductive invariant of the frames and their handles. *)
FramesTyped ==
  /\ frame \in [Frames -> FrameRecords]
  /\ ahd \in [Kinds -> 0 .. NFrames]

LoopTyped ==
  loop \in [pc : UserPcs \cup {"in", "out", "release"},
            rev : SUBSET {"IN", "OUT", "HUP", "ERR"}, ended : BOOLEAN, left : Seq(Kinds)]

FInv == FramesTyped /\ WaitingIsRegistered /\ TimerOnlyWhileWaiting

(* Frames are numbered from 1; 0 is the empty handle. *)
LEMMA FrameNumbers == \A f \in Frames : f \in 0 .. NFrames
BY CoroutineAssumption DEF Frames

-----------------------------------------------------------------------------
(* A step of one frame keeps the invariant if the frame ends up registered *)
(* where it waits, and no handle of another one that waits is lost.        *)
LEMMA Moves ==
  ASSUME FInv, NEW f \in Frames, NEW r \in FrameRecords,
         NEW h \in [Kinds -> 0 .. NFrames],
         frame' = [frame EXCEPT ![f] = r], ahd' = h,
         r.timer => r.at \in {"connect", "read", "drain"},
         r.at \in Kinds \cup {"line"} => h[KindOf(r.at)] = f,
         \A g \in Frames \ {f} : Suspended(g) => h[KindOf(frame[g].at)] = g
  PROVE  FInv'
<1>1. frame' \in [Frames -> FrameRecords]
  BY DEF FInv, FramesTyped
<1>2. \A g \in Frames : frame'[g] = IF g = f THEN r ELSE frame[g]
  BY DEF FInv, FramesTyped
<1>3. FramesTyped'
  BY <1>1 DEF FramesTyped
<1>4. WaitingIsRegistered'
  BY <1>2 DEF WaitingIsRegistered, Suspended, KindOf
<1>5. TimerOnlyWhileWaiting'
  BY <1>2 DEF FInv, TimerOnlyWhileWaiting
<1> QED BY <1>3, <1>4, <1>5 DEF FInv

(* A step that touches no frame and no handle keeps the invariant. *)
LEMMA Stays ==
  ASSUME FInv, UNCHANGED <<frame, ahd>>
  PROVE  FInv'
BY DEF FInv, FramesTyped, WaitingIsRegistered, TimerOnlyWhileWaiting, Suspended,
   KindOf

(* The frames that still run when a handler returns end. *)
LEMMA Ends ==
  ASSUME FInv, frame' = Ended, UNCHANGED ahd
  PROVE  FInv'
<1> DEFINE e == [NewFrame EXCEPT !.at = "ended"]
<1>1. e \in FrameRecords /\ e.at = "ended" /\ e.timer = FALSE
  BY Zenon DEF NewFrame, FrameRecords
<1>2. frame' = [g \in Frames |-> IF frame[g].at = "run" THEN e ELSE frame[g]]
  BY DEF Ended
<1> HIDE DEF e
<1>3. frame' \in [Frames -> FrameRecords]
  BY <1>1, <1>2 DEF FInv, FramesTyped
<1>4. \A g \in Frames : frame'[g] = e \/ frame'[g] = frame[g]
  BY <1>2
<1>5. WaitingIsRegistered'
  <2> SUFFICES ASSUME NEW g \in Frames, Suspended(g)'
               PROVE  ahd[KindOf(frame'[g].at)] = g
    BY DEF WaitingIsRegistered, KindOf
  <2>1. frame'[g] = frame[g]
    BY <1>1, <1>4 DEF Suspended, Kinds
  <2> QED BY <2>1 DEF FInv, WaitingIsRegistered, Suspended
<1>6. TimerOnlyWhileWaiting'
  BY <1>1, <1>4 DEF FInv, TimerOnlyWhileWaiting
<1> QED BY <1>3, <1>5, <1>6 DEF FInv, FramesTyped

-----------------------------------------------------------------------------
(* await_resume: the frame runs, or waits again for a line. *)
LEMMA ReadsLine ==
  ASSUME FInv, NEW f \in Frames, NEW d, NEW h \in [Kinds -> 0 .. NFrames],
         NEW r \in FrameRecords, r.timer = FALSE,
         \A g \in Frames \ {f} : Suspended(g) =>
            h[KindOf(frame[g].at)] = g /\ KindOf(frame[g].at) # "read",
         ReadLine(f, d, h, r)
  PROVE  FInv'
<1> DEFINE u == read_ready_data_until(d.rb, LineSize)
           more == u.status = "in_progress"
           s == [r EXCEPT !.at = IF more THEN "line" ELSE "run",
                          !.part = more /\ u.out # <<>>]
           k == IF more THEN [h EXCEPT !.read = f] ELSE h
<1>1. frame' = [frame EXCEPT ![f] = s] /\ ahd' = k
  BY DEF ReadLine
<1>2. more \in BOOLEAN /\ (more /\ u.out # <<>>) \in BOOLEAN
  OBVIOUS
<1>3. s \in FrameRecords /\ s.timer = FALSE /\ s.at = IF more THEN "line" ELSE "run"
  <2> DEFINE at == IF more THEN "line" ELSE "run"
             pt == more /\ u.out # <<>>
  <2>1. pt \in BOOLEAN /\ at \in {"line", "run"}
    OBVIOUS
  <2>2. s = [r EXCEPT !.at = at, !.part = pt]
    OBVIOUS
  <2> HIDE DEF at, pt, s
  <2>3. s \in FrameRecords /\ s.timer = FALSE /\ s.at = at
    BY <2>1, <2>2, Zenon DEF FrameRecords
  <2> QED BY <2>3 DEF at
<1>4. k \in [Kinds -> 0 .. NFrames] /\ (more => k["read"] = f)
      /\ \A x \in Kinds : x # "read" => k[x] = h[x]
  BY DEF Kinds, Frames
<1> HIDE DEF s, k
<1>5. s.at \in Kinds \cup {"line"} => k[KindOf(s.at)] = f
  BY <1>3, <1>4 DEF KindOf, Kinds
<1>6. \A g \in Frames \ {f} : Suspended(g) => k[KindOf(frame[g].at)] = g
  BY <1>4 DEF Suspended, KindOf, Kinds
<1> QED BY <1>1, <1>3, <1>4, <1>5, <1>6, Moves, Zenon

(* So does a frame that runs on without waiting. *)
LEMMA RunsOn ==
  ASSUME FInv, NEW f \in Frames, NEW h \in [Kinds -> 0 .. NFrames],
         NEW r \in FrameRecords, r.at = "run", r.timer = FALSE,
         \A g \in Frames \ {f} : Suspended(g) => h[KindOf(frame[g].at)] = g,
         frame' = [frame EXCEPT ![f] = r], ahd' = h
  PROVE  FInv'
BY Moves, Zenon DEF Kinds

(* So does a frame that leaves its awaiter. *)
LEMMA Leaves ==
  ASSUME FInv, NEW f \in Frames, NEW h \in [Kinds -> 0 .. NFrames],
         NEW r \in FrameRecords, r.at = "run", r.timer = FALSE,
         \A g \in Frames \ {f} : Suspended(g) => h[KindOf(frame[g].at)] = g,
         frame' = [frame EXCEPT ![f] = [r EXCEPT !.min = 0, !.max = 0]], ahd' = h
  PROVE  FInv'
<1> DEFINE s == [r EXCEPT !.min = 0, !.max = 0]
<1>1. s \in FrameRecords /\ s.at = "run" /\ s.timer = FALSE
  BY Zenon DEF FrameRecords
<1>2. frame' = [frame EXCEPT ![f] = s]
  OBVIOUS
<1> HIDE DEF s
<1> QED BY <1>1, <1>2, RunsOn, Zenon

(* So does a frame that takes its bytes and runs on. *)
LEMMA Takes ==
  ASSUME FInv, NEW f \in Frames, NEW d, NEW h \in [Kinds -> 0 .. NFrames],
         NEW r \in FrameRecords, r.at = "run", r.timer = FALSE,
         \A g \in Frames \ {f} : Suspended(g) => h[KindOf(frame[g].at)] = g,
         TakeBytes(f, d, h, r)
  PROVE  FInv'
<1>1. \/ UNCHANGED <<frame, ahd>>
      \/ frame' = [frame EXCEPT ![f] = [r EXCEPT !.min = 0, !.max = 0]] /\ ahd' = h
  BY Zenon DEF TakeBytes, Stop
<1> QED BY <1>1, Stays, Leaves, Zenon

(* Resuming a frame keeps it, if the handle has been taken out first. *)
LEMMA Resumes ==
  ASSUME FInv, NEW f \in Frames, NEW by, NEW d,
         NEW h \in [Kinds -> 0 .. NFrames], NEW exc \in BOOLEAN,
         \A g \in Frames \ {f} : Suspended(g) => h[KindOf(frame[g].at)] = g,
         by = "read" => \A g \in Frames \ {f} :
                           Suspended(g) => KindOf(frame[g].at) # "read",
         Resume(f, by, d, h, exc)
  PROVE  FInv'
<1> DEFINE r == [frame[f] EXCEPT !.at = "run", !.exc = @ \/ exc, !.timer = FALSE]
           s == [r EXCEPT !.exc = frame[f].exc]
<1>1. frame[f] \in FrameRecords
  BY DEF FInv, FramesTyped
<1>2. r \in FrameRecords /\ r.at = "run" /\ r.timer = FALSE
  <2> DEFINE x == frame[f].exc \/ exc
  <2>1. x \in BOOLEAN
    OBVIOUS
  <2>2. r = [frame[f] EXCEPT !.at = "run", !.exc = x, !.timer = FALSE]
    OBVIOUS
  <2> HIDE DEF x, r
  <2> QED BY <1>1, <2>1, <2>2, Zenon DEF FrameRecords
<1>3. s \in FrameRecords /\ s.at = "run" /\ s.timer = FALSE
  <2>1. s = [r EXCEPT !.exc = frame[f].exc]
    OBVIOUS
  <2> HIDE DEF r, s
  <2> QED BY <1>1, <1>2, <2>1 DEF FrameRecords
<1>4. \/ Stop("resumed") \/ Stop("isData") \/ Stop("b.size() == 0")
      \/ Continue(f, d, h, s) \/ Continue(f, d, h, r)
      \/ by = "read" /\ ReadLine(f, d, h, r)
      \/ TakeBytes(f, d, h, r)
  <2> HIDE DEF s
  <2>1. Resume(f, by, d, h, exc) =
          IF ~Suspended(f) \/ (frame[f].at = "line" /\ by # "read")
          THEN Stop("resumed")
          ELSE IF frame[f].at = "line"
          THEN IF exc THEN Continue(f, d, h, s)
               ELSE IF used_size(d.rb) = 0 THEN Stop("isData")
               ELSE IF frame[f].part THEN Stop("b.size() == 0")
               ELSE ReadLine(f, d, h, r)
          ELSE IF frame[f].at = "read" /\ ~r.exc /\ by # "timer" THEN TakeBytes(f, d, h, r)
          ELSE Continue(f, d, h, r)
    BY Zenon DEF Resume, s
  <2> HIDE DEF r
  <2> QED BY <2>1, Zenon
<1> HIDE DEF r, s
<1>5. CASE \/ Stop("resumed") \/ Stop("isData") \/ Stop("b.size() == 0")
  BY <1>5, Stays, Zenon DEF Stop
<1>6. CASE Continue(f, d, h, s) \/ Continue(f, d, h, r)
  BY <1>6, <1>2, <1>3, Leaves, Zenon DEF Continue
<1>7. CASE by = "read" /\ ReadLine(f, d, h, r)
  BY <1>7, <1>2, ReadsLine, Zenon
<1>8. CASE TakeBytes(f, d, h, r)
  BY <1>8, <1>2, Takes, Zenon
<1> QED BY <1>4, <1>5, <1>6, <1>7, <1>8, Zenon

(* hr() of the handle of one kind. *)
LEMMA ResumesKind ==
  ASSUME FInv, NEW kind \in Kinds, ahd[kind] # 0, NEW d, NEW exc \in BOOLEAN,
         ResumeKind(kind, d, exc)
  PROVE  FInv'
<1> DEFINE f == ahd[kind]
           h == [ahd EXCEPT ![kind] = 0]
<1>1. f \in Frames
  BY CoroutineAssumption DEF FInv, FramesTyped, Frames
<1>2. h \in [Kinds -> 0 .. NFrames] /\ \A x \in Kinds \ {kind} : h[x] = ahd[x]
  BY CoroutineAssumption DEF FInv, FramesTyped
<1>3. \A g \in Frames \ {f} : Suspended(g) =>
        KindOf(frame[g].at) \in Kinds \ {kind} /\ ahd[KindOf(frame[g].at)] = g
  BY DEF FInv, WaitingIsRegistered, Suspended, KindOf, Kinds
<1>4. Resume(f, kind, d, h, exc)
  BY DEF ResumeKind
<1> HIDE DEF f, h
<1>5. \A g \in Frames \ {f} : Suspended(g) => h[KindOf(frame[g].at)] = g
  BY <1>2, <1>3
<1>6. kind = "read" => \A g \in Frames \ {f} : Suspended(g) => KindOf(frame[g].at) # "read"
  BY <1>3
<1> QED BY <1>1, <1>2, <1>4, <1>5, <1>6, Resumes

-----------------------------------------------------------------------------
(* What frames call. *)
LEMMA Caller ==
  ASSUME FInv, NEW f \in Frames, MayCall(f)
  PROVE  /\ frame[f] \in FrameRecords /\ frame[f].timer = FALSE /\ ~Suspended(f)
         /\ frame \in [Frames -> FrameRecords] /\ ahd \in [Kinds -> 0 .. NFrames]
         /\ \A g \in Frames \ {f} : Suspended(g) => ahd[KindOf(frame[g].at)] = g
<1>1. frame[f] \in FrameRecords /\ frame[f].at \in {"run", "none"}
  BY Zenon DEF FInv, FramesTyped, MayCall
<1>2. frame[f].timer = FALSE
  BY <1>1 DEF FInv, TimerOnlyWhileWaiting, FrameRecords
<1>3. ~Suspended(f)
  BY <1>1 DEF Suspended, Kinds
<1> QED BY <1>1, <1>2, <1>3 DEF FInv, FramesTyped, WaitingIsRegistered

(* So does a frame that registers itself in a free handle. *)
LEMMA Waits ==
  ASSUME FInv, NEW f \in Frames, MayCall(f), NEW at \in Kinds, Free(at),
         NEW timed \in BOOLEAN, timed => at \in {"connect", "read", "drain"},
         Wait(f, at, timed)
  PROVE  FInv'
<1> DEFINE r == [frame[f] EXCEPT !.at = at, !.timer = timed]
           h == [ahd EXCEPT ![at] = f]
<1>1. r \in FrameRecords /\ r.at = at /\ r.timer = timed
  BY Caller, Zenon DEF FrameRecords
<1>2. h \in [Kinds -> 0 .. NFrames] /\ h[at] = f /\ \A x \in Kinds \ {at} : h[x] = ahd[x]
  BY Caller, FrameNumbers, Zenon
<1>3. frame' = [frame EXCEPT ![f] = r] /\ ahd' = h
  BY Caller, Zenon DEF Wait, KindOf, Kinds
<1> HIDE DEF r, h
<1>4. KindOf(at) = at
  BY DEF KindOf, Kinds
<1>5. \A g \in Frames \ {f} : Suspended(g) =>
        KindOf(frame[g].at) \in Kinds \ {at} /\ ahd[KindOf(frame[g].at)] = g
  BY Caller, Zenon DEF Free, Suspended, KindOf, Kinds
<1>6. \A g \in Frames \ {f} : Suspended(g) => h[KindOf(frame[g].at)] = g
  BY <1>2, <1>5
<1> QED BY <1>1, <1>2, <1>3, <1>4, <1>6, Moves, Zenon

(* So does a call that does not wait. *)
LEMMA Calls ==
  ASSUME FInv, NEW f \in Frames, MayCall(f), GoesOn(f), UNCHANGED ahd
  PROVE  FInv'
<1> DEFINE r == [frame[f] EXCEPT !.at = "run"]
<1>1. r \in FrameRecords /\ r.at = "run" /\ r.timer = FALSE
  BY Caller, Zenon DEF FrameRecords
<1>2. frame' = [frame EXCEPT ![f] = r]
  BY Caller DEF GoesOn
<1> HIDE DEF r
<1> QED BY <1>1, <1>2, Caller, RunsOn, Zenon

(* a_read keeps it, whether the bytes are there or the frame waits. *)
LEMMA ReadsBytes ==
  ASSUME FInv, NEW f \in Frames, NEW min \in Nat, NEW max \in Nat,
         NEW timed \in BOOLEAN, a_read(f, min, max, timed)
  PROVE  FInv'
<1>1. MayCall(f) /\ Free("read")
  BY DEF a_read
<1>2. CASE used_size(sock.rb) >= min
  <2> DEFINE r == [frame[f] EXCEPT !.at = "run", !.min = min, !.max = max]
  <2>1. r \in FrameRecords /\ r.at = "run" /\ r.timer = FALSE
    BY <1>1, Caller, Zenon DEF FrameRecords
  <2>2. TakeBytes(f, sock, ahd, r)
    BY <1>2 DEF a_read
  <2> HIDE DEF r
  <2> QED BY <1>1, <2>1, <2>2, Caller, Takes, Zenon
<1>3. CASE ~(used_size(sock.rb) >= min)
  <2> DEFINE r == [frame[f] EXCEPT !.at = "read", !.min = min, !.max = max,
                                   !.timer = timed]
             h == [ahd EXCEPT !.read = f]
  <2>1. r \in FrameRecords /\ r.at = "read" /\ r.timer = timed
    BY <1>1, Caller, Zenon DEF FrameRecords, Kinds
  <2>2. h \in [Kinds -> 0 .. NFrames] /\ h["read"] = f
        /\ \A x \in Kinds \ {"read"} : h[x] = ahd[x]
    <3>1. ahd \in [Kinds -> 0 .. NFrames] /\ f \in 0 .. NFrames /\ "read" \in Kinds
      BY <1>1, Caller, FrameNumbers, Zenon DEF Kinds
    <3> QED BY <3>1
  <2>3. frame' = [frame EXCEPT ![f] = r] /\ ahd' = h
    BY <1>3 DEF a_read
  <2>4. \A g \in Frames \ {f} : Suspended(g) =>
          KindOf(frame[g].at) \in Kinds \ {"read"} /\ ahd[KindOf(frame[g].at)] = g
    BY <1>1, Caller, Zenon DEF Free, Suspended, KindOf, Kinds
  <2> HIDE DEF r, h
  <2>5. \A g \in Frames \ {f} : Suspended(g) => h[KindOf(frame[g].at)] = g
    BY <2>2, <2>4
  <2> QED BY <2>1, <2>2, <2>3, <2>5, Moves, Zenon DEF KindOf
<1> QED BY <1>2, <1>3

(* The calls of the program keep the invariant of the frames. *)
LEMMA UserKeepsFrames ==
  ASSUME FInv, UserCode
  PROVE  FInv'
<1> PICK f \in Frames :
       \/ \E timed \in BOOLEAN : a_connect(f, timed)
       \/ /\ sock.st # "Uninitialized"
          /\ \/ \E timed \in BOOLEAN : a_drain(f, timed)
             \/ \E p \in ReadCalls : a_read(f, p[1], p[2], p[3])
             \/ a_readUntil(f) \/ end(f) \/ destroy(f)
             \/ \E n \in WriteSizes : a_write(f, n) \/ write(f, n)
  BY DEF UserCode
<1>1. ASSUME NEW timed \in BOOLEAN, a_connect(f, timed) PROVE FInv'
  BY <1>1, Waits DEF a_connect, Kinds
<1>2. ASSUME NEW timed \in BOOLEAN, a_drain(f, timed) PROVE FInv'
  BY <1>2, Waits, Calls DEF a_drain, Kinds
<1>3. ASSUME NEW p \in ReadCalls, a_read(f, p[1], p[2], p[3])
      PROVE  FInv'
  <2>1. p[1] \in Nat /\ p[2] \in Nat /\ p[3] \in BOOLEAN
    BY CoroutineAssumption, BufferAssumption
  <2> QED BY <1>3, <2>1, ReadsBytes
<1>4. ASSUME a_readUntil(f) PROVE FInv'
  <2>1. MayCall(f) /\ Free("read") /\ ReadLine(f, sock, ahd, frame[f])
    BY <1>4 DEF a_readUntil
  <2>2. \A g \in Frames \ {f} : Suspended(g) =>
          ahd[KindOf(frame[g].at)] = g /\ KindOf(frame[g].at) # "read"
    BY <2>1, Caller, Zenon DEF Free
  <2> QED BY <2>1, <2>2, Caller, ReadsLine, Zenon
<1>5. ASSUME end(f) PROVE FInv'
  BY <1>5, Calls DEF end
<1>6. ASSUME destroy(f) PROVE FInv'
  BY <1>6, Calls DEF destroy
<1>7. ASSUME NEW n \in WriteSizes, a_write(f, n) PROVE FInv'
  <2>1. \/ UNCHANGED <<frame, ahd>> \/ Wait(f, "write", FALSE)
        \/ GoesOn(f) /\ UNCHANGED ahd
    BY <1>7, Zenon DEF a_write, appWrite2
  <2>2. MayCall(f) /\ Free("write") /\ "write" \in Kinds
    BY <1>7, Zenon DEF a_write, Kinds
  <2>3. CASE Wait(f, "write", FALSE)
    BY <2>2, <2>3, Waits, Zenon
  <2> QED BY <2>1, <2>2, <2>3, Stays, Calls, Zenon
<1>8. ASSUME NEW n \in WriteSizes, write(f, n) PROVE FInv'
  BY <1>8, Calls, Zenon DEF write
<1> QED BY <1>1, <1>2, <1>3, <1>4, <1>5, <1>6, <1>7, <1>8

-----------------------------------------------------------------------------
(* The loop. *)
LEMMA InputKeepsFrames ==
  ASSUME FInv, InputEvent
  PROVE  FInv'
<1> DEFINE K == \E d : \E exc \in BOOLEAN : ahd["read"] # 0 /\ ResumeKind("read", d, exc)
<1>1. K => FInv'
  BY ResumesKind DEF Kinds
<1>2. ASSUME ahd.read # 0, CoroutineReadEvent PROVE K \/ UNCHANGED <<frame, ahd>>
  <2>1. CASE FirstRead(sock.rb) = 0
    BY <1>2, <2>1, Zenon DEF CoroutineReadEvent, Stop
  <2>2. CASE FirstRead(sock.rb) # 0
    <3> DEFINE r == read(sock.rb, Waiting, need)
               d == [sock EXCEPT !.rb = r.buff]
               low == used_size(r.buff) < need
    <3>1. UNCHANGED <<frame, ahd>> \/ ResumeKind("read", d, low)
      BY <1>2, <2>2 DEF CoroutineReadEvent
    <3>2. low \in BOOLEAN
      OBVIOUS
    <3> HIDE DEF d, low
    <3> QED BY <1>2, <3>1, <3>2
  <2> QED BY <2>1, <2>2
<1>3. ASSUME HandlerReadEvent PROVE UNCHANGED <<frame, ahd>>
  BY <1>3 DEF HandlerReadEvent
<1>4. ASSUME ReadFails PROVE K \/ UNCHANGED <<frame, ahd>>
  <2> DEFINE d == closeSocket(sock, "ErrorClosing")
  <2>1. UNCHANGED <<frame, ahd>> \/ (ahd.read # 0 /\ ResumeKind("read", d, TRUE))
    BY <1>4, Zenon DEF ReadFails
  <2> HIDE DEF d
  <2> QED BY <2>1, Zenon
<1>5. \/ UNCHANGED <<frame, ahd>>
      \/ ahd.read # 0 /\ CoroutineReadEvent
      \/ HandlerReadEvent \/ ReadFails
  BY Zenon DEF InputEvent
<1> HIDE DEF K
<1> QED BY <1>1, <1>2, <1>3, <1>4, <1>5, Stays

(* So does resuming after a write or a connect. *)
LEMMA OutKeepsFrames ==
  ASSUME FInv, NEW kind \in Kinds, NEW d, Out(kind, d)
  PROVE  FInv'
BY ResumesKind, Stays, Zenon DEF Out

(* So does infraProcessWriteEvent. *)
LEMMA WriteKeepsFrames ==
  ASSUME FInv, WriteEvent
  PROVE  FInv'
<1>1. ASSUME NEW bad, AllSent(bad) PROVE FInv'
  <2>1. \E d : Out("drain", d)
    BY <1>1 DEF AllSent
  <2> QED BY <2>1, OutKeepsFrames DEF Kinds
<1>2. ASSUME RestNext PROVE FInv'
  BY <1>1, <1>2, Stays, Zenon DEF RestNext
<1>3. \/ UNCHANGED <<frame, ahd>> \/ (\E d : Out("connect", d))
      \/ RestNext \/ AllSent(FALSE)
  BY Zenon DEF WriteEvent, Nothing, Stop
<1> QED BY <1>1, <1>2, <1>3, OutKeepsFrames, Stays, Zenon DEF Kinds

(* So does resuming the frames of a closed socket. *)
LEMMA ReleaseKeepsFrames ==
  ASSUME FInv, LoopTyped, Release
  PROVE  FInv'
<1> PICK i \in DOMAIN loop.left : Held(i) /\ ResumeKind(loop.left[i], sock, TRUE)
  BY Zenon DEF Release
<1>1. loop.left[i] \in Kinds
  BY DEF LoopTyped
<1>2. ahd[loop.left[i]] # 0
  BY DEF Held
<1> QED BY <1>1, <1>2, ResumesKind, Zenon

(* So does the timeout of an awaiter. *)
LEMMA TimeoutKeepsFrames ==
  ASSUME FInv, NEW f \in Frames, ActionTimeout(f)
  PROVE  FInv'
<1>1. Resume(f, "timer", sock, ahd, FALSE) /\ ahd \in [Kinds -> 0 .. NFrames]
  BY Zenon DEF ActionTimeout, FInv, FramesTyped
<1>2. \A g \in Frames \ {f} : Suspended(g) => ahd[KindOf(frame[g].at)] = g
  BY DEF FInv, WaitingIsRegistered
<1> QED BY <1>1, <1>2, Resumes, Zenon

(* Every step keeps the invariant of the frames. *)
LEMMA NextKeepsFrames ==
  ASSUME FInv, LoopTyped, Next
  PROVE  FInv'
<1>1. ASSUME \/ Poll \/ PollTimeout \/ ReadHandled \/ EndHandled \/ OutHandled
             \/ ImmediatesDone \/ CloseHandled \/ ReleaseHandled
      PROVE  FInv'
  BY <1>1, Ends, Zenon DEF Poll, PollTimeout, ReadHandled, EndHandled, OutHandled,
                    ImmediatesDone, CloseHandled, ReleaseHandled
<1>2. ASSUME Released \/ Network PROVE FInv'
  BY <1>2, Stays, Zenon DEF Released, Network
<1> QED BY <1>1, <1>2, UserKeepsFrames, InputKeepsFrames, WriteKeepsFrames,
           ReleaseKeepsFrames, TimeoutKeepsFrames DEF Next, LoopStep, Timers

-----------------------------------------------------------------------------
(* The ring: whatever an operation takes out or puts in, its offsets stay  *)
(* inside the memory, for every size of it.                                *)
Bytes == 0 .. MaxBytes

Offsets == 0 .. alloc_size - 1

Rings == [m : [Offsets -> Bytes], b : Offsets, e : Offsets]

(* The ring is entered at an offset that lies in it. *)
LEMMA Remainder == ASSUME NEW x \in Nat PROVE x % alloc_size \in Offsets
<1> DEFINE c == alloc_size
<1>1. c \in Nat \ {0}
  BY BufferAssumption
<1> HIDE DEF c
<1>2. x % c \in 0 .. c - 1
  BY <1>1
<1> QED BY <1>2 DEF c, Offsets

(* get_ready_data leaves a ring. *)
LEMMA GetReadyData ==
  ASSUME NEW c \in Rings, NEW n \in Nat
  PROVE  get_ready_data(c, n).buff \in Rings
<1> DEFINE near == Min({n, Forward(c)})
           turn == Wrapped(c) /\ near = Forward(c)
           far  == IF turn THEN Min({n - near, c.e}) ELSE 0
           b    == IF turn THEN far ELSE c.b + near
<1>1. c.b \in Offsets /\ c.e \in Offsets /\ alloc_size \in Nat
  BY BufferAssumption DEF Rings
<1>2. Forward(c) \in Nat /\ Forward(c) = IF c.b > c.e THEN alloc_size - c.b ELSE c.e - c.b
  BY <1>1 DEF Forward, Wrapped, Offsets
<1>3. near \in Nat /\ near <= n /\ near <= Forward(c)
  BY <1>2, LeastOfTwo, Zenon
<1>4. b \in Offsets
  <2>1. CASE turn
    <3>1. n - near \in Nat /\ c.e \in Nat
      BY <1>1, <1>3 DEF Offsets
    <3> HIDE DEF near
    <3>2. Min({n - near, c.e}) \in Nat /\ Min({n - near, c.e}) <= c.e
      BY <3>1, LeastOfTwo, Zenon
    <3>3. b = Min({n - near, c.e})
      BY <2>1
    <3> HIDE DEF b
    <3> QED BY <1>1, <3>2, <3>3 DEF Offsets
  <2>2. CASE ~turn
    <3>1. b = c.b + near
      BY <2>2
    <3>2. ~(c.b > c.e) \/ near # Forward(c)
      BY <2>2 DEF Wrapped
    <3> HIDE DEF near, b
    <3> QED BY <1>1, <1>2, <1>3, <3>1, <3>2 DEF Offsets
  <2> QED BY <2>1, <2>2
<1>5. get_ready_data(c, n).buff = [c EXCEPT !.b = b]
  BY DEF get_ready_data
<1> HIDE DEF b
<1> QED BY <1>4, <1>5 DEF Rings

(* Storing bytes leaves a ring. *)
LEMMA Stored ==
  ASSUME NEW c \in Rings, NEW s \in Seq(Bytes)
  PROVE  Store(c, s) \in Rings
<1> DEFINE e == (c.e + Len(s)) % alloc_size
           m == [i \in DOMAIN c.m |-> IF i - c.e + 1 \in DOMAIN s
                                      THEN s[i - c.e + 1] ELSE c.m[i]]
<1>1. e \in Offsets
  <2>1. c.e + Len(s) \in Nat
    BY BufferAssumption DEF Rings, Offsets
  <2> QED BY <2>1, Remainder
<1>2. m \in [Offsets -> Bytes]
  <2>1. DOMAIN c.m = Offsets /\ \A i \in Offsets : c.m[i] \in Bytes
    BY DEF Rings
  <2>2. \A i \in DOMAIN s : s[i] \in Bytes
    OBVIOUS
  <2> QED BY <2>1, <2>2
<1>3. Store(c, s) = [c EXCEPT !.m = m, !.e = e]
  BY DEF Store
<1> HIDE DEF m, e
<1> QED BY <1>1, <1>2, <1>3, Zenon DEF Rings

(* A part of a sequence has elements of the same set. *)
LEMMA SubSeqTyped ==
  ASSUME NEW S, NEW s \in Seq(S), NEW a \in Nat \ {0}, NEW n \in Nat, n <= Len(s)
  PROVE  SubSeq(s, a, n) \in Seq(S)
OBVIOUS

(* read leaves a ring, and takes no more than there is. *)
LEMMA ReadTyped ==
  ASSUME NEW c \in Rings, NEW s \in Seq(Bytes), NEW target
  PROVE  /\ read(c, s, target).buff \in Rings
         /\ read(c, s, target).taken \in 0 .. Len(s)
<1> DEFINE n == Min({Len(s), FirstRead(c)})
           d == Store(c, SubSeq(s, 1, n))
           k == Min({Len(s) - n, c.b - 1})
           small == Wrapped(c) \/ d.e # 0 \/ n = 0 \/ alloc_size >= c.b + target
<1>1. c.b \in Offsets /\ c.e \in Offsets /\ alloc_size \in Nat
  BY BufferAssumption DEF Rings
<1>2. FirstRead(c) \in Nat
  BY SMTT(30), <1>1 DEF FirstRead, Wrapped, Offsets
<1>3. n \in 0 .. Len(s) /\ n <= FirstRead(c)
  <2>1. n \in Nat /\ n <= Len(s) /\ n <= FirstRead(c)
    <3>1. Len(s) \in Nat
      OBVIOUS
    <3> QED BY <1>2, <3>1, LeastOfTwo, Zenon
  <2> HIDE DEF n
  <2> QED BY <2>1
<1>4. SubSeq(s, 1, n) \in Seq(Bytes) /\ Len(SubSeq(s, 1, n)) = n
  <2> HIDE DEF n
  <2> QED BY <1>3
<1>5. d \in Rings /\ d.e = (c.e + n) % alloc_size
  <2>1. d \in Rings
    BY <1>4, Stored, Zenon
  <2>2. d.e = (c.e + Len(SubSeq(s, 1, n))) % alloc_size
    BY Zenon DEF Store, Rings
  <2> QED BY <1>4, <2>1, <2>2
<1>6. CASE small
  <2>1. read(c, s, target) = [buff |-> d, taken |-> n]
    BY <1>6 DEF read
  <2> HIDE DEF d, n
  <2> QED BY <1>3, <1>5, <2>1
<1>7. CASE ~small
  <2> DEFINE t == Store(d, SubSeq(s, n + 1, n + k))
  <2>1. read(c, s, target) = [buff |-> t, taken |-> n + k]
    BY <1>7 DEF read
  <2>2. c.b # 0
    <3>1. CASE c.b = 0
      <4>1. ~(c.b > c.e)
        BY <1>7 DEF Wrapped
      <4>2. n <= alloc_size - 1 - c.e /\ n # 0
        BY <1>1, <1>3, <1>7, <3>1, <4>1 DEF FirstRead, Wrapped
      <4> DEFINE x == c.e + n
      <4>3. x \in 1 .. alloc_size - 1
        <5> HIDE DEF n
        <5> QED BY <1>1, <1>3, <4>2 DEF Offsets
      <4>4. x % alloc_size = x
        <5> DEFINE w == alloc_size
        <5>1. x \in 1 .. w - 1 /\ w \in Nat
          BY <1>1, <4>3
        <5> HIDE DEF w, x
        <5>2. x % w = x
          BY <5>1
        <5> QED BY <5>2 DEF w
      <4>5. x % alloc_size = 0
        BY <1>5, <1>7
      <4> HIDE DEF x
      <4> QED BY <4>3, <4>4, <4>5
    <3> QED BY <3>1
  <2>3. Len(s) - n \in Nat /\ c.b - 1 \in Nat
    <3> HIDE DEF n
    <3> QED BY <1>1, <1>3, <2>2 DEF Offsets
  <2>4. k \in Nat /\ k <= Len(s) - n
    <3> HIDE DEF n
    <3> QED BY <2>3, LeastOfTwo, Zenon
  <2>5. SubSeq(s, n + 1, n + k) \in Seq(Bytes)
    <3> HIDE DEF n, k
    <3> QED BY <1>3, <2>4, SubSeqTyped
  <2>6. t \in Rings
    <3> HIDE DEF n, k, d
    <3> QED BY <1>5, <2>5, Stored, Zenon
  <2> HIDE DEF t, n, k
  <2> QED BY <1>3, <2>1, <2>4, <2>6
<1> QED BY <1>6, <1>7

(* What lies in one piece in the ring is a sequence of bytes. *)
LEMMA SpanTyped ==
  ASSUME NEW c \in Rings, NEW i \in Nat, NEW n \in Nat, i + n <= alloc_size
  PROVE  Span(c, i, n) \in Seq(Bytes)
<1>1. alloc_size \in Nat
  BY BufferAssumption
<1>2. ASSUME NEW k \in 1 .. n PROVE c.m[i + k - 1] \in Bytes
  <2>1. i + k - 1 \in Offsets
    BY <1>1 DEF Offsets
  <2> QED BY <2>1 DEF Rings
<1>3. Span(c, i, n) \in [1 .. n -> Bytes]
  BY <1>2, Zenon DEF Span
<1> QED BY <1>3

(* So is all of its contents. *)
LEMMA ContentsTyped == ASSUME NEW c \in Rings PROVE Contents(c) \in Seq(Bytes)
<1>1. c.b \in Offsets /\ c.e \in Offsets /\ alloc_size \in Nat
  BY BufferAssumption DEF Rings
<1>2. CASE c.b <= c.e
  <2>1. c.e - c.b \in Nat /\ c.b + (c.e - c.b) <= alloc_size /\ c.b \in Nat
    BY <1>1, <1>2 DEF Offsets
  <2>2. Span(c, c.b, c.e - c.b) \in Seq(Bytes)
    BY <2>1, SpanTyped
  <2> QED BY <1>2, <2>2 DEF Contents
<1>3. CASE ~(c.b <= c.e)
  <2>1. alloc_size - c.b \in Nat /\ c.b + (alloc_size - c.b) <= alloc_size
        /\ c.b \in Nat /\ c.e \in Nat /\ 0 + c.e <= alloc_size
    BY <1>1, <1>3 DEF Offsets
  <2>2. Span(c, c.b, alloc_size - c.b) \in Seq(Bytes) /\ Span(c, 0, c.e) \in Seq(Bytes)
    BY <2>1, SpanTyped
  <2> QED BY <1>3, <2>2 DEF Contents
<1> QED BY <1>2, <1>3

(* read_ready_data_until leaves a ring. *)
LEMMA ReadUntilTyped ==
  ASSUME LeastLaw, NEW c \in Rings
  PROVE  read_ready_data_until(c, LineSize).buff \in Rings
<1> DEFINE s    == Contents(c)
           edge == Wrapped(c) /\ Forward(c) = LineSize
           ends == {k \in 1 .. Len(s) : /\ s[k] \in Newlines
                                        /\ k <= IF edge THEN LineSize ELSE LineSize + 1}
           n    == IF ends # {} THEN Min(ends) ELSE Min({Len(s), LineSize})
           b    == (c.b + n) % alloc_size
<1>1. Len(s) \in Nat /\ LineSize \in Nat
  BY ContentsTyped, CoroutineAssumption
<1>2. n \in Nat
  <2>1. CASE ends # {}
    <3>1. ends \subseteq Nat
      BY <1>1
    <3> HIDE DEF ends
    <3>2. Min(ends) \in ends
      BY <2>1, <3>1, Zenon DEF LeastLaw
    <3>3. n = Min(ends)
      BY <2>1
    <3> QED BY <3>1, <3>2, <3>3, Zenon
  <2>2. CASE ends = {}
    <3>1. n = Min({Len(s), LineSize})
      BY <2>2
    <3> HIDE DEF ends, s
    <3>2. Min({Len(s), LineSize}) \in Nat
      BY <1>1, LeastOfTwo, Zenon
    <3> QED BY <3>1, <3>2
  <2> QED BY <2>1, <2>2
<1>3. b \in Offsets
  <2> HIDE DEF n
  <2>1. c.b + n \in Nat
    BY <1>2, BufferAssumption DEF Rings, Offsets
  <2> QED BY <2>1, Remainder
<1>4. read_ready_data_until(c, LineSize).buff = [c EXCEPT !.b = b]
  BY DEF read_ready_data_until
<1> HIDE DEF b
<1> QED BY <1>3, <1>4 DEF Rings

-----------------------------------------------------------------------------
(* The socket, what the operating system knows of it, and the loop. *)
SockFields ==
  [st : States, rend : BOOLEAN, rb : Rings, wbuf : Nat, wcap : Nat,
   rest : WriteSizes \cup {0}, ev : SUBSET {"IN", "OUT"}, pending : BOOLEAN, used : BOOLEAN]

(* A cell of writeBuffer is free. *)
SockRecords == {d \in SockFields : d.wbuf < d.wcap}

NetRecords ==
  [conn : {"none", "pending", "up", "err", "closed"}, sent : Bytes, taken : Bytes,
   pfin : BOOLEAN, fin : BOOLEAN]

NetTyped == net \in NetRecords /\ net.taken <= net.sent

Inv == FInv /\ sock \in SockRecords /\ NetTyped /\ LoopTyped

(* The names of the states. *)
LEMMA StateNames ==
  /\ \A x \in {"Uninitialized", "Connecting", "Connected", "LocalEnding", "LocalEnded",
               "Closing", "ErrorClosing", "Closed"} : x \in States
BY DEF States, ClosingStates

(* closeSocket leaves a socket. *)
LEMMA Closes ==
  ASSUME NEW d \in SockRecords, NEW how \in {"Closing", "ErrorClosing"}
  PROVE  closeSocket(d, how) \in SockRecords
<1>1. how \in States
  BY StateNames
<1>2. [d EXCEPT !.st = how, !.pending = TRUE] \in SockRecords
  BY <1>1, Zenon DEF SockRecords, SockFields
<1> QED BY <1>2 DEF closeSocket

(* A socket with another ring is a socket. *)
LEMMA RingReplaced ==
  ASSUME NEW d \in SockRecords, NEW c \in Rings
  PROVE  [d EXCEPT !.rb = c] \in SockRecords
BY DEF SockRecords, SockFields

(* Taking bytes leaves a socket. *)
LEMMA TakesSock ==
  ASSUME sock \in SockRecords, NEW d \in SockRecords, NEW f, NEW h,
         NEW r, r.max \in Nat, TakeBytes(f, d, h, r)
  PROVE  sock' \in SockRecords
<1> DEFINE c == get_ready_data(d.rb, r.max).buff
<1>1. sock' = sock \/ sock' = [d EXCEPT !.rb = c]
  BY Zenon DEF TakeBytes, Stop
<1>2. d.rb \in Rings
  BY DEF SockRecords, SockFields
<1>3. c \in Rings
  BY <1>2, GetReadyData
<1> HIDE DEF c
<1> QED BY <1>1, <1>3, RingReplaced

(* Taking a line leaves a socket. *)
LEMMA ReadsLineSock ==
  ASSUME LeastLaw, sock \in SockRecords, NEW d \in SockRecords, NEW f, NEW h, NEW r,
         ReadLine(f, d, h, r)
  PROVE  sock' \in SockRecords
<1> DEFINE c == read_ready_data_until(d.rb, LineSize).buff
<1>1. sock' = [d EXCEPT !.rb = c]
  BY DEF ReadLine
<1>2. d.rb \in Rings
  BY DEF SockRecords, SockFields
<1>3. c \in Rings
  BY <1>2, ReadUntilTyped
<1> HIDE DEF c
<1> QED BY <1>1, <1>3, RingReplaced

(* Resuming a frame leaves a socket. *)
LEMMA ResumesSock ==
  ASSUME LeastLaw, FInv, sock \in SockRecords, NEW d \in SockRecords, NEW f \in Frames,
         NEW by, NEW h, NEW exc \in BOOLEAN, Resume(f, by, d, h, exc)
  PROVE  sock' \in SockRecords
<1> DEFINE r == [frame[f] EXCEPT !.at = "run", !.exc = @ \/ exc, !.timer = FALSE]
           s == [r EXCEPT !.exc = frame[f].exc]
<1>1. frame[f] \in FrameRecords
  BY DEF FInv, FramesTyped
<1>2. r.max \in Nat
  <2>1. r.max = frame[f].max
    BY <1>1 DEF FrameRecords
  <2> HIDE DEF r
  <2> QED BY <1>1, <2>1 DEF FrameRecords
<1>3. \/ UNCHANGED sock \/ sock' = d
      \/ ReadLine(f, d, h, r)
      \/ TakeBytes(f, d, h, r)
  <2> HIDE DEF s
  <2>1. Resume(f, by, d, h, exc) =
          IF ~Suspended(f) \/ (frame[f].at = "line" /\ by # "read")
          THEN Stop("resumed")
          ELSE IF frame[f].at = "line"
          THEN IF exc THEN Continue(f, d, h, s)
               ELSE IF used_size(d.rb) = 0 THEN Stop("isData")
               ELSE IF frame[f].part THEN Stop("b.size() == 0")
               ELSE ReadLine(f, d, h, r)
          ELSE IF frame[f].at = "read" /\ ~r.exc /\ by # "timer" THEN TakeBytes(f, d, h, r)
          ELSE Continue(f, d, h, r)
    BY Zenon DEF Resume, s
  <2> HIDE DEF r
  <2> QED BY <2>1, Zenon DEF Stop, Continue
<1> HIDE DEF r
<1> QED BY <1>2, <1>3, TakesSock, ReadsLineSock

(* The same for the frame in the handle of a kind. *)
LEMMA ResumesKindSock ==
  ASSUME LeastLaw, FInv, sock \in SockRecords, NEW kind \in Kinds, ahd[kind] # 0,
         NEW d \in SockRecords, NEW exc \in BOOLEAN, ResumeKind(kind, d, exc)
  PROVE  sock' \in SockRecords
<1>1. ahd[kind] \in Frames
  BY CoroutineAssumption DEF FInv, FramesTyped, Frames
<1> QED BY <1>1, ResumesSock DEF ResumeKind

(* send() takes no more than it is given. *)
LEMMA Sends ==
  ASSUME NEW n \in Nat, NEW k \in SendResults(n)
  PROVE  k \in -1 .. n
BY DEF SendResults

(* shutdown leaves a network. *)
LEMMA ShutdownTyped == ASSUME NetTyped, Shutdown PROVE NetTyped'
<1>1. net' \in {[net EXCEPT !.fin = TRUE], [net EXCEPT !.conn = "none"], net}
  BY DEF Shutdown
<1> QED BY <1>1, Zenon DEF NetTyped, NetRecords

(* The fields of the socket, one at a time. *)
LEMMA SockUpdates ==
  ASSUME NEW d \in SockRecords
  PROVE  /\ \A x \in States : [d EXCEPT !.st = x] \in SockRecords
         /\ \A x \in SUBSET {"IN", "OUT"} : [d EXCEPT !.ev = x] \in SockRecords
         /\ \A x \in WriteSizes \cup {0} : [d EXCEPT !.rest = x] \in SockRecords
         /\ [d EXCEPT !.pending = FALSE] \in SockRecords
         /\ [d EXCEPT !.rend = TRUE] \in SockRecords
         /\ d.ev \in SUBSET {"IN", "OUT"} /\ d.wbuf \in Nat /\ d.wcap \in Nat
         /\ d.wbuf < d.wcap /\ d.rest \in WriteSizes \cup {0} /\ d.st \in States
BY Zenon DEF SockRecords, SockFields

(* writeBuffer with another number of bytes in it. *)
LEMMA Buffered ==
  ASSUME NEW d \in SockRecords, NEW w \in Nat, w < d.wcap
  PROVE  [d EXCEPT !.wbuf = w] \in SockRecords
BY Zenon DEF SockRecords, SockFields

(* append leaves a free cell in writeBuffer, whether it grows or not. *)
LEMMA Appends ==
  ASSUME LeastLaw, NEW d \in SockRecords, NEW n \in Nat
  PROVE  append(d, n) \in SockRecords
<1>1. d.wbuf \in Nat /\ d.wcap \in Nat /\ d.wbuf < d.wcap
  BY SockUpdates, Zenon
<1> DEFINE w == d.wbuf + n
<1>2. CASE n <= remaining_capacity(d)
  <2>1. w \in Nat /\ w < d.wcap
    BY <1>1, <1>2 DEF remaining_capacity
  <2>2. append(d, n) = [d EXCEPT !.wbuf = w]
    BY <1>2 DEF append
  <2> HIDE DEF w
  <2> QED BY <2>1, <2>2, Buffered
<1>3. CASE ~(n <= remaining_capacity(d)) /\ GrownSizes(d, n) = {}
  BY <1>3 DEF append
<1>4. CASE ~(n <= remaining_capacity(d)) /\ GrownSizes(d, n) # {}
  <2> DEFINE c == Min(GrownSizes(d, n))
  <2>1. GrownSizes(d, n) \in SUBSET Nat
    <3>1. AllocSizes \subseteq Nat
      BY CoroutineAssumption
    <3>2. 2 * d.wcap \in Nat
      BY <1>1
    <3> QED BY <3>1, <3>2, Zenon DEF GrownSizes
  <2>2. c \in GrownSizes(d, n)
    BY <1>4, <2>1, Zenon DEF LeastLaw
  <2>3. append(d, n) = [d EXCEPT !.wbuf = w, !.wcap = c]
    BY <1>4 DEF append
  <2> HIDE DEF c
  <2>4. c \in Nat /\ w \in Nat /\ w < c
    BY <1>1, <2>1, <2>2 DEF GrownSizes
  <2> HIDE DEF w
  <2> QED BY <2>3, <2>4, Zenon DEF SockRecords, SockFields
<1> QED BY <1>2, <1>3, <1>4

(* All of writeBuffer has been sent. *)
LEMMA Drained ==
  ASSUME sock \in SockRecords, NEW bad \in BOOLEAN
  PROVE  /\ [sock EXCEPT !.wbuf = 0] \in SockRecords
         /\ [sock EXCEPT !.wbuf = 0, !.rest = IF bad THEN @ ELSE 0, !.ev = @ \ {"OUT"}]
              \in SockRecords
<1> DEFINE r == IF bad THEN sock.rest ELSE 0
           v == sock.ev \ {"OUT"}
           d == [sock EXCEPT !.wbuf = 0]
<1>1. 0 < sock.wcap /\ 0 \in Nat
  <2>1. sock.wbuf \in Nat /\ sock.wcap \in Nat /\ sock.wbuf < sock.wcap
    BY SockUpdates, Zenon
  <2> QED BY <2>1
<1>2. d \in SockRecords
  BY <1>1, Buffered
<1>3. sock.rest \in WriteSizes \cup {0} /\ sock.ev \in SUBSET {"IN", "OUT"}
  BY SockUpdates, Zenon
<1>4. r \in WriteSizes \cup {0} /\ v \in SUBSET {"IN", "OUT"}
  BY <1>3
<1> HIDE DEF r, v
<1>5. [sock EXCEPT !.wbuf = 0, !.rest = r, !.ev = v] \in SockRecords
  BY <1>1, <1>4, Zenon DEF SockRecords, SockFields
<1> QED BY <1>2, <1>5 DEF r, v

(* What writing n bytes does with the socket. *)
Written(n) ==
  \/ UNCHANGED sock
  \/ sock' = closeSocket(sock, "ErrorClosing")
  \/ \E k \in 0 .. n - 1 : sock' = [append(sock, n - k) EXCEPT !.ev = @ \cup {"OUT"}]
  \/ sock' = append(sock, n)
  \/ sock' = [sock EXCEPT !.rest = n]

(* Writing leaves a free cell in writeBuffer. *)
LEMMA WriteTyped ==
  ASSUME LeastLaw, sock \in SockRecords, NEW n \in WriteSizes, Written(n)
  PROVE  sock' \in SockRecords
<1>1. n \in Nat /\ n \in WriteSizes \cup {0}
  BY CoroutineAssumption
<1>2. ASSUME NEW k \in 0 .. n - 1,
             sock' = [append(sock, n - k) EXCEPT !.ev = @ \cup {"OUT"}]
      PROVE  sock' \in SockRecords
  <2> DEFINE m == n - k
             d == append(sock, m)
             e == d.ev \cup {"OUT"}
  <2>1. m \in Nat
    BY <1>1
  <2>2. sock' = [d EXCEPT !.ev = e]
    BY <1>2
  <2> HIDE DEF m
  <2>3. d \in SockRecords
    BY <2>1, Appends
  <2> HIDE DEF d
  <2>4. e \in SUBSET {"IN", "OUT"}
    BY <2>3, SockUpdates, Zenon
  <2> HIDE DEF e
  <2> QED BY <2>2, <2>3, <2>4, SockUpdates, Zenon
<1>3. CASE sock' = append(sock, n)
  BY <1>1, <1>3, Appends
<1>4. CASE sock' = [sock EXCEPT !.rest = n]
  BY <1>1, <1>4, SockUpdates, Zenon
<1> QED BY <1>2, <1>3, <1>4, Closes, Zenon DEF Written

(* The calls of the program keep socket, network and loop well formed. *)
LEMMA UserTyped ==
  ASSUME LeastLaw, Inv, UserCode
  PROVE  sock' \in SockRecords /\ NetTyped' /\ LoopTyped'
<1> USE DEF Inv
<1> PICK f \in Frames :
       \/ \E timed \in BOOLEAN : a_connect(f, timed)
       \/ /\ sock.st # "Uninitialized"
          /\ \/ \E timed \in BOOLEAN : a_drain(f, timed)
             \/ \E p \in ReadCalls : a_read(f, p[1], p[2], p[3])
             \/ a_readUntil(f) \/ end(f) \/ destroy(f)
             \/ \E n \in WriteSizes : a_write(f, n) \/ write(f, n)
  BY DEF UserCode
<1> DEFINE Goal == sock' \in SockRecords /\ NetTyped' /\ LoopTyped'
<1>1. (sock' \in SockRecords /\ UNCHANGED <<net, loop>>) => Goal
  BY DEF NetTyped, LoopTyped
<1> HIDE DEF Goal
<1>2. ASSUME NEW timed \in BOOLEAN, a_connect(f, timed) PROVE Goal
  <2>1. sock' = [sock EXCEPT !.st = "Connecting", !.ev = {"IN", "OUT"}]
        /\ net' = [net EXCEPT !.conn = "pending"] /\ UNCHANGED loop
    BY <1>2 DEF a_connect
  <2>2. sock' \in SockRecords
    BY <2>1, StateNames, Zenon DEF SockRecords, SockFields
  <2>3. NetTyped'
    BY <2>1 DEF NetTyped, NetRecords
  <2> QED BY <2>1, <2>2, <2>3 DEF Goal, LoopTyped
<1>3. ASSUME NEW timed \in BOOLEAN, a_drain(f, timed) PROVE Goal
  BY <1>1, <1>3 DEF a_drain
<1>4. ASSUME NEW p \in ReadCalls, a_read(f, p[1], p[2], p[3])
      PROVE  Goal
  <2> DEFINE r == [frame[f] EXCEPT !.at = "run", !.min = p[1], !.max = p[2]]
  <2>1. UNCHANGED <<net, loop>> /\ (UNCHANGED sock \/ TakeBytes(f, sock, ahd, r))
    BY <1>4, Zenon DEF a_read
  <2>2. p[2] \in Nat /\ frame[f] \in FrameRecords
    BY CoroutineAssumption DEF FInv, FramesTyped
  <2>3. r.max \in Nat
    BY <2>2 DEF FrameRecords
  <2> HIDE DEF r
  <2> QED BY <1>1, <2>1, <2>3, TakesSock
<1>5. ASSUME a_readUntil(f) PROVE Goal
  BY <1>1, <1>5, ReadsLineSock DEF a_readUntil
<1>6. ASSUME end(f) PROVE Goal
  <2>1. NetTyped'
    BY <1>6, ShutdownTyped DEF end, NetTyped
  <2>2. sock' \in SockRecords
    <3>1. [sock EXCEPT !.st = "LocalEnding"] \in SockRecords
          /\ [sock EXCEPT !.st = "LocalEnded"] \in SockRecords
      BY SockUpdates, StateNames, Zenon
    <3>2. closeSocket(sock, "Closing") \in SockRecords
      BY Closes
    <3> QED BY <1>6, <3>1, <3>2 DEF end
  <2> QED BY <1>6, <2>1, <2>2 DEF Goal, end, LoopTyped
<1>7. ASSUME destroy(f) PROVE Goal
  BY <1>1, <1>7, Closes DEF destroy
<1>8. ASSUME NEW n \in WriteSizes, a_write(f, n) \/ write(f, n) PROVE Goal
  <2>1. UNCHANGED <<net, loop>>
    BY <1>8, Zenon DEF a_write, write
  <2>2. Written(n)
    BY <1>8, Zenon DEF a_write, write, appWrite2, Written
  <2>3. sock' \in SockRecords
    BY <2>2, WriteTyped
  <2> QED BY <1>1, <2>1, <2>3
<1> QED BY <1>2, <1>3, <1>4, <1>5, <1>6, <1>7, <1>8 DEF Goal

(* So does what happens at the other end. *)
LEMMA NetworkTyped ==
  ASSUME Inv, Network
  PROVE  sock' \in SockRecords /\ NetTyped' /\ LoopTyped'
<1>1. UNCHANGED <<sock, loop>>
  BY Zenon DEF Network
<1>2. NetTyped'
  <2>1. CASE \/ net' \in {[net EXCEPT !.conn = "err"], [net EXCEPT !.conn = "up"],
                           [net EXCEPT !.pfin = TRUE]}
    BY <2>1, Zenon DEF Inv, NetTyped, NetRecords
  <2>2. ASSUME NEW n \in Segments, net.sent + n <= MaxBytes,
               net' = [net EXCEPT !.sent = @ + n]
        PROVE  NetTyped'
    <3> DEFINE s == net.sent + n
    <3>1. net \in NetRecords /\ net.taken <= net.sent
      BY DEF Inv, NetTyped
    <3>2. s \in Bytes /\ net.taken <= s
      BY <2>2, <3>1, CoroutineAssumption DEF NetRecords, Bytes
    <3>3. net' = [net EXCEPT !.sent = s]
      BY <2>2
    <3> HIDE DEF s
    <3> QED BY <3>1, <3>2, <3>3 DEF NetTyped, NetRecords
  <2> QED BY <2>1, <2>2, Zenon DEF Network
<1> QED BY <1>1, <1>2 DEF Inv, LoopTyped

(* So does going to another place of the loop. *)
LEMMA GotoTyped ==
  ASSUME LoopTyped, NEW pc \in UserPcs \cup {"in", "out", "release"}, Goto(pc)
  PROVE  LoopTyped'
<1> DEFINE r == IF pc \in {"inRead", "inEnd", "out"} THEN loop.rev ELSE {}
<1>1. r \in SUBSET {"IN", "OUT", "HUP", "ERR"}
  BY DEF LoopTyped
<1>2. loop' = [loop EXCEPT !.pc = pc, !.rev = r]
  BY DEF Goto
<1> HIDE DEF r
<1> QED BY <1>1, <1>2, Zenon DEF LoopTyped

(* So does poll(). *)
LEMMA PollTyped ==
  ASSUME Inv, Poll \/ PollTimeout
  PROVE  sock' \in SockRecords /\ NetTyped' /\ LoopTyped'
<1>1. UNCHANGED <<sock, net>>
  BY Zenon DEF Poll, PollTimeout
<1>2. Ready \in SUBSET {"IN", "OUT", "HUP", "ERR"}
  <2>1. sock.ev \in SUBSET {"IN", "OUT"}
    BY DEF Inv, SockRecords, SockFields
  <2> QED BY <2>1 DEF Ready
<1>3. PICK r \in SUBSET {"IN", "OUT", "HUP", "ERR"} :
        loop' = [loop EXCEPT !.pc = "in", !.rev = r]
  <2>1. \E r \in {Ready, Ready \ {"OUT"}, {}} : loop' = [loop EXCEPT !.pc = "in", !.rev = r]
    BY Zenon DEF Poll, PollTimeout
  <2> QED BY <1>2, <2>1, Zenon
<1>4. LoopTyped'
  BY <1>3, Zenon DEF Inv, LoopTyped
<1> QED BY <1>1, <1>4 DEF Inv, NetTyped

(* The loop goes on after a handler, and the end of the connection may be  *)
(* noted.                                                                  *)
LEMMA EndNoted ==
  ASSUME NEW d \in SockRecords
  PROVE  [d EXCEPT !.ev = @ \ {"IN"}, !.rend = TRUE] \in SockRecords
<1> DEFINE e == d.ev \ {"IN"}
<1>1. e \in SUBSET {"IN", "OUT"}
  BY DEF SockRecords, SockFields
<1> HIDE DEF e
<1>2. [d EXCEPT !.ev = e, !.rend = TRUE] \in SockRecords
  BY <1>1, Zenon DEF SockRecords, SockFields
<1> QED BY <1>2 DEF e

(* The names of the places in the loop. *)
LEMMA PcNames ==
  /\ \A x \in {"timers", "inRead", "inEnd", "inOut", "immediate", "inClose", "inRelease",
               "in", "out", "release"} : x \in UserPcs \cup {"in", "out", "release"}
BY DEF UserPcs

(* The end of the stream keeps socket and loop well formed. *)
LEMMA RemoteEndedTyped ==
  ASSUME sock \in SockRecords, LoopTyped, RemoteEnded
  PROVE  sock' \in SockRecords /\ LoopTyped'
<1>1. LoopTyped'
  BY GotoTyped, PcNames DEF RemoteEnded
<1>2. [sock EXCEPT !.ev = @ \ {"IN"}, !.rend = TRUE] \in SockRecords
  BY EndNoted, Zenon
<1>3. sock' \in SockRecords
  BY <1>2 DEF RemoteEnded
<1> QED BY <1>1, <1>3

(* The bytes that wait in the network. *)
LEMMA WaitingTyped ==
  ASSUME NetTyped
  PROVE  Waiting \in Seq(Bytes) /\ Len(Waiting) = net.sent - net.taken
<1>1. net.sent \in Bytes /\ net.taken \in Bytes /\ net.taken <= net.sent /\ MaxBytes \in Nat
  BY CoroutineAssumption DEF NetTyped, NetRecords
<1> DEFINE n == net.sent - net.taken
<1>2. n \in Nat
  BY <1>1 DEF Bytes
<1>3. \A i \in 1 .. n : net.taken + i \in Bytes
  BY <1>1 DEF Bytes
<1>4. Waiting = [i \in 1 .. n |-> net.taken + i]
  BY DEF Waiting
<1> HIDE DEF n
<1>5. Waiting \in [1 .. n -> Bytes]
  BY <1>3, <1>4
<1>6. Waiting \in Seq(Bytes) /\ Len(Waiting) = n
  BY <1>2, <1>5
<1> QED BY <1>6 DEF n

(* An input event for a coroutine keeps all well formed. *)
LEMMA CoroutineReadTyped ==
  ASSUME LeastLaw, Inv, ahd["read"] # 0, CoroutineReadEvent
  PROVE  sock' \in SockRecords /\ NetTyped' /\ LoopTyped'
<1> USE DEF Inv
<1>1. CASE FirstRead(sock.rb) = 0
  BY <1>1, Zenon DEF CoroutineReadEvent, Stop, NetTyped, LoopTyped
<1>2. CASE FirstRead(sock.rb) # 0
  <2> DEFINE r == read(sock.rb, Waiting, need)
             d == [sock EXCEPT !.rb = r.buff]
             low == used_size(r.buff) < need
             t == net.taken + r.taken
             z == r.taken = 0
  <2>1. r.buff \in Rings /\ r.taken \in 0 .. net.sent - net.taken
    <3>1. sock.rb \in Rings /\ Waiting \in Seq(Bytes) /\ Len(Waiting) = net.sent - net.taken
      BY WaitingTyped DEF SockRecords, SockFields
    <3> QED BY <3>1, ReadTyped
  <2>2. net' = [net EXCEPT !.taken = t]
    BY <1>2 DEF CoroutineReadEvent
  <2>3. \/ sock' = d /\ Goto("out")
        \/ ResumeKind("read", d, low) /\ loop' = [loop EXCEPT !.pc = "inRead", !.ended = z]
    BY <1>2 DEF CoroutineReadEvent
  <2>4. low \in BOOLEAN /\ z \in BOOLEAN
    OBVIOUS
  <2> HIDE DEF r
  <2>5. d \in SockRecords
    BY <2>1, RingReplaced
  <2>6. t \in Bytes /\ t <= net.sent
    <3>1. net.taken \in Bytes /\ net.sent \in Bytes /\ MaxBytes \in Nat
      BY CoroutineAssumption DEF NetTyped, NetRecords
    <3>2. r.taken \in Nat /\ net.taken + r.taken <= net.sent
      BY <2>1, <3>1 DEF Bytes
    <3> QED BY <3>1, <3>2 DEF Bytes
  <2> HIDE DEF d, low, t, z
  <2>7. NetTyped'
    BY <2>2, <2>6 DEF NetTyped, NetRecords
  <2>8. CASE sock' = d /\ Goto("out")
    BY <2>5, <2>7, <2>8, GotoTyped, PcNames
  <2>9. CASE ResumeKind("read", d, low) /\ loop' = [loop EXCEPT !.pc = "inRead", !.ended = z]
    <3>1. sock' \in SockRecords
      BY <2>4, <2>5, <2>9, ResumesKindSock DEF Kinds
    <3>2. LoopTyped'
      BY <2>4, <2>9, PcNames, Zenon DEF LoopTyped
    <3> QED BY <2>7, <3>1, <3>2
  <2> QED BY <2>3, <2>8, <2>9
<1> QED BY <1>1, <1>2

(* So does infraProcessReadEvent. *)
LEMMA InputTyped ==
  ASSUME LeastLaw, Inv, InputEvent
  PROVE  sock' \in SockRecords /\ NetTyped' /\ LoopTyped'
<1> USE DEF Inv
<1>1. CASE sock' = closeSocket(sock, "ErrorClosing") /\ Goto("immediate") /\ UNCHANGED net
  BY <1>1, Closes, GotoTyped, PcNames DEF NetTyped
<1>2. CASE ahd.read # 0 /\ CoroutineReadEvent
  BY <1>2, CoroutineReadTyped
<1>3. CASE HandlerReadEvent
  <2>1. CASE net' = [net EXCEPT !.taken = net.sent] /\ Goto("inRead") /\ UNCHANGED sock
    <3>1. NetTyped'
      BY <2>1 DEF NetTyped, NetRecords, Bytes
    <3> QED BY <2>1, <3>1, GotoTyped, PcNames
  <2>2. CASE RemoteEnded /\ UNCHANGED net
    BY <2>2, RemoteEndedTyped DEF NetTyped
  <2> QED BY <1>3, <2>1, <2>2 DEF HandlerReadEvent
<1>4. CASE ReadFails /\ UNCHANGED net
  <2> DEFINE d == closeSocket(sock, "ErrorClosing")
  <2>1. d \in SockRecords
    BY Closes
  <2>2. \/ ahd["read"] # 0 /\ ResumeKind("read", d, TRUE) /\ Goto("inRead")
        \/ sock' = d /\ Goto("out")
    BY <1>4, Zenon DEF ReadFails
  <2> HIDE DEF d
  <2>3. sock' \in SockRecords
    BY <2>1, <2>2, ResumesKindSock, Zenon DEF Kinds
  <2>4. LoopTyped'
    BY <2>2, GotoTyped, PcNames, Zenon
  <2> QED BY <1>4, <2>3, <2>4 DEF NetTyped
<1>5. CASE RemoteEnded /\ UNCHANGED net
  BY <1>5, RemoteEndedTyped DEF NetTyped
<1>6. CASE Goto("out") /\ UNCHANGED <<sock, net>>
  BY <1>6, GotoTyped, PcNames DEF NetTyped
<1> QED BY <1>1, <1>2, <1>3, <1>4, <1>5, <1>6, Zenon DEF InputEvent

(* So do the steps of the loop without an event. *)
LEMMA HandledTyped ==
  ASSUME Inv, ReadHandled \/ EndHandled \/ OutHandled \/ ImmediatesDone
              \/ CloseHandled \/ ReleaseHandled \/ Released
  PROVE  sock' \in SockRecords /\ NetTyped' /\ LoopTyped'
<1> USE DEF Inv
<1>1. CASE ReadHandled
  <2> DEFINE d == [sock EXCEPT !.ev = @ \ {"IN"}, !.rend = TRUE]
  <2>1. d \in SockRecords
    BY EndNoted, Zenon
  <2>2. UNCHANGED net /\ (sock' = d \/ UNCHANGED sock)
    BY <1>1, Zenon DEF ReadHandled
  <2>3. \/ loop' = [loop EXCEPT !.pc = "inEnd", !.ended = FALSE]
        \/ loop' = [loop EXCEPT !.pc = "out", !.ended = FALSE]
    BY <1>1, Zenon DEF ReadHandled
  <2> HIDE DEF d
  <2>4. LoopTyped'
    BY <2>3, PcNames, Zenon DEF LoopTyped
  <2> QED BY <2>1, <2>2, <2>4 DEF NetTyped
<1>2. CASE EndHandled
  <2> DEFINE d == [sock EXCEPT !.st = "LocalEnded"]
             e == [sock EXCEPT !.st = "LocalEnding"]
  <2>1. d \in SockRecords /\ e \in SockRecords
    BY SockUpdates, StateNames, Zenon
  <2>2. closeSocket(sock, "Closing") \in SockRecords /\ closeSocket(d, "Closing") \in SockRecords
    BY <2>1, Closes
  <2>3. sock' \in {closeSocket(sock, "Closing"), closeSocket(d, "Closing"), e, sock}
    BY <1>2, Zenon DEF EndHandled
  <2>4. (Shutdown \/ UNCHANGED net) /\ Goto("out")
    BY <1>2, Zenon DEF EndHandled
  <2>5. NetTyped'
    BY <2>4, ShutdownTyped DEF NetTyped
  <2> HIDE DEF d, e
  <2> QED BY <2>1, <2>2, <2>3, <2>4, <2>5, GotoTyped, PcNames
<1>3. CASE OutHandled
  BY <1>3, GotoTyped, PcNames, Zenon DEF OutHandled, NetTyped
<1>4. CASE ImmediatesDone
  <2>1. [sock EXCEPT !.ev = {}] \in SockRecords /\ [sock EXCEPT !.pending = FALSE] \in SockRecords
    BY SockUpdates, Zenon
  <2>2. sock' \in SockRecords
    BY <1>4, <2>1, Zenon DEF ImmediatesDone
  <2>3. net' = [net EXCEPT !.conn = "closed"] \/ UNCHANGED net
    BY <1>4, Zenon DEF ImmediatesDone
  <2>4. NetTyped'
    BY <2>3 DEF NetTyped, NetRecords
  <2> QED BY <1>4, <2>2, <2>4, GotoTyped, PcNames, Zenon DEF ImmediatesDone
<1>5. CASE CloseHandled
  <2> DEFINE l == <<"connect", "read", "write", "drain">>
  <2>1. sock' = [sock EXCEPT !.st = "Closed"] /\ UNCHANGED net
        /\ loop' = [loop EXCEPT !.pc = "release", !.left = l]
    BY <1>5, Zenon DEF CloseHandled
  <2>2. l \in Seq(Kinds)
    BY DEF Kinds
  <2> HIDE DEF l
  <2>3. LoopTyped'
    BY <2>1, <2>2, Zenon DEF LoopTyped
  <2> QED BY <2>1, <2>3, SockUpdates, StateNames, Zenon DEF NetTyped
<1>6. CASE ReleaseHandled
  BY <1>6, GotoTyped, PcNames, Zenon DEF ReleaseHandled, NetTyped
<1>7. CASE Released
  <2>1. sock' = [sock EXCEPT !.used = FALSE, !.pending = FALSE] /\ UNCHANGED net
        /\ loop' = [loop EXCEPT !.pc = "timers", !.left = <<>>]
    BY <1>7, Zenon DEF Released
  <2>2. sock' \in SockRecords
    BY <2>1, Zenon DEF SockRecords, SockFields
  <2>3. <<>> \in Seq(Kinds)
    OBVIOUS
  <2>4. LoopTyped'
    BY <2>1, <2>3, PcNames, Zenon DEF LoopTyped
  <2> QED BY <2>1, <2>2, <2>4 DEF NetTyped
<1> QED BY <1>1, <1>2, <1>3, <1>4, <1>5, <1>6, <1>7

(* So does resuming the frames of a closed socket. *)
LEMMA ReleaseTyped ==
  ASSUME LeastLaw, Inv, Release
  PROVE  sock' \in SockRecords /\ NetTyped' /\ LoopTyped'
<1> USE DEF Inv
<1> PICK i \in DOMAIN loop.left :
       /\ Held(i) /\ ResumeKind(loop.left[i], sock, TRUE) /\ UNCHANGED net
       /\ loop' = [loop EXCEPT !.pc = "inRelease", !.left = SubSeq(@, i + 1, Len(@))]
  BY Zenon DEF Release
<1> DEFINE l == SubSeq(loop.left, i + 1, Len(loop.left))
<1>1. loop.left \in Seq(Kinds)
  BY DEF LoopTyped
<1>2. l \in Seq(Kinds)
  BY <1>1
<1>3. loop' = [loop EXCEPT !.pc = "inRelease", !.left = l]
  OBVIOUS
<1> HIDE DEF l
<1>4. LoopTyped'
  BY <1>2, <1>3, PcNames, Zenon DEF LoopTyped
<1>5. loop.left[i] \in Kinds /\ ahd[loop.left[i]] # 0
  BY <1>1 DEF Held
<1>6. sock' \in SockRecords
  BY <1>5, ResumesKindSock, Zenon
<1> QED BY <1>4, <1>6 DEF NetTyped

(* So does resuming after a write or a connect. *)
LEMMA OutTyped ==
  ASSUME LeastLaw, Inv, NEW kind \in Kinds, NEW d \in SockRecords, Out(kind, d)
  PROVE  sock' \in SockRecords /\ LoopTyped'
<1>1. LoopTyped'
  BY GotoTyped, PcNames DEF Out, Inv
<1>2. sock' \in SockRecords
  BY ResumesKindSock, Zenon DEF Out, Inv
<1> QED BY <1>1, <1>2

(* So does a write event that resumes nobody. *)
LEMMA NothingTyped ==
  ASSUME Inv, NEW d \in SockRecords, Nothing(d)
  PROVE  sock' \in SockRecords /\ NetTyped' /\ LoopTyped'
BY GotoTyped, PcNames DEF Nothing, Inv, NetTyped

(* So does sending the last of what was buffered. *)
LEMMA AllSentTyped ==
  ASSUME LeastLaw, Inv, NEW bad \in BOOLEAN, AllSent(bad)
  PROVE  sock' \in SockRecords /\ NetTyped' /\ LoopTyped'
<1> USE DEF Inv
<1> DEFINE d == [sock EXCEPT !.wbuf = 0, !.rest = IF bad THEN @ ELSE 0, !.ev = @ \ {"OUT"}]
           e == [d EXCEPT !.st = "LocalEnded"]
<1>1. d \in SockRecords
  BY Drained, Zenon
<1>2. \E x \in {d, e, closeSocket(d, "ErrorClosing"), closeSocket(d, "Closing")} : Out("drain", x)
  BY Zenon DEF AllSent
<1>3. Shutdown \/ UNCHANGED net
  BY DEF AllSent
<1> HIDE DEF d
<1>4. e \in SockRecords
  BY <1>1, SockUpdates, StateNames, Zenon
<1>5. closeSocket(d, "ErrorClosing") \in SockRecords /\ closeSocket(d, "Closing") \in SockRecords
  BY <1>1, Closes
<1>6. NetTyped'
  BY <1>3, ShutdownTyped DEF NetTyped
<1> HIDE DEF e
<1> QED BY SMTT(30), <1>1, <1>2, <1>4, <1>5, <1>6, OutTyped DEF Kinds

(* So does sending what a coroutine left to be sent. *)
LEMMA RestNextTyped ==
  ASSUME LeastLaw, Inv, RestNext
  PROVE  sock' \in SockRecords /\ NetTyped' /\ LoopTyped'
<1>1. CASE AllSent(TRUE) \/ AllSent(FALSE)
  BY <1>1, AllSentTyped, Zenon
<1>2. CASE sock' = [sock EXCEPT !.wbuf = 0] /\ Goto("immediate") /\ UNCHANGED net
  <2>1. sock' \in SockRecords
    BY <1>2, Drained, Zenon DEF Inv
  <2> QED BY SMTT(30), <1>2, <2>1, GotoTyped, PcNames DEF Inv, NetTyped
<1> QED BY <1>1, <1>2, Zenon DEF RestNext

(* So does infraProcessWriteEvent. *)
LEMMA WriteEventTyped ==
  ASSUME LeastLaw, Inv, WriteEvent
  PROVE  sock' \in SockRecords /\ NetTyped' /\ LoopTyped'
<1> USE DEF Inv
<1> DEFINE Goal == sock' \in SockRecords /\ NetTyped' /\ LoopTyped'
           c == closeSocket(sock, "ErrorClosing")
           u == [sock EXCEPT !.st = "Connected", !.ev = @ \ {"OUT"}]
<1>1. c \in SockRecords
  BY Closes
<1>2. u \in SockRecords
  <2> DEFINE v == sock.ev \ {"OUT"}
  <2>1. v \in SUBSET {"IN", "OUT"}
    BY SockUpdates, Zenon
  <2> HIDE DEF v
  <2>2. [sock EXCEPT !.st = "Connected", !.ev = v] \in SockRecords
    BY <2>1, StateNames, Zenon DEF SockRecords, SockFields
  <2> QED BY <2>2 DEF v
<1>3. CASE UNCHANGED <<sock, net, loop>>
  BY <1>3 DEF NetTyped, LoopTyped
<1>4. CASE Nothing(sock) \/ Nothing(c)
  BY <1>1, <1>4, NothingTyped
<1>5. CASE Out("connect", u) /\ UNCHANGED net
  <2>1. sock' \in SockRecords /\ LoopTyped'
    BY <1>2, <1>5, OutTyped DEF Kinds
  <2> QED BY <1>5, <2>1 DEF NetTyped
<1>6. CASE RestNext \/ AllSent(FALSE)
  BY <1>6, RestNextTyped, AllSentTyped, Zenon
<1>7. ASSUME NEW k \in 0 .. sock.wbuf - 1, Nothing([sock EXCEPT !.wbuf = @ - k]) PROVE Goal
  <2> DEFINE w == sock.wbuf - k
             d == [sock EXCEPT !.wbuf = w]
  <2>1. sock.wbuf \in Nat /\ sock.wcap \in Nat /\ sock.wbuf < sock.wcap
    BY SockUpdates, Zenon
  <2>2. w \in Nat /\ w < sock.wcap
    BY <2>1
  <2>3. Nothing(d)
    BY <1>7
  <2> HIDE DEF w
  <2>4. d \in SockRecords
    BY <2>2, Buffered, Zenon
  <2> HIDE DEF d
  <2> QED BY <2>3, <2>4, NothingTyped
<1>8. \/ UNCHANGED <<sock, net, loop>>
      \/ Nothing(sock) \/ Nothing(c)
      \/ Out("connect", u) /\ UNCHANGED net
      \/ RestNext \/ AllSent(FALSE)
      \/ \E k \in 0 .. sock.wbuf - 1 : Nothing([sock EXCEPT !.wbuf = @ - k])
  BY Zenon DEF WriteEvent, Stop
<1> HIDE DEF c, u
<1> QED BY <1>3, <1>4, <1>5, <1>6, <1>7, <1>8, Zenon

(* So does the timeout of an awaiter. *)
LEMMA TimeoutTyped ==
  ASSUME LeastLaw, Inv, NEW f \in Frames, ActionTimeout(f)
  PROVE  sock' \in SockRecords /\ NetTyped' /\ LoopTyped'
<1>1. Resume(f, "timer", sock, ahd, FALSE) /\ UNCHANGED <<net, loop>>
  BY Zenon DEF ActionTimeout
<1>2. sock' \in SockRecords
  BY <1>1, ResumesSock, Zenon DEF Inv
<1> QED BY <1>1, <1>2 DEF Inv, NetTyped, LoopTyped

-----------------------------------------------------------------------------
(* The invariant holds at the start. *)
LEMMA InitInv == ASSUME Init PROVE Inv
<1>1. NewFrame \in FrameRecords /\ NewFrame.at = "none" /\ NewFrame.timer = FALSE
  BY DEF NewFrame, FrameRecords
<1>2. MaxBytes \in Nat /\ NFrames \in Nat /\ alloc_size \in Nat \ {0}
  BY CoroutineAssumption, BufferAssumption
<1>3. EmptyBuffer \in Rings
  <2>1. 0 \in Offsets /\ 0 \in Bytes
    BY <1>2 DEF Offsets, Bytes
  <2>2. [i \in Offsets |-> 0] \in [Offsets -> Bytes]
    BY <2>1
  <2>3. EmptyBuffer = [m |-> [i \in Offsets |-> 0], b |-> 0, e |-> 0]
    BY DEF EmptyBuffer, Offsets
  <2> QED BY <2>1, <2>2, <2>3 DEF Rings
<1>4. FInv
  <2>1. FramesTyped
    <3>1. frame = [f \in Frames |-> NewFrame] /\ ahd = [k \in Kinds |-> 0]
      BY Zenon DEF Init
    <3>2. 0 \in 0 .. NFrames
      BY <1>2
    <3> QED BY <1>1, <3>1, <3>2 DEF FramesTyped
  <2>2. WaitingIsRegistered
    BY <1>1, Zenon DEF Init, WaitingIsRegistered, Suspended, Kinds
  <2>3. TimerOnlyWhileWaiting
    BY <1>1, Zenon DEF Init, TimerOnlyWhileWaiting
  <2> QED BY <2>1, <2>2, <2>3 DEF FInv
<1>5. sock \in SockRecords
  <2> DEFINE c == 2 ^ WriteExp
  <2>1. {} \in SUBSET {"IN", "OUT"} /\ "Uninitialized" \in States
    BY StateNames
  <2>2. sock = [st |-> "Uninitialized", rend |-> FALSE, rb |-> EmptyBuffer, wbuf |-> 0,
                wcap |-> c, rest |-> 0, ev |-> {}, pending |-> FALSE, used |-> TRUE]
    BY Zenon DEF Init
  <2>3. c \in Nat /\ 0 < c
    <3>1. WriteExp \in 0 .. MaxSizeExp
      BY CoroutineAssumption
    <3>2. c \in AllocSizes
      BY <3>1, Zenon DEF AllocSizes
    <3> HIDE DEF c
    <3> QED BY <3>2, CoroutineAssumption
  <2> HIDE DEF EmptyBuffer, c
  <2> QED BY <1>3, <2>1, <2>2, <2>3 DEF SockRecords, SockFields
<1>6. NetTyped
  <2>1. 0 \in Bytes
    BY <1>2 DEF Bytes
  <2>2. net = [conn |-> "none", sent |-> 0, taken |-> 0, pfin |-> FALSE, fin |-> FALSE]
    BY Zenon DEF Init
  <2> QED BY <2>1, <2>2 DEF NetTyped, NetRecords
<1>7. LoopTyped
  <2>1. <<>> \in Seq(Kinds)
    OBVIOUS
  <2> QED BY <2>1, PcNames, Zenon DEF Init, LoopTyped
<1> QED BY <1>4, <1>5, <1>6, <1>7 DEF Inv

(* Every step keeps it. *)
LEMMA NextInv == ASSUME LeastLaw, Inv, [Next]_vars PROVE Inv'
<1>1. CASE UNCHANGED vars
  <2>1. FInv'
    BY <1>1, Stays DEF vars, Inv
  <2> QED BY <1>1, <2>1 DEF vars, Inv, NetTyped, LoopTyped
<1>2. CASE Next
  <2>1. FInv'
    BY <1>2, NextKeepsFrames DEF Inv
  <2>2. sock' \in SockRecords /\ NetTyped' /\ LoopTyped'
    BY <1>2, UserTyped, NetworkTyped, PollTyped, InputTyped, HandledTyped,
       WriteEventTyped,
       ReleaseTyped, TimeoutTyped DEF Next, LoopStep, Timers
  <2> QED BY <2>1, <2>2 DEF Inv
<1> QED BY <1>1, <1>2

-----------------------------------------------------------------------------
(* The stream of bytes. *)

(* Two sequences with the same elements at the same places are equal. *)
LEMMA SameSeq ==
  ASSUME NEW S, NEW s \in Seq(S), NEW t \in Seq(S), Len(s) = Len(t),
         \A k \in 1 .. Len(s) : s[k] = t[k]
  PROVE  s = t
<1>1. s = [k \in 1 .. Len(s) |-> s[k]] /\ t = [k \in 1 .. Len(s) |-> t[k]]
  OBVIOUS
<1> QED BY <1>1, Zenon

(* The elements of a concatenation. *)
LEMMA Joined ==
  ASSUME NEW S, NEW s \in Seq(S), NEW t \in Seq(S)
  PROVE  /\ s \o t \in Seq(S) /\ Len(s \o t) = Len(s) + Len(t)
         /\ \A k \in 1 .. Len(s) : (s \o t)[k] = s[k]
         /\ \A k \in Len(s) + 1 .. Len(s) + Len(t) : (s \o t)[k] = t[k - Len(s)]
OBVIOUS

(* An offset in a ring of size a, at most one turn ahead. *)
Turned(a, i) == IF i < a THEN i ELSE i - a

(* How many bytes lie between begin at b and end at e. *)
Between(a, b, e) == IF b <= e THEN e - b ELSE a - (b - e)

(* Where the k-th byte of a ring is. *)
Place(c, k) == Turned(alloc_size, c.b + k - 1)

(* The offsets of a ring lie in it, and one place stays free. *)
LEMMA RingNumbers ==
  ASSUME NEW c \in Rings
  PROVE  /\ c.b \in Nat /\ c.e \in Nat /\ alloc_size \in Nat \ {0, 1}
         /\ c.b < alloc_size /\ c.e < alloc_size
         /\ used_size(c) \in 0 .. alloc_size - 1
BY BufferAssumption DEF Rings, Offsets, used_size

(* Contents, byte by byte. *)
LEMMA ContentsPlaces ==
  ASSUME NEW c \in Rings
  PROVE  /\ Contents(c) \in Seq(Bytes) /\ Len(Contents(c)) = used_size(c)
         /\ \A k \in 1 .. used_size(c) : Contents(c)[k] = c.m[Place(c, k)]
<1>1. /\ c.b \in Nat /\ c.e \in Nat /\ alloc_size \in Nat
      /\ c.b < alloc_size /\ c.e < alloc_size
  BY RingNumbers
<1>2. Contents(c) \in Seq(Bytes)
  BY ContentsTyped
<1>3. CASE c.b <= c.e
  <2> DEFINE n == c.e - c.b
  <2>1. Contents(c) = [k \in 1 .. n |-> c.m[c.b + k - 1]] /\ used_size(c) = n /\ n \in Nat
    BY <1>1, <1>3 DEF Contents, Span, used_size
  <2>2. \A k \in 1 .. n : Place(c, k) = c.b + k - 1
    BY <1>1, <1>3 DEF Place, Turned
  <2> HIDE DEF n
  <2> QED BY <1>2, <2>1, <2>2
<1>4. CASE ~(c.b <= c.e)
  <2> DEFINE n == alloc_size - c.b
             p == Span(c, c.b, n)
             q == Span(c, 0, c.e)
  <2>1. Contents(c) = p \o q /\ used_size(c) = n + c.e /\ n \in Nat
    BY <1>1, <1>4 DEF Contents, used_size
  <2>2. p = [k \in 1 .. n |-> c.m[c.b + k - 1]] /\ q = [k \in 1 .. c.e |-> c.m[0 + k - 1]]
    BY DEF Span
  <2>3. p \in Seq(Bytes) /\ q \in Seq(Bytes)
    <3>1. n \in Nat /\ c.b + n <= alloc_size /\ 0 + c.e <= alloc_size
      BY <1>1
    <3> QED BY <1>1, <3>1, SpanTyped, Zenon
  <2>4. \A k \in 1 .. n : Place(c, k) = c.b + k - 1
    BY <1>1 DEF Place, Turned
  <2>5. \A k \in n + 1 .. n + c.e : Place(c, k) = 0 + (k - n) - 1 /\ k - n \in 1 .. c.e
    BY <1>1 DEF Place, Turned
  <2> HIDE DEF n, p, q
  <2>6. Len(p) = n /\ Len(q) = c.e
    BY <1>1, <2>1, <2>2, <2>3
  <2>7. Len(p \o q) = n + c.e
    BY <2>3, <2>6
  <2>8. ASSUME NEW k \in 1 .. n + c.e PROVE (p \o q)[k] = c.m[Place(c, k)]
    <3>1. CASE k <= n
      <4>1. k \in 1 .. n /\ (p \o q)[k] = p[k]
        BY <1>1, <2>1, <2>3, <2>6, <3>1
      <4> QED BY <2>2, <2>4, <4>1, Zenon
    <3>2. CASE ~(k <= n)
      <4>1. k \in n + 1 .. n + c.e /\ (p \o q)[k] = q[k - n]
        BY <1>1, <2>1, <2>3, <2>6, <3>2
      <4> QED BY <2>2, <2>5, <4>1, Zenon
    <3> QED BY <3>1, <3>2, Zenon
  <2> QED BY <1>2, <2>1, <2>7, <2>8
<1> QED BY <1>3, <1>4

(* begin moves past n bytes. *)
Advanced(c, n) == [c EXCEPT !.b = Turned(alloc_size, c.b + n)]

(* Taking bytes from the front leaves the others. *)
LEMMA FrontTaken ==
  ASSUME NEW c \in Rings, NEW n \in 0 .. used_size(c)
  PROVE  /\ Advanced(c, n) \in Rings
         /\ SubSeq(Contents(c), 1, n) \in Seq(Bytes)
         /\ SubSeq(Contents(c), 1, n) \o Contents(Advanced(c, n)) = Contents(c)
<1> DEFINE x == Turned(alloc_size, c.b + n)
           d == Advanced(c, n)
           u == used_size(c)
           s == Contents(c)
           p == SubSeq(s, 1, n)
           t == Contents(d)
<1>1. /\ c.b \in Nat /\ c.e \in Nat /\ alloc_size \in Nat
      /\ c.b < alloc_size /\ c.e < alloc_size
  BY RingNumbers
<1>2. u \in Nat /\ n \in Nat /\ n <= u
  BY RingNumbers
<1>3. x \in Offsets
  BY <1>1 DEF Offsets, used_size, Turned
<1>4. d = [c EXCEPT !.b = x]
  BY DEF Advanced
<1>5. d \in Rings /\ d.b = x /\ d.e = c.e /\ d.m = c.m
  <2> HIDE DEF x, d
  <2> QED BY <1>3, <1>4 DEF Rings
<1>6. used_size(d) = u - n
  BY <1>1, <1>5 DEF used_size, Turned
<1>7. \A k \in 1 .. u - n : Place(d, k) = Place(c, n + k)
  BY <1>1, <1>5 DEF Place, Turned, used_size
<1>8. s \in Seq(Bytes) /\ Len(s) = u /\ \A k \in 1 .. u : s[k] = c.m[Place(c, k)]
  BY ContentsPlaces
<1> HIDE DEF x, d, u
<1>9. t \in Seq(Bytes) /\ Len(t) = u - n /\ \A k \in 1 .. u - n : t[k] = c.m[Place(c, n + k)]
  <2>1. t \in Seq(Bytes) /\ Len(t) = used_size(d)
        /\ \A k \in 1 .. used_size(d) : t[k] = d.m[Place(d, k)]
    BY <1>5, ContentsPlaces
  <2> QED BY <1>2, <1>5, <1>6, <1>7, <2>1
<1> HIDE DEF s, t
<1>10. p \in Seq(Bytes) /\ Len(p) = n /\ \A k \in 1 .. n : p[k] = s[k]
  BY <1>2, <1>8
<1>11. p \o t = s
  <2> HIDE DEF p
  <2>1. p \o t \in Seq(Bytes) /\ Len(p \o t) = u
    <3>1. p \o t \in Seq(Bytes) /\ Len(p \o t) = Len(p) + Len(t)
      BY <1>9, <1>10, Joined, Zenon
    <3> QED BY <1>2, <1>9, <1>10, <3>1
  <2>2. ASSUME NEW k \in 1 .. u PROVE (p \o t)[k] = s[k]
    <3>1. CASE k <= n
      BY <1>2, <1>9, <1>10, <3>1
    <3>2. CASE ~(k <= n)
      <4>1. (p \o t)[k] = t[k - n] /\ k - n \in 1 .. u - n /\ n + (k - n) = k
        BY <1>2, <1>9, <1>10, <3>2
      <4> QED BY <1>8, <1>9, <4>1
    <3> QED BY <3>1, <3>2, Zenon
  <2>3. Len(p \o t) = Len(s) /\ \A k \in 1 .. Len(p \o t) : (p \o t)[k] = s[k]
    BY <1>8, <2>1, <2>2
  <2> HIDE DEF p
  <2> QED BY <1>8, <2>1, <2>3, SameSeq
<1> QED BY <1>5, <1>10, <1>11 DEF d, s, t

(* get_ready_data takes bytes from the front, and n of them if there are as many. *)
LEMMA ReadyDataIsFront ==
  ASSUME NEW c \in Rings, NEW n \in Nat
  PROVE  \E k \in 0 .. used_size(c) :
           /\ get_ready_data(c, n).buff = Advanced(c, k)
           /\ get_ready_data(c, n).out = SubSeq(Contents(c), 1, k)
<1> DEFINE near == Min({n, Forward(c)})
           turn == Wrapped(c) /\ near = Forward(c)
           far  == IF turn THEN Min({n - near, c.e}) ELSE 0
           b    == IF turn THEN far ELSE c.b + near
           k    == near + far
           s    == Contents(c)
           p    == Span(c, c.b, near)
           q    == Span(c, 0, far)
<1>1. /\ c.b \in Nat /\ c.e \in Nat /\ alloc_size \in Nat
      /\ c.b < alloc_size /\ c.e < alloc_size
  BY RingNumbers
<1>2. Forward(c) \in Nat /\ Forward(c) = IF c.b > c.e THEN alloc_size - c.b ELSE c.e - c.b
  BY SMTT(30), <1>1 DEF Forward, Wrapped
<1>3. near \in Nat /\ near <= n /\ near <= Forward(c)
  BY <1>2, LeastOfTwo, Zenon
<1> HIDE DEF near
<1>4. /\ far \in Nat /\ far <= c.e
      /\ ~(c.b > c.e /\ near = Forward(c)) => far = 0
  <2>1. CASE turn
    <3>1. n - near \in Nat
      BY <1>3
    <3>2. Min({n - near, c.e}) \in Nat /\ Min({n - near, c.e}) <= c.e
      BY <1>1, <3>1, LeastOfTwo, Zenon
    <3> QED BY <2>1, <3>2 DEF Wrapped
  <2>2. CASE ~turn
    BY <1>1, <2>2
  <2> QED BY <2>1, <2>2
<1>5. /\ get_ready_data(c, n).buff = [c EXCEPT !.b = b]
      /\ get_ready_data(c, n).out = p \o q
  BY DEF get_ready_data, near
<1>6. b = IF c.b > c.e /\ near = Forward(c) THEN far ELSE c.b + near
  BY DEF Wrapped
<1> HIDE DEF far, b, turn
<1>7. k \in 0 .. used_size(c)
  BY <1>1, <1>2, <1>3, <1>4 DEF used_size
<1>8. b = Turned(alloc_size, c.b + k)
  BY <1>1, <1>2, <1>3, <1>4, <1>6 DEF Turned
<1>9. get_ready_data(c, n).buff = Advanced(c, k)
  <2> HIDE DEF k
  <2> QED BY <1>5, <1>8 DEF Advanced
<1>10. p \in Seq(Bytes) /\ q \in Seq(Bytes)
  <2>1. c.b + near <= alloc_size /\ 0 + far <= alloc_size
    BY <1>1, <1>2, <1>3, <1>4
  <2> QED BY <1>1, <1>3, <1>4, <2>1, SpanTyped, Zenon
<1>11. p = [i \in 1 .. near |-> c.m[c.b + i - 1]] /\ q = [i \in 1 .. far |-> c.m[0 + i - 1]]
  BY DEF Span
<1> HIDE DEF p, q
<1>12. Len(p) = near /\ Len(q) = far /\ p \o q \in Seq(Bytes) /\ Len(p \o q) = near + far
  <2>1. Len(p) = near /\ Len(q) = far
    BY <1>3, <1>4, <1>10, <1>11
  <2> QED BY <1>10, <2>1
<1>13. s \in Seq(Bytes) /\ Len(s) = used_size(c)
       /\ \A i \in 1 .. used_size(c) : s[i] = c.m[Place(c, i)]
  BY ContentsPlaces
<1> HIDE DEF s
<1>14. SubSeq(s, 1, k) \in Seq(Bytes) /\ Len(SubSeq(s, 1, k)) = k
       /\ \A i \in 1 .. k : SubSeq(s, 1, k)[i] = c.m[Place(c, i)]
  <2>1. used_size(c) \in Nat
    BY RingNumbers
  <2> HIDE DEF k
  <2> QED BY <1>7, <1>13, <2>1
<1>15. ASSUME NEW i \in 1 .. k PROVE (p \o q)[i] = c.m[Place(c, i)]
  <2>1. CASE i <= near
    <3>1. (p \o q)[i] = p[i] /\ i \in 1 .. near
      BY <1>3, <1>4, <1>10, <1>12, <2>1
    <3>2. Place(c, i) = c.b + i - 1
      BY SMTT(30), <1>1, <1>2, <1>3, <3>1 DEF Place, Turned
    <3> QED BY <1>11, <3>1, <3>2, Zenon
  <2>2. CASE ~(i <= near)
    <3>1. (p \o q)[i] = q[i - near] /\ i - near \in 1 .. far
      BY <1>3, <1>4, <1>10, <1>12, <2>2
    <3>2. Place(c, i) = 0 + (i - near) - 1
      <4>1. c.b > c.e /\ near = alloc_size - c.b
        BY <1>1, <1>2, <1>3, <1>4, <3>1
      <4>2. i \in Nat
        BY <1>3, <1>4
      <4> HIDE DEF k
      <4> QED BY SMTT(30), <1>1, <1>4, <3>1, <4>1, <4>2 DEF Place, Turned
    <3> QED BY <1>11, <3>1, <3>2, Zenon
  <2> QED BY <2>1, <2>2, Zenon
<1>16. p \o q = SubSeq(s, 1, k)
  <2>1. Len(p \o q) = k
    BY <1>12
  <2> HIDE DEF k
  <2>2. Len(p \o q) = Len(SubSeq(s, 1, k))
        /\ \A i \in 1 .. Len(p \o q) : (p \o q)[i] = SubSeq(s, 1, k)[i]
    BY <1>14, <1>15, <2>1
  <2> QED BY <1>12, <1>14, <2>2, SameSeq
<1>17. get_ready_data(c, n).out = SubSeq(s, 1, k)
  BY <1>5, <1>16
<1> HIDE DEF k
<1> QED BY <1>7, <1>9, <1>17 DEF s

(* read_ready_data_until takes bytes from the front. *)
LEMMA LineIsFront ==
  ASSUME LeastLaw, NEW c \in Rings
  PROVE  \E k \in 0 .. used_size(c) :
           /\ read_ready_data_until(c, LineSize).buff = Advanced(c, k)
           /\ read_ready_data_until(c, LineSize).out = SubSeq(Contents(c), 1, k)
<1> DEFINE s    == Contents(c)
           edge == Wrapped(c) /\ Forward(c) = LineSize
           ends == {k \in 1 .. Len(s) : /\ s[k] \in Newlines
                                        /\ k <= IF edge THEN LineSize ELSE LineSize + 1}
           n    == IF ends # {} THEN Min(ends) ELSE Min({Len(s), LineSize})
           b    == (c.b + n) % alloc_size
           x    == Turned(alloc_size, c.b + n)
<1>1. s \in Seq(Bytes) /\ Len(s) = used_size(c)
  BY ContentsPlaces
<1>2. LineSize \in Nat /\ Len(s) \in Nat
  BY <1>1, CoroutineAssumption
<1>3. n \in 0 .. Len(s)
  <2>1. CASE ends # {}
    <3>1. ends \subseteq Nat /\ ends \subseteq 1 .. Len(s)
      BY <1>2
    <3> HIDE DEF ends
    <3>2. Min(ends) \in ends
      BY <2>1, <3>1, Zenon DEF LeastLaw
    <3>3. n = Min(ends)
      BY <2>1
    <3>4. n \in 1 .. Len(s)
      BY <3>1, <3>2, <3>3, Zenon
    <3> HIDE DEF n, s
    <3> QED BY <1>2, <3>4
  <2>2. CASE ends = {}
    <3>1. n = Min({Len(s), LineSize})
      BY <2>2
    <3> HIDE DEF ends, s
    <3>2. Min({Len(s), LineSize}) \in Nat /\ Min({Len(s), LineSize}) <= Len(s)
      BY <1>2, LeastOfTwo, Zenon
    <3> HIDE DEF n
    <3> QED BY <1>2, <3>1, <3>2
  <2> QED BY <2>1, <2>2
<1>4. /\ read_ready_data_until(c, LineSize).buff = [c EXCEPT !.b = b]
      /\ read_ready_data_until(c, LineSize).out = SubSeq(s, 1, n)
  BY Zenon DEF read_ready_data_until
<1> HIDE DEF n, s
<1>5. b = x
  <2> DEFINE a == alloc_size
             y == c.b + n
  <2>1. a \in Nat \ {0} /\ y \in 0 .. a + a - 1
    BY <1>1, <1>3, RingNumbers
  <2> HIDE DEF a, y
  <2>2. y % a = IF y < a THEN y ELSE y - a
    BY <2>1
  <2>3. c.b \in Nat /\ n \in Nat /\ alloc_size \in Nat
    BY <1>2, <1>3, RingNumbers
  <2> QED BY <2>2, <2>3 DEF a, y, Turned
<1> HIDE DEF b, x
<1>6. read_ready_data_until(c, LineSize).buff = Advanced(c, n)
  BY <1>4, <1>5, Zenon DEF Advanced, x
<1>7. n \in 0 .. used_size(c)
  BY <1>1, <1>3
<1>8. read_ready_data_until(c, LineSize).out = SubSeq(Contents(c), 1, n)
  BY <1>4 DEF s
<1> QED BY <1>6, <1>7, <1>8

(* The offsets of a ring of size a that holds the bytes from b to e, when  *)
(* n more are stored.                                                      *)
LEMMA RingOffsets ==
  ASSUME NEW a \in Nat, NEW b \in Nat, NEW e \in Nat, NEW n \in Nat, b < a, e < a,
         e + n <= a, Between(a, b, e) + n < a
  PROVE  /\ Between(a, b, Turned(a, e + n)) = Between(a, b, e) + n
         /\ \A k \in 1 .. Between(a, b, e) :
              /\ Turned(a, b + k - 1) \in 0 .. a - 1
              /\ ~(Turned(a, b + k - 1) - e + 1 \in 1 .. n)
         /\ \A k \in Between(a, b, e) + 1 .. Between(a, b, e) + n :
              /\ Turned(a, b + k - 1) \in 0 .. a - 1
              /\ Turned(a, b + k - 1) - e + 1 = k - Between(a, b, e)
              /\ k - Between(a, b, e) \in 1 .. n
BY DEF Between, Turned

(* Storing bytes that fit appends them. *)
LEMMA StoredAtEnd ==
  ASSUME NEW c \in Rings, NEW s \in Seq(Bytes), c.e + Len(s) <= alloc_size,
         used_size(c) + Len(s) < alloc_size
  PROVE  /\ Store(c, s) \in Rings
         /\ Contents(Store(c, s)) = Contents(c) \o s
         /\ used_size(Store(c, s)) = used_size(c) + Len(s)
         /\ Store(c, s).b = c.b
<1> DEFINE d == Store(c, s)
           n == Len(s)
           u == used_size(c)
           x == Turned(alloc_size, c.e + n)
           t == Contents(c)
           r == Contents(d)
<1>1. /\ c.b \in Nat /\ c.e \in Nat /\ alloc_size \in Nat \ {0, 1} /\ n \in Nat
      /\ c.b < alloc_size /\ c.e < alloc_size /\ alloc_size \in Nat
  BY RingNumbers
<1>2. d \in Rings
  BY Stored
<1>3. d.b = c.b /\ d.e = (c.e + n) % alloc_size
  BY Zenon DEF Store, Rings
<1>4. c.e + n <= alloc_size /\ u + n < alloc_size
  OBVIOUS
<1>5. u \in Nat /\ u = Between(alloc_size, c.b, c.e)
  BY <1>1 DEF used_size, Between
<1>6. /\ Between(alloc_size, c.b, x) = u + n
      /\ \A k \in 1 .. u : Place(c, k) \in Offsets /\ ~(Place(c, k) - c.e + 1 \in 1 .. n)
      /\ \A k \in u + 1 .. u + n : /\ Place(c, k) \in Offsets /\ k - u \in 1 .. n
                                   /\ Place(c, k) - c.e + 1 = k - u
  <2> HIDE DEF n, u
  <2> DEFINE v == Between(alloc_size, c.b, c.e)
  <2>1. v + n < alloc_size
    BY <1>4, <1>5
  <2>2. /\ Between(alloc_size, c.b, Turned(alloc_size, c.e + n)) = v + n
        /\ \A k \in 1 .. v :
             /\ Turned(alloc_size, c.b + k - 1) \in 0 .. alloc_size - 1
             /\ ~(Turned(alloc_size, c.b + k - 1) - c.e + 1 \in 1 .. n)
        /\ \A k \in v + 1 .. v + n :
             /\ Turned(alloc_size, c.b + k - 1) \in 0 .. alloc_size - 1
             /\ Turned(alloc_size, c.b + k - 1) - c.e + 1 = k - v
             /\ k - v \in 1 .. n
    BY <1>4, <1>1, <2>1, RingOffsets, Zenon
  <2> QED BY <1>5, <2>2, Zenon DEF Place, Offsets
<1>7. d.e = x
  <2> DEFINE a == alloc_size
             y == c.e + n
  <2>1. a \in Nat \ {0} /\ y \in 0 .. a
    BY <1>1
  <2> HIDE DEF a, y
  <2>2. y % a = Turned(a, y)
    BY <2>1 DEF Turned
  <2> QED BY <1>3, <2>2 DEF a, y
<1>8. \A i \in Offsets : d.m[i] = IF i - c.e + 1 \in DOMAIN s THEN s[i - c.e + 1] ELSE c.m[i]
  <2>1. d.m = [i \in Offsets |-> IF i - c.e + 1 \in DOMAIN s THEN s[i - c.e + 1] ELSE c.m[i]]
    BY Zenon DEF Store, Rings
  <2> HIDE DEF d
  <2> QED BY <2>1
<1>9. used_size(d) = u + n
  <2>1. used_size(d) = Between(alloc_size, c.b, x)
    BY <1>3, <1>7 DEF used_size, Between
  <2> HIDE DEF n, u, d, x
  <2> QED BY <1>6, <2>1
<1> HIDE DEF d
<1>10. /\ t \in Seq(Bytes) /\ Len(t) = u
       /\ \A k \in 1 .. u : t[k] = c.m[Place(c, k)]
  BY ContentsPlaces
<1>11. /\ r \in Seq(Bytes) /\ Len(r) = u + n
       /\ \A k \in 1 .. u + n : r[k] = d.m[Place(d, k)]
  BY <1>2, <1>9, ContentsPlaces
<1>12. /\ t \o s \in Seq(Bytes) /\ Len(t \o s) = u + n
       /\ \A k \in 1 .. u : (t \o s)[k] = t[k]
       /\ \A k \in u + 1 .. u + n : (t \o s)[k] = s[k - u]
  <2>1. t \in Seq(Bytes) /\ Len(t) = u /\ n = Len(s)
    BY <1>10
  <2> HIDE DEF t, u, n
  <2> QED BY <2>1, Joined, ZenonT(60)
<1> HIDE DEF t, r, u
<1>13. ASSUME NEW k \in 1 .. u PROVE r[k] = t[k]
  <2> DEFINE i == Place(c, k)
  <2>1. i \in Offsets /\ Place(d, k) = i /\ ~(i - c.e + 1 \in 1 .. n)
    <3>1. Place(d, k) = i
      BY <1>3 DEF Place, Turned
    <3> HIDE DEF n
    <3> QED BY <1>6, <3>1
  <2>2. DOMAIN s = 1 .. n
    OBVIOUS
  <2> HIDE DEF i
  <2>3. d.m[i] = c.m[i]
    BY <1>8, <2>1, <2>2
  <2>4. k \in 1 .. u + n
    BY <1>1, <1>5
  <2> QED BY <1>10, <1>11, <2>1, <2>3, <2>4 DEF i
<1>14. ASSUME NEW k \in u + 1 .. u + n PROVE r[k] = s[k - u]
  <2> DEFINE i == Place(d, k)
  <2>1. i \in Offsets /\ i - c.e + 1 = k - u /\ k - u \in 1 .. n
    <3>1. i = Place(c, k)
      BY <1>3 DEF Place, Turned
    <3> HIDE DEF n, i
    <3> QED BY <1>6, <3>1
  <2>2. DOMAIN s = 1 .. n
    OBVIOUS
  <2> HIDE DEF i
  <2>3. d.m[i] = s[k - u]
    BY <1>8, <2>1, <2>2
  <2>4. k \in 1 .. u + n
    BY <1>1, <1>5
  <2> QED BY <1>11, <2>3, <2>4 DEF i
<1>15. \A k \in 1 .. u + n : r[k] = (t \o s)[k]
  <2> SUFFICES ASSUME NEW k \in 1 .. u + n PROVE r[k] = (t \o s)[k]
    BY Zenon
  <2>1. k \in 1 .. u \/ k \in u + 1 .. u + n
    BY <1>1, <1>5
  <2> QED BY <1>12, <1>13, <1>14, <2>1
<1>16. r = t \o s
  BY <1>11, <1>12, <1>15, SameSeq
<1> QED BY <1>2, <1>3, <1>9, <1>16 DEF d, t, r, u

(* Concatenating is associative. *)
LEMMA JoinedTwice ==
  ASSUME NEW S, NEW s \in Seq(S), NEW t \in Seq(S), NEW r \in Seq(S)
  PROVE  (s \o t) \o r = s \o (t \o r)
<1> DEFINE x == (s \o t) \o r
           y == s \o (t \o r)
           a == Len(s)
           b == Len(t)
           c == Len(r)
<1>1. a \in Nat /\ b \in Nat /\ c \in Nat
  OBVIOUS
<1>2. /\ s \o t \in Seq(S) /\ Len(s \o t) = a + b
      /\ \A k \in 1 .. a : (s \o t)[k] = s[k]
      /\ \A k \in a + 1 .. a + b : (s \o t)[k] = t[k - a]
  BY Joined
<1>3. /\ t \o r \in Seq(S) /\ Len(t \o r) = b + c
      /\ \A k \in 1 .. b : (t \o r)[k] = t[k]
      /\ \A k \in b + 1 .. b + c : (t \o r)[k] = r[k - b]
  BY Joined
<1>4. /\ x \in Seq(S) /\ Len(x) = a + b + c
      /\ \A k \in 1 .. a + b : x[k] = (s \o t)[k]
      /\ \A k \in a + b + 1 .. a + b + c : x[k] = r[k - (a + b)]
  <2> DEFINE q == s \o t
  <2>1. q \in Seq(S) /\ Len(q) = a + b
    BY <1>2
  <2> HIDE DEF q, a, b
  <2>2. /\ q \o r \in Seq(S) /\ Len(q \o r) = Len(q) + c
        /\ \A k \in 1 .. Len(q) : (q \o r)[k] = q[k]
        /\ \A k \in Len(q) + 1 .. Len(q) + c : (q \o r)[k] = r[k - Len(q)]
    BY <2>1, Joined, Zenon
  <2> QED BY <2>1, <2>2 DEF q
<1>5. /\ y \in Seq(S) /\ Len(y) = a + (b + c)
      /\ \A k \in 1 .. a : y[k] = s[k]
      /\ \A k \in a + 1 .. a + (b + c) : y[k] = (t \o r)[k - a]
  BY <1>1, <1>3, Joined
<1> HIDE DEF x, y, a, b, c
<1>6. ASSUME NEW k \in 1 .. a + b + c PROVE x[k] = y[k]
  <2>1. CASE k \in 1 .. a
    <3>1. k \in 1 .. a + b
      BY <1>1, <2>1
    <3> QED BY <1>2, <1>4, <1>5, <2>1, <3>1, Zenon
  <2>2. CASE k \in a + 1 .. a + b
    <3>1. k \in 1 .. a + b /\ k \in a + 1 .. a + (b + c) /\ k - a \in 1 .. b
      BY <1>1, <2>2
    <3> QED BY <1>2, <1>3, <1>4, <1>5, <2>2, <3>1, Zenon
  <2>3. CASE k \in a + b + 1 .. a + b + c
    <3>1. k \in a + 1 .. a + (b + c) /\ k - a \in b + 1 .. b + c
          /\ k - a - b = k - (a + b)
      BY <1>1, <2>3
    <3> QED BY <1>3, <1>4, <1>5, <2>3, <3>1, ZenonT(60)
  <2>4. k \in 1 .. a \/ k \in a + 1 .. a + b \/ k \in a + b + 1 .. a + b + c
    BY <1>1
  <2> QED BY <2>1, <2>2, <2>3, <2>4
<1>7. Len(x) = Len(y) /\ \A k \in 1 .. Len(x) : x[k] = y[k]
  BY SMTT(30), <1>1, <1>4, <1>5, <1>6
<1>8. x = y
  BY SMTT(30), <1>4, <1>5, <1>7, SameSeq
<1> QED BY <1>8 DEF x, y

(* Two parts of a sequence that follow each other. *)
LEMMA PartsJoined ==
  ASSUME NEW S, NEW s \in Seq(S), NEW n \in Nat, NEW k \in Nat, n + k <= Len(s)
  PROVE  /\ SubSeq(s, 1, n) \in Seq(S) /\ Len(SubSeq(s, 1, n)) = n
         /\ SubSeq(s, n + 1, n + k) \in Seq(S) /\ Len(SubSeq(s, n + 1, n + k)) = k
         /\ SubSeq(s, 1, n) \o SubSeq(s, n + 1, n + k) = SubSeq(s, 1, n + k)
<1> DEFINE p == SubSeq(s, 1, n)
           q == SubSeq(s, n + 1, n + k)
           r == SubSeq(s, 1, n + k)
<1>1. Len(s) \in Nat
  OBVIOUS
<1>2. p \in Seq(S) /\ Len(p) = n /\ \A i \in 1 .. n : p[i] = s[i]
  BY <1>1
<1>3. q \in Seq(S) /\ Len(q) = k /\ \A i \in 1 .. k : q[i] = s[n + i]
  BY <1>1, SMTT(30)
<1>4. r \in Seq(S) /\ Len(r) = n + k /\ \A i \in 1 .. n + k : r[i] = s[i]
  BY <1>1
<1> HIDE DEF p, q, r
<1>5. /\ p \o q \in Seq(S) /\ Len(p \o q) = n + k
      /\ \A i \in 1 .. n : (p \o q)[i] = p[i]
      /\ \A i \in n + 1 .. n + k : (p \o q)[i] = q[i - n]
  <2>1. /\ p \o q \in Seq(S) /\ Len(p \o q) = Len(p) + Len(q)
        /\ \A i \in 1 .. Len(p) : (p \o q)[i] = p[i]
        /\ \A i \in Len(p) + 1 .. Len(p) + Len(q) : (p \o q)[i] = q[i - Len(p)]
    BY <1>2, <1>3, Joined, ZenonT(60)
  <2> QED BY SMTT(30), <1>2, <1>3, <2>1
<1>6. ASSUME NEW i \in 1 .. n + k PROVE (p \o q)[i] = r[i]
  <2>1. CASE i \in 1 .. n
    BY <1>2, <1>4, <1>5, <2>1, Zenon
  <2>2. CASE i \in n + 1 .. n + k
    <3>1. i - n \in 1 .. k /\ n + (i - n) = i
      BY <2>2
    <3> QED BY Zenon, <1>3, <1>4, <1>5, <2>2, <3>1
  <2>3. i \in 1 .. n \/ i \in n + 1 .. n + k
    BY SMTT(30)
  <2> QED BY <2>1, <2>2, <2>3, Zenon
<1>7. Len(p \o q) = Len(r) /\ \A i \in 1 .. Len(p \o q) : (p \o q)[i] = r[i]
  BY SMTT(30), <1>4, <1>5, <1>6
<1>8. p \o q = r
  BY Zenon, <1>4, <1>5, <1>7, SameSeq
<1> QED BY Zenon, <1>2, <1>3, <1>8 DEF p, q, r

(* read appends the bytes it takes. *)
LEMMA ReadAppends ==
  ASSUME NEW c \in Rings, NEW s \in Seq(Bytes), NEW target
  PROVE  Contents(read(c, s, target).buff)
           = Contents(c) \o SubSeq(s, 1, read(c, s, target).taken)
<1> DEFINE n == Min({Len(s), FirstRead(c)})
           p == SubSeq(s, 1, n)
           d == Store(c, p)
           k == Min({Len(s) - n, c.b - 1})
           q == SubSeq(s, n + 1, n + k)
           small == Wrapped(c) \/ d.e # 0 \/ n = 0 \/ alloc_size >= c.b + target
<1>1. /\ c.b \in Nat /\ c.e \in Nat /\ alloc_size \in Nat \ {0, 1}
      /\ c.b < alloc_size /\ c.e < alloc_size
  BY RingNumbers
<1>2. /\ FirstRead(c) \in Nat
      /\ FirstRead(c) = IF c.b > c.e THEN c.b - c.e - 1
                        ELSE IF c.b # 0 THEN alloc_size - c.e ELSE alloc_size - 1 - c.e
  BY SMTT(30), <1>1 DEF FirstRead, Wrapped
<1>3. Len(s) \in Nat /\ n \in Nat /\ n <= Len(s) /\ n <= FirstRead(c)
  <2>1. Len(s) \in Nat
    OBVIOUS
  <2> QED BY <1>2, <2>1, LeastOfTwo, Zenon
<1> HIDE DEF n
<1>4. p \in Seq(Bytes) /\ Len(p) = n
  BY <1>3
<1> HIDE DEF p
<1>5. c.e + n <= alloc_size /\ used_size(c) + n < alloc_size
  BY <1>1, <1>2, <1>3, SMTT(30) DEF used_size
<1>6. /\ d \in Rings /\ Contents(d) = Contents(c) \o p
      /\ used_size(d) = used_size(c) + n /\ d.b = c.b
  BY SMTT(30), <1>4, <1>5, StoredAtEnd
<1> HIDE DEF d
<1>7. CASE small
  <2>1. read(c, s, target).buff = d /\ read(c, s, target).taken = n
    BY <1>7 DEF read, d, p, n
  <2> QED BY <1>6, <2>1, Zenon DEF p
<1>8. CASE ~small
  <2> DEFINE t == Store(d, q)
  <2>1. read(c, s, target).buff = t /\ read(c, s, target).taken = n + k
    BY <1>8 DEF read, d, p, n
  <2>2. d.e = 0 /\ c.b <= c.e /\ n # 0
    BY SMTT(30), <1>1, <1>8 DEF Wrapped
  <2>3. c.b # 0 /\ used_size(d) = alloc_size - c.b
    BY <1>1, <1>3, <1>6, <2>2 DEF used_size
  <2>4. Len(s) - n \in Nat /\ c.b - 1 \in Nat
    BY <1>1, <1>3, <2>3
  <2>5. k \in Nat /\ k <= Len(s) - n /\ k <= c.b - 1
    BY <2>4, LeastOfTwo, Zenon
  <2> HIDE DEF k
  <2>6. n + k <= Len(s)
    BY <1>3, <2>5
  <2>7. q \in Seq(Bytes) /\ Len(q) = k /\ p \o q = SubSeq(s, 1, n + k)
    BY SMTT(30), <1>3, <2>5, <2>6, PartsJoined DEF p
  <2> HIDE DEF q
  <2>8. d.e + k <= alloc_size /\ used_size(d) + k < alloc_size
    BY <1>1, <2>2, <2>3, <2>5
  <2>9. Contents(t) = Contents(d) \o q
    BY <1>6, <2>7, <2>8, StoredAtEnd, Zenon
  <2>10. (Contents(c) \o p) \o q = Contents(c) \o (p \o q)
    <3>1. Contents(c) \in Seq(Bytes)
      BY ContentsTyped
    <3>2. p \in Seq(Bytes) /\ q \in Seq(Bytes)
      BY <1>4, <2>7
    <3> QED BY SMTT(30), <3>1, <3>2, JoinedTwice
  <2> HIDE DEF t
  <2> QED BY <1>6, <2>1, <2>7, <2>9, <2>10, ZenonT(60)
<1> QED BY <1>7, <1>8, Zenon

-----------------------------------------------------------------------------
(* What coroutines have been given and what the ring of the socket d holds *)
(* is, after a step, what it was before, or the program has ended.         *)
Passed(d) ==
  /\ got' \in Seq(Bytes)
  /\ failed' # "" \/ got' \o Contents(sock'.rb) = got \o Contents(d.rb)

(* Bytes taken from the front of a ring and appended to what the           *)
(* coroutines have leave the whole as it was.                              *)
LEMMA FrontPassed ==
  ASSUME got \in Seq(Bytes), NEW c \in Rings, NEW k \in 0 .. used_size(c)
  PROVE  /\ got \o SubSeq(Contents(c), 1, k) \in Seq(Bytes)
         /\ (got \o SubSeq(Contents(c), 1, k)) \o Contents(Advanced(c, k))
              = got \o Contents(c)
<1> DEFINE p == SubSeq(Contents(c), 1, k)
           q == Contents(Advanced(c, k))
<1>1. Advanced(c, k) \in Rings /\ p \in Seq(Bytes) /\ p \o q = Contents(c)
  BY FrontTaken, Zenon
<1>2. q \in Seq(Bytes)
  BY <1>1, ContentsTyped
<1>3. p \in Seq(Bytes)
  BY <1>1
<1> HIDE DEF p, q
<1>4. got \o p \in Seq(Bytes)
  BY <1>3
<1>5. (got \o p) \o q = got \o (p \o q)
  BY SMTT(30), <1>2, <1>3, JoinedTwice
<1>6. (got \o p) \o q = got \o Contents(c)
  BY <1>1, <1>5, Zenon
<1> QED BY <1>4, <1>6, Zenon DEF p, q

(* a_read takes its bytes from the front of the ring (get_ready_data). *)
LEMMA TakesPassed ==
  ASSUME got \in Seq(Bytes), NEW d \in SockRecords, NEW f, NEW h,
         NEW r, r.max \in Nat, TakeBytes(f, d, h, r)
  PROVE  Passed(d)
<1> DEFINE c == d.rb
           g == get_ready_data(c, r.max)
<1>1. c \in Rings
  BY DEF SockRecords, SockFields
<1>2. CASE Stop("buff.size() >= min_bytes")
  <2>1. got' = got /\ failed' # ""
    BY <1>2, Zenon DEF Stop
  <2> QED BY <2>1, Zenon DEF Passed
<1>3. CASE sock' = [d EXCEPT !.rb = g.buff] /\ got' = got \o g.out
  <2>1. sock'.rb = g.buff
    BY <1>3 DEF SockRecords, SockFields
  <2>2. PICK k \in 0 .. used_size(c) :
          g.buff = Advanced(c, k) /\ g.out = SubSeq(Contents(c), 1, k)
    BY <1>1, ReadyDataIsFront, Zenon
  <2> HIDE DEF g, c
  <2> QED BY <1>1, <1>3, <2>1, <2>2, FrontPassed, Zenon DEF Passed, c
<1> QED BY <1>2, <1>3, Zenon DEF TakeBytes

(* a_readUntil takes its line from the front (read_ready_data_until). *)
LEMMA ReadsLinePassed ==
  ASSUME LeastLaw, got \in Seq(Bytes), NEW d \in SockRecords, NEW f, NEW h, NEW r,
         ReadLine(f, d, h, r)
  PROVE  Passed(d)
<1> DEFINE c == d.rb
           g == read_ready_data_until(c, LineSize)
<1>1. c \in Rings
  BY DEF SockRecords, SockFields
<1>2. sock' = [d EXCEPT !.rb = g.buff] /\ got' = got \o g.out
  BY Zenon DEF ReadLine
<1>3. sock'.rb = g.buff
  BY <1>2 DEF SockRecords, SockFields
<1>4. PICK k \in 0 .. used_size(c) :
        g.buff = Advanced(c, k) /\ g.out = SubSeq(Contents(c), 1, k)
  BY <1>1, LineIsFront, Zenon
<1> HIDE DEF g, c
<1> QED BY <1>1, <1>2, <1>3, <1>4, FrontPassed, Zenon DEF Passed, c

(* Whatever resumes a coroutine, the bytes it takes come from the front. *)
LEMMA ResumesPassed ==
  ASSUME LeastLaw, FInv, got \in Seq(Bytes), NEW d \in SockRecords, NEW f \in Frames,
         NEW by, NEW h, NEW exc \in BOOLEAN, Resume(f, by, d, h, exc)
  PROVE  Passed(d)
<1> DEFINE r == [frame[f] EXCEPT !.at = "run", !.exc = @ \/ exc, !.timer = FALSE]
           s == [r EXCEPT !.exc = frame[f].exc]
<1>1. frame[f] \in FrameRecords
  BY DEF FInv, FramesTyped
<1>2. r.max \in Nat
  <2>1. r.max = frame[f].max
    BY <1>1 DEF FrameRecords
  <2> HIDE DEF r
  <2> QED BY <1>1, <2>1 DEF FrameRecords
<1>3. \/ got' = got /\ failed' # ""
      \/ got' = got /\ sock' = d
      \/ ReadLine(f, d, h, r)
      \/ TakeBytes(f, d, h, r)
  <2> HIDE DEF s
  <2>1. Resume(f, by, d, h, exc) =
          IF ~Suspended(f) \/ (frame[f].at = "line" /\ by # "read")
          THEN Stop("resumed")
          ELSE IF frame[f].at = "line"
          THEN IF exc THEN Continue(f, d, h, s)
               ELSE IF used_size(d.rb) = 0 THEN Stop("isData")
               ELSE IF frame[f].part THEN Stop("b.size() == 0")
               ELSE ReadLine(f, d, h, r)
          ELSE IF frame[f].at = "read" /\ ~r.exc /\ by # "timer" THEN TakeBytes(f, d, h, r)
          ELSE Continue(f, d, h, r)
    BY Zenon DEF Resume, s
  <2> HIDE DEF r
  <2> QED BY <2>1, Zenon DEF Stop, Continue
<1> HIDE DEF r
<1>4. CASE got' = got /\ (failed' # "" \/ sock' = d)
  BY <1>4, Zenon DEF Passed
<1> QED BY <1>2, <1>3, <1>4, TakesPassed, ReadsLinePassed, Zenon

(* The same for the coroutine in the handle of a kind. *)
LEMMA ResumesKindPassed ==
  ASSUME LeastLaw, FInv, got \in Seq(Bytes), NEW kind \in Kinds, ahd[kind] # 0,
         NEW d \in SockRecords, NEW exc \in BOOLEAN, ResumeKind(kind, d, exc)
  PROVE  Passed(d)
<1>1. ahd[kind] \in Frames
  BY CoroutineAssumption DEF FInv, FramesTyped, Frames
<1> QED BY SMTT(30), <1>1, ResumesPassed DEF ResumeKind

(* A step that receives nothing: every byte stays with the coroutines or   *)
(* in the ring, or goes from the ring to a coroutine.                      *)
Quiet ==
  /\ Passed(sock)
  /\ handed' = handed
  /\ net'.taken = net.taken

(* Closing the socket leaves its ring alone. *)
LEMMA RingKept ==
  ASSUME NEW d \in SockRecords, NEW how
  PROVE  closeSocket(d, how).rb = d.rb
BY DEF SockRecords, SockFields, closeSocket

(* A step that leaves the ring and the coroutines' bytes alone is quiet. *)
LEMMA NothingPassed ==
  ASSUME got \in Seq(Bytes), UNCHANGED <<got, handed>>, sock'.rb = sock.rb,
         net'.taken = net.taken
  PROVE  Quiet
BY Zenon DEF Quiet, Passed

(* Passed depends on the ring only. *)
LEMMA PassedSame ==
  ASSUME NEW d, d.rb = sock.rb, Passed(d)
  PROVE  Passed(sock)
BY Zenon DEF Passed

(* shutdown takes no bytes from the network. *)
LEMMA ShutdownTakes == ASSUME NetTyped, Shutdown PROVE net'.taken = net.taken
<1>1. net' \in {[net EXCEPT !.fin = TRUE], [net EXCEPT !.conn = "none"], net}
  BY DEF Shutdown
<1> QED BY <1>1 DEF NetTyped, NetRecords

(* Writing leaves the read ring alone. *)
LEMMA WriteKeepsRing ==
  ASSUME LeastLaw, sock \in SockRecords, NEW n \in WriteSizes, Written(n)
  PROVE  sock'.rb = sock.rb
<1>1. ASSUME NEW m PROVE append(sock, m).rb = sock.rb
  <2> DEFINE w == sock.wbuf + m
             c == Min(GrownSizes(sock, m))
  <2>1. append(sock, m) \in {sock, [sock EXCEPT !.wbuf = w],
                             [sock EXCEPT !.wbuf = w, !.wcap = c]}
    BY Zenon DEF append
  <2> HIDE DEF w, c
  <2> QED BY <2>1, Zenon DEF SockRecords, SockFields
<1>2. ASSUME NEW k \in 0 .. n - 1,
             sock' = [append(sock, n - k) EXCEPT !.ev = @ \cup {"OUT"}]
      PROVE  sock'.rb = sock.rb
  <2> DEFINE d == append(sock, n - k)
             e == d.ev \cup {"OUT"}
  <2>1. n - k \in Nat
    BY CoroutineAssumption
  <2>2. d \in SockRecords /\ d.rb = sock.rb
    BY <1>1, <2>1, Appends
  <2>3. sock' = [d EXCEPT !.ev = e]
    BY <1>2
  <2> HIDE DEF d, e
  <2> QED BY <2>2, <2>3, Zenon DEF SockRecords, SockFields
<1>3. CASE sock' = append(sock, n)
  BY <1>1, <1>3
<1>4. CASE sock' = [sock EXCEPT !.rest = n]
  BY <1>4, Zenon DEF SockRecords, SockFields
<1> QED BY <1>2, <1>3, <1>4, RingKept, Zenon DEF Written

(* The calls of the program receive nothing from the network. *)
LEMMA UserQuiet ==
  ASSUME LeastLaw, Inv, got \in Seq(Bytes), UserCode
  PROVE  Quiet
<1> USE DEF Inv
<1> PICK f \in Frames :
       \/ \E timed \in BOOLEAN : a_connect(f, timed)
       \/ /\ sock.st # "Uninitialized"
          /\ \/ \E timed \in BOOLEAN : a_drain(f, timed)
             \/ \E p \in ReadCalls : a_read(f, p[1], p[2], p[3])
             \/ a_readUntil(f) \/ end(f) \/ destroy(f)
             \/ \E n \in WriteSizes : a_write(f, n) \/ write(f, n)
  BY DEF UserCode
<1>1. ASSUME NEW timed \in BOOLEAN, a_connect(f, timed) PROVE Quiet
  <2>1. /\ sock' = [sock EXCEPT !.st = "Connecting", !.ev = {"IN", "OUT"}]
        /\ net' = [net EXCEPT !.conn = "pending"] /\ UNCHANGED <<got, handed>>
    BY <1>1 DEF a_connect
  <2>2. sock'.rb = sock.rb
    BY <2>1 DEF SockRecords, SockFields
  <2>3. net'.taken = net.taken
    BY SMTT(30), <2>1 DEF NetTyped, NetRecords
  <2> QED BY <2>1, <2>2, <2>3, NothingPassed
<1>2. ASSUME NEW timed \in BOOLEAN, a_drain(f, timed) PROVE Quiet
  BY <1>2, NothingPassed DEF a_drain
<1>3. ASSUME NEW p \in ReadCalls, a_read(f, p[1], p[2], p[3])
      PROVE  Quiet
  <2> DEFINE r == [frame[f] EXCEPT !.at = "run", !.min = p[1], !.max = p[2]]
  <2>1. UNCHANGED <<net, handed>>
        /\ (UNCHANGED <<sock, got>> \/ TakeBytes(f, sock, ahd, r))
    BY <1>3, ZenonT(60) DEF a_read
  <2>2. p[2] \in Nat /\ frame[f] \in FrameRecords
    BY CoroutineAssumption DEF FInv, FramesTyped
  <2>3. r.max \in Nat
    BY <2>2 DEF FrameRecords
  <2> HIDE DEF r
  <2>4. CASE TakeBytes(f, sock, ahd, r)
    BY <2>1, <2>3, <2>4, TakesPassed DEF Quiet
  <2>5. CASE UNCHANGED <<sock, got>>
    BY <2>1, <2>5, NothingPassed
  <2> QED BY <2>1, <2>4, <2>5
<1>4. ASSUME a_readUntil(f) PROVE Quiet
  BY <1>4, ReadsLinePassed DEF a_readUntil, Quiet
<1>5. ASSUME end(f) PROVE Quiet
  <2>1. net'.taken = net.taken
    BY <1>5, ShutdownTakes DEF end
  <2>2. sock'.rb = sock.rb
    BY SMTT(30), <1>5, RingKept DEF end, SockRecords, SockFields
  <2> QED BY <1>5, <2>1, <2>2, NothingPassed DEF end
<1>6. ASSUME destroy(f) PROVE Quiet
  BY ZenonT(60), <1>6, RingKept, NothingPassed DEF destroy
<1>7. ASSUME NEW n \in WriteSizes, a_write(f, n) \/ write(f, n) PROVE Quiet
  <2>1. UNCHANGED <<net, got, handed>>
    BY <1>7, Zenon DEF a_write, write
  <2>2. Written(n)
    BY <1>7, Zenon DEF a_write, write, appWrite2, Written
  <2>3. sock'.rb = sock.rb
    BY <2>2, WriteKeepsRing
  <2> QED BY Zenon, <2>1, <2>3, NothingPassed
<1> QED BY SMTT(30), <1>1, <1>2, <1>3, <1>4, <1>5, <1>6, <1>7

(* Nor does what happens at the other end. *)
LEMMA NetworkQuiet ==
  ASSUME Inv, got \in Seq(Bytes), Network
  PROVE  Quiet
<1>1. UNCHANGED <<sock, got, handed>>
  BY Zenon DEF Network
<1>2. \/ net' \in {[net EXCEPT !.conn = "err"], [net EXCEPT !.conn = "up"],
                   [net EXCEPT !.pfin = TRUE]}
      \/ \E n \in Segments : net' = [net EXCEPT !.sent = @ + n]
  BY Zenon DEF Network
<1>3. net'.taken = net.taken
  BY <1>2 DEF Inv, NetTyped, NetRecords
<1> QED BY <1>1, <1>3, NothingPassed

(* The steps of the loop outside the input event. *)
LEMMA HandledQuiet ==
  ASSUME Inv, got \in Seq(Bytes), ReadHandled \/ EndHandled \/ OutHandled
         \/ ImmediatesDone \/ CloseHandled \/ ReleaseHandled \/ Released
         \/ Poll \/ PollTimeout
  PROVE  Quiet
<1> USE DEF Inv
<1>1. UNCHANGED <<got, handed>>
  BY Zenon DEF ReadHandled, EndHandled, OutHandled, ImmediatesDone, CloseHandled,
     ReleaseHandled, Released, Poll, PollTimeout
<1>2. sock'.rb = sock.rb
  <2>1. CASE ReadHandled
    BY <2>1, Zenon DEF ReadHandled, SockRecords, SockFields
  <2>2. CASE EndHandled
    <3>1. [sock EXCEPT !.st = "LocalEnded"] \in SockRecords
      BY SockUpdates, StateNames, Zenon
    <3>2. [sock EXCEPT !.st = "LocalEnded"].rb = sock.rb
          /\ [sock EXCEPT !.st = "LocalEnding"].rb = sock.rb
      BY DEF SockRecords, SockFields
    <3> QED BY <2>2, <3>1, <3>2, RingKept, ZenonT(60) DEF EndHandled
  <2>3. CASE ImmediatesDone
    BY <2>3, Zenon DEF ImmediatesDone, SockRecords, SockFields
  <2>4. CASE CloseHandled
    BY <2>4, Zenon DEF CloseHandled, SockRecords, SockFields
  <2>5. CASE Released
    BY <2>5, Zenon DEF Released, SockRecords, SockFields
  <2>6. CASE OutHandled \/ ReleaseHandled \/ Poll \/ PollTimeout
    BY <2>6, Zenon DEF OutHandled, ReleaseHandled, Poll, PollTimeout
  <2> QED BY <2>1, <2>2, <2>3, <2>4, <2>5, <2>6
<1>3. net'.taken = net.taken
  <2>1. UNCHANGED net \/ Shutdown \/ net' = [net EXCEPT !.conn = "closed"]
    BY Zenon DEF ReadHandled, EndHandled, OutHandled, ImmediatesDone,
       CloseHandled,
       ReleaseHandled, Released, Poll, PollTimeout
  <2>2. CASE net' = [net EXCEPT !.conn = "closed"]
    BY <2>2 DEF NetTyped, NetRecords
  <2> QED BY <2>1, <2>2, ShutdownTakes
<1> QED BY <1>1, <1>2, <1>3, NothingPassed

(* Resuming a coroutine that writes or connects takes nothing from the     *)
(* ring, unless it goes on to read.                                        *)
LEMMA OutPassed ==
  ASSUME LeastLaw, Inv, got \in Seq(Bytes), NEW kind \in Kinds, NEW d \in SockRecords,
         d.rb = sock.rb, Out(kind, d)
  PROVE  Passed(sock)
<1>1. CASE ahd[kind] # 0
  <2>1. ResumeKind(kind, d, FALSE)
    BY <1>1, Zenon DEF Out
  <2>2. Passed(d)
    BY <1>1, <2>1, ResumesKindPassed, Zenon DEF Inv
  <2> QED BY <2>2, PassedSame
<1>2. CASE sock' = d /\ got' = got
  BY <1>2, Zenon DEF Passed
<1> QED BY <1>1, <1>2, Zenon DEF Out

(* Sending the last of what was buffered is quiet. *)
LEMMA AllSentQuiet ==
  ASSUME LeastLaw, Inv, got \in Seq(Bytes), NEW bad \in BOOLEAN, AllSent(bad), handed' = handed
  PROVE  Quiet
<1> USE DEF Inv
<1> DEFINE d == [sock EXCEPT !.wbuf = 0, !.rest = IF bad THEN @ ELSE 0, !.ev = @ \ {"OUT"}]
           e == [d EXCEPT !.st = "LocalEnded"]
<1>1. d \in SockRecords /\ d.rb = sock.rb
  <2>1. d \in SockRecords
    BY Drained, Zenon
  <2>2. d.rb = sock.rb
    BY DEF SockRecords, SockFields
  <2> QED BY SMTT(30), <2>1, <2>2
<1>2. \E x \in {d, e, closeSocket(d, "ErrorClosing"), closeSocket(d, "Closing")} : Out("drain", x)
  BY Zenon DEF AllSent
<1>3. Shutdown \/ UNCHANGED net
  BY DEF AllSent
<1> HIDE DEF d
<1>4. e \in SockRecords /\ e.rb = sock.rb
  <2>1. e \in SockRecords
    BY <1>1, SockUpdates, StateNames, Zenon
  <2>2. e.rb = d.rb
    BY <1>1 DEF SockRecords, SockFields
  <2> QED BY <1>1, <2>1, <2>2
<1>5. /\ closeSocket(d, "ErrorClosing") \in SockRecords
      /\ closeSocket(d, "Closing") \in SockRecords
      /\ closeSocket(d, "ErrorClosing").rb = sock.rb
      /\ closeSocket(d, "Closing").rb = sock.rb
  BY <1>1, Closes, RingKept
<1>6. net'.taken = net.taken
  BY <1>3, ShutdownTakes
<1> HIDE DEF e
<1>7. "drain" \in Kinds
  BY DEF Kinds
<1>8. Passed(sock)
  BY <1>1, <1>2, <1>4, <1>5, <1>7, OutPassed, Zenon
<1> QED BY <1>6, <1>8 DEF Quiet

(* So is an update of the socket that keeps its ring. *)
LEMMA SockQuiet ==
  ASSUME Inv, got \in Seq(Bytes), NEW d \in SockRecords, d.rb = sock.rb, Nothing(d),
         handed' = handed
  PROVE  Quiet
BY NothingPassed, Zenon DEF Nothing

(* So is sending what a coroutine left to be sent. *)
LEMMA RestNextQuiet ==
  ASSUME LeastLaw, Inv, got \in Seq(Bytes), RestNext, handed' = handed
  PROVE  Quiet
<1>1. CASE AllSent(TRUE) \/ AllSent(FALSE)
  BY <1>1, AllSentQuiet, Zenon
<1>2. CASE sock' = [sock EXCEPT !.wbuf = 0] /\ UNCHANGED <<net, got>>
  <2>1. sock'.rb = sock.rb
    BY <1>2 DEF Inv, SockRecords, SockFields
  <2> QED BY <1>2, <2>1, NothingPassed
<1> QED BY <1>1, <1>2, Zenon DEF RestNext

(* The whole of infraProcessWriteEvent is quiet. *)
LEMMA WriteEventQuiet ==
  ASSUME LeastLaw, Inv, got \in Seq(Bytes), WriteEvent
  PROVE  Quiet
<1> USE DEF Inv
<1> DEFINE c == closeSocket(sock, "ErrorClosing")
           u == [sock EXCEPT !.st = "Connected", !.ev = @ \ {"OUT"}]
<1>1. handed' = handed
  BY Zenon DEF WriteEvent
<1>2. c \in SockRecords /\ c.rb = sock.rb
  BY Closes, RingKept
<1>3. u \in SockRecords /\ u.rb = sock.rb
  <2> DEFINE v == sock.ev \ {"OUT"}
  <2>1. v \in SUBSET {"IN", "OUT"}
    BY SockUpdates, Zenon
  <2> HIDE DEF v
  <2>2. [sock EXCEPT !.st = "Connected", !.ev = v] \in SockRecords
    BY <2>1, StateNames, Zenon DEF SockRecords, SockFields
  <2>3. [sock EXCEPT !.st = "Connected", !.ev = v].rb = sock.rb
    BY DEF SockRecords, SockFields
  <2> QED BY <2>2, <2>3 DEF v
<1>4. CASE UNCHANGED <<sock, net, got>>
  BY <1>1, <1>4, NothingPassed
<1>5. CASE Nothing(sock) \/ Nothing(c)
  BY <1>1, <1>2, <1>5, SockQuiet
<1>6. CASE Out("connect", u) /\ UNCHANGED net
  <2>1. "connect" \in Kinds
    BY DEF Kinds
  <2>2. Passed(sock)
    BY <1>3, <1>6, <2>1, OutPassed, Zenon
  <2> QED BY <1>1, <1>6, <2>2 DEF Quiet
<1>7. CASE RestNext \/ AllSent(FALSE)
  BY <1>1, <1>7, RestNextQuiet, AllSentQuiet, Zenon
<1>8. ASSUME NEW k \in 0 .. sock.wbuf - 1, Nothing([sock EXCEPT !.wbuf = @ - k]) PROVE Quiet
  <2>1. sock'.rb = sock.rb
    BY <1>8 DEF Nothing, SockRecords, SockFields
  <2> QED BY <1>1, <1>8, <2>1, NothingPassed DEF Nothing
<1>9. \/ UNCHANGED <<sock, net, got>>
      \/ Nothing(sock) \/ Nothing(c)
      \/ Out("connect", u) /\ UNCHANGED net
      \/ RestNext \/ AllSent(FALSE)
      \/ \E k \in 0 .. sock.wbuf - 1 : Nothing([sock EXCEPT !.wbuf = @ - k])
  BY Zenon DEF WriteEvent, Stop
<1> HIDE DEF c, u
<1> QED BY <1>4, <1>5, <1>6, <1>7, <1>8, <1>9, Zenon

(* Resuming the coroutines of a closed socket is quiet. *)
LEMMA ReleaseQuiet ==
  ASSUME LeastLaw, Inv, got \in Seq(Bytes), Release
  PROVE  Quiet
<1> PICK i \in DOMAIN loop.left :
       Held(i) /\ ResumeKind(loop.left[i], sock, TRUE) /\ UNCHANGED <<net, handed>>
  BY Zenon DEF Release
<1>1. loop.left \in Seq(Kinds)
  BY DEF LoopTyped, Inv
<1>2. loop.left[i] \in Kinds /\ ahd[loop.left[i]] # 0
  BY <1>1 DEF Held
<1>3. Passed(sock)
  BY <1>2, ResumesKindPassed, Zenon DEF Inv
<1> QED BY <1>3 DEF Quiet

(* So is the timeout of an awaiter. *)
LEMMA TimeoutQuiet ==
  ASSUME LeastLaw, Inv, got \in Seq(Bytes), NEW f \in Frames, ActionTimeout(f)
  PROVE  Quiet
<1>1. Resume(f, "timer", sock, ahd, FALSE) /\ UNCHANGED <<net, handed>>
  BY Zenon DEF ActionTimeout
<1>2. Passed(sock)
  BY <1>1, ResumesPassed, Zenon DEF Inv
<1> QED BY <1>1, <1>2 DEF Quiet

(* A step that receives k bytes into the ring. *)
Receives(k) ==
  /\ got' \in Seq(Bytes)
  /\ \/ failed' # ""
     \/ got' \o Contents(sock'.rb)
          = (got \o Contents(sock.rb)) \o SubSeq(Waiting, 1, k)
  /\ handed' = handed
  /\ net'.taken = net.taken + k

(* An input event for a waiting coroutine appends what it takes to the     *)
(* ring, from which the coroutine it resumes may take bytes in the same    *)
(* step.                                                                   *)
LEMMA CoroutineReceives ==
  ASSUME LeastLaw, Inv, got \in Seq(Bytes), ahd["read"] # 0, CoroutineReadEvent, handed' = handed
  PROVE  Quiet \/ \E k \in 0 .. net.sent - net.taken : Receives(k)
<1> USE DEF Inv
<1>1. CASE FirstRead(sock.rb) = 0
  BY <1>1, NothingPassed, Zenon DEF CoroutineReadEvent, Stop
<1>2. CASE FirstRead(sock.rb) # 0
  <2> DEFINE r == read(sock.rb, Waiting, need)
             d == [sock EXCEPT !.rb = r.buff]
             low == used_size(r.buff) < need
             k == r.taken
             w == SubSeq(Waiting, 1, k)
  <2>1. sock.rb \in Rings /\ Waiting \in Seq(Bytes) /\ Len(Waiting) = net.sent - net.taken
    BY WaitingTyped DEF SockRecords, SockFields
  <2>2. r.buff \in Rings /\ k \in 0 .. Len(Waiting)
    BY <2>1, ReadTyped
  <2>3. Contents(r.buff) = Contents(sock.rb) \o w
    BY <2>1, ReadAppends, Zenon
  <2>4. net' = [net EXCEPT !.taken = net.taken + k]
    BY <1>2 DEF CoroutineReadEvent
  <2>5. \/ sock' = d /\ got' = got
        \/ ResumeKind("read", d, low)
    BY <1>2 DEF CoroutineReadEvent
  <2>6. low \in BOOLEAN
    OBVIOUS
  <2> HIDE DEF r, low
  <2>7. d \in SockRecords /\ d.rb = r.buff
    <3>1. d \in SockRecords
      BY <2>2, RingReplaced
    <3>2. d.rb = r.buff
      BY DEF SockRecords, SockFields
    <3> QED BY <3>1, <3>2
  <2> HIDE DEF d
  <2>8. net'.taken = net.taken + k
    BY <2>4 DEF NetTyped, NetRecords
  <2>9. Passed(d)
    <3>1. CASE sock' = d /\ got' = got
      BY <3>1, Zenon DEF Passed
    <3>2. CASE ResumeKind("read", d, low)
      <4>1. "read" \in Kinds
        BY DEF Kinds
      <4> QED BY <2>6, <2>7, <3>2, <4>1, ResumesKindPassed, Zenon
    <3> QED BY <2>5, <3>1, <3>2
  <2>10. w \in Seq(Bytes) /\ Contents(sock.rb) \in Seq(Bytes)
    BY <2>1, <2>2, ContentsTyped
  <2> HIDE DEF w
  <2>11. (got \o Contents(sock.rb)) \o w = got \o (Contents(sock.rb) \o w)
    BY SMTT(30), <2>10, JoinedTwice
  <2>12. got' \in Seq(Bytes)
         /\ (failed' # "" \/ got' \o Contents(sock'.rb) = (got \o Contents(sock.rb)) \o w)
    BY <2>3, <2>7, <2>9, <2>11, Zenon DEF Passed
  <2>13. Receives(k)
    BY <2>8, <2>12, Zenon DEF Receives, w
  <2> HIDE DEF k
  <2> QED BY <2>1, <2>2, <2>13
<1> QED BY <1>1, <1>2

(* A step that gives what has arrived to the data handlers. *)
Hands ==
  /\ UNCHANGED got /\ sock'.rb = sock.rb
  /\ handed' = handed \cup Range(Waiting)
  /\ net'.taken = net.sent

(* The end of the stream leaves the ring alone. *)
LEMMA RemoteEndedKeepsRing ==
  ASSUME sock \in SockRecords, RemoteEnded
  PROVE  sock'.rb = sock.rb
BY Zenon DEF RemoteEnded, SockRecords, SockFields

(* An input event is quiet, appends the next bytes to the ring or gives    *)
(* all that has arrived to the handlers.                                   *)
LEMMA InputReceives ==
  ASSUME LeastLaw, Inv, got \in Seq(Bytes), InputEvent
  PROVE  Quiet \/ Hands \/ \E k \in 0 .. net.sent - net.taken : Receives(k)
<1> USE DEF Inv
<1>1. CASE sock' = closeSocket(sock, "ErrorClosing") /\ UNCHANGED <<net, got, handed>>
  BY <1>1, RingKept, NothingPassed
<1>2. CASE ahd.read # 0 /\ CoroutineReadEvent /\ UNCHANGED handed
  BY <1>2, CoroutineReceives
<1>3. CASE HandlerReadEvent
  <2>1. CASE /\ net' = [net EXCEPT !.taken = net.sent] /\ UNCHANGED <<sock, got>>
             /\ handed' = handed \cup Range(Waiting)
    <3>1. net'.taken = net.sent
      BY <2>1 DEF NetTyped, NetRecords
    <3> QED BY <2>1, <3>1, Zenon DEF Hands
  <2>2. CASE RemoteEnded /\ UNCHANGED <<net, handed, got>>
    BY <2>2, RemoteEndedKeepsRing, NothingPassed
  <2> QED BY <1>3, <2>1, <2>2, Zenon DEF HandlerReadEvent
<1>4. CASE ReadFails /\ UNCHANGED <<net, handed>>
  <2> DEFINE d == closeSocket(sock, "ErrorClosing")
  <2>1. d \in SockRecords /\ d.rb = sock.rb
    BY Closes, RingKept
  <2>2. \/ ahd["read"] # 0 /\ ResumeKind("read", d, TRUE)
        \/ sock' = d /\ got' = got
    BY <1>4, Zenon DEF ReadFails
  <2> HIDE DEF d
  <2>3. CASE ahd["read"] # 0 /\ ResumeKind("read", d, TRUE)
    <3>1. "read" \in Kinds
      BY DEF Kinds
    <3>2. Passed(d)
      BY <2>1, <2>3, <3>1, ResumesKindPassed, Zenon
    <3>3. Passed(sock)
      BY <2>1, <3>2, PassedSame
    <3> QED BY <1>4, <3>3 DEF Quiet
  <2>4. CASE sock' = d /\ got' = got
    BY SMTT(30), <1>4, <2>1, <2>4, NothingPassed
  <2> QED BY <2>2, <2>3, <2>4, Zenon
<1>5. CASE RemoteEnded /\ UNCHANGED <<net, got, handed>>
  BY <1>5, RemoteEndedKeepsRing, NothingPassed
<1>6. CASE UNCHANGED <<sock, net, got, handed>>
  BY <1>6, NothingPassed
<1> QED BY <1>1, <1>2, <1>3, <1>4, <1>5, <1>6, Zenon DEF InputEvent

-----------------------------------------------------------------------------
(* The bytes s, in order, and the bytes h are those up to n, each once. *)
Account(s, h, n) ==
  /\ \A i \in 1 .. Len(s) - 1 : s[i] < s[i + 1]
  /\ \A i \in 1 .. Len(s) : s[i] \notin h
  /\ Range(s) \cup h = 1 .. n

(* Everything accounted for is among the bytes up to n. *)
LEMMA AccountUpTo ==
  ASSUME NEW s \in Seq(Bytes), NEW h, NEW n \in Nat, Account(s, h, n)
  PROVE  h \subseteq 1 .. n /\ \A i \in 1 .. Len(s) : s[i] \in 1 .. n
<1>1. \A i \in 1 .. Len(s) : s[i] \in Range(s)
  BY DEF Range
<1> QED BY <1>1, Zenon DEF Account

(* The next k bytes arrive at the end. *)
LEMMA AccountGrows ==
  ASSUME NEW s \in Seq(Bytes), NEW h, NEW n \in Nat, Account(s, h, n),
         NEW w \in Seq(Bytes), \A i \in 1 .. Len(w) : w[i] = n + i
  PROVE  Account(s \o w, h, n + Len(w))
<1> DEFINE k == Len(w)
           t == s \o w
           m == Len(s)
<1>1. m \in Nat /\ k \in Nat
  OBVIOUS
<1>2. /\ t \in Seq(Bytes) /\ Len(t) = m + k
      /\ \A i \in 1 .. m : t[i] = s[i]
      /\ \A i \in m + 1 .. m + k : t[i] = w[i - m]
  BY Joined
<1>3. h \subseteq 1 .. n /\ \A i \in 1 .. m : s[i] \in 1 .. n
  BY AccountUpTo
<1>4. \A i \in 1 .. k : w[i] = n + i
  OBVIOUS
<1>5. /\ \A i \in 1 .. m - 1 : s[i] < s[i + 1]
      /\ \A i \in 1 .. m : s[i] \notin h
      /\ Range(s) \cup h = 1 .. n
  BY DEF Account
<1> HIDE DEF t, k, m
<1>6. \A i \in m + 1 .. m + k : t[i] = n + (i - m)
  BY <1>1, <1>2, <1>4
<1>7. ASSUME NEW i \in 1 .. m + k - 1 PROVE t[i] < t[i + 1]
  <2>1. CASE i \in 1 .. m - 1
    BY <1>1, <1>2, <1>5, <2>1
  <2>2. CASE i = m
    <3>1. t[i] \in 1 .. n /\ t[i + 1] = n + 1
      <4>1. m \in 1 .. m /\ m + 1 \in m + 1 .. m + k /\ m + 1 - m = 1
        BY <1>1, <2>2
      <4> QED BY SMTT(30), <1>2, <1>3, <1>6, <2>2, <4>1
    <3> QED BY <3>1
  <2>3. CASE i \in m + 1 .. m + k - 1
    BY <1>1, <1>6, <2>3
  <2> QED BY SMTT(30), <1>1, <2>1, <2>2, <2>3
<1>8. ASSUME NEW i \in 1 .. m + k PROVE t[i] \notin h
  <2>1. CASE i \in 1 .. m
    BY <1>2, <1>5, <2>1
  <2>2. CASE i \in m + 1 .. m + k
    <3>1. t[i] = n + (i - m) /\ ~(n + (i - m) \in 1 .. n)
      BY <1>1, <1>6, <2>2
    <3> QED BY <1>3, <3>1, Zenon
  <2> QED BY <1>1, <2>1, <2>2
<1>9. Range(t) = Range(s) \cup n + 1 .. n + k
  <2>1. DOMAIN t = 1 .. m + k /\ DOMAIN s = 1 .. m
    BY <1>1, <1>2 DEF m
  <2>2. ASSUME NEW x \in Range(t) PROVE x \in Range(s) \cup n + 1 .. n + k
    <3>1. PICK i \in 1 .. m + k : x = t[i]
      BY SMTT(30), <2>1 DEF Range
    <3>2. CASE i \in 1 .. m
      BY SMTT(30), <1>2, <2>1, <3>1, <3>2 DEF Range
    <3>3. CASE i \in m + 1 .. m + k
      BY SMTT(30), <1>1, <1>6, <3>1, <3>3
    <3> QED BY SMTT(30), <1>1, <3>2, <3>3
  <2>3. ASSUME NEW x \in Range(s) PROVE x \in Range(t)
    <3>1. PICK i \in 1 .. m : x = s[i]
      BY SMTT(30), <2>1 DEF Range
    <3>2. i \in 1 .. m + k /\ x = t[i]
      BY SMTT(30), <1>1, <1>2, <3>1
    <3> QED BY SMTT(30), <2>1, <3>2 DEF Range
  <2>4. ASSUME NEW x \in n + 1 .. n + k PROVE x \in Range(t)
    <3> DEFINE i == m + (x - n)
    <3>1. i \in 1 .. m + k /\ i \in m + 1 .. m + k /\ n + (i - m) = x
      BY <1>1
    <3>2. t[i] = x
      BY <1>6, <3>1
    <3> QED BY SMTT(30), <2>1, <3>1, <3>2 DEF Range
  <2> QED BY <2>2, <2>3, <2>4
<1>10. Range(t) \cup h = 1 .. n + k
  <2>1. 1 .. n + k = (1 .. n) \cup (n + 1 .. n + k)
    BY <1>1
  <2> QED BY <1>5, <1>9, <2>1, Zenon
<1>11. Account(t, h, n + k)
  <2>1. Len(t) = m + k
    BY <1>2
  <2>2. \A i \in 1 .. Len(t) - 1 : t[i] < t[i + 1]
    <3>1. SUFFICES ASSUME NEW i \in 1 .. Len(t) - 1 PROVE t[i] < t[i + 1]
      OBVIOUS
    <3>2. i \in 1 .. m + k - 1
      BY <1>1, <2>1
    <3> QED BY <1>7, <3>2, Zenon
  <2>3. \A i \in 1 .. Len(t) : t[i] \notin h
    BY <1>8, <2>1
  <2> QED BY <1>10, <2>2, <2>3 DEF Account
<1> QED BY <1>11 DEF t, k

(* The next bytes, up to m, go to the data handlers. *)
LEMMA AccountHands ==
  ASSUME NEW s \in Seq(Bytes), NEW h, NEW n \in Nat, Account(s, h, n),
         NEW m \in Nat, n <= m
  PROVE  Account(s, h \cup n + 1 .. m, m)
<1>1. \A i \in 1 .. Len(s) : s[i] \in 1 .. n
  BY AccountUpTo
<1>2. 1 .. m = (1 .. n) \cup (n + 1 .. m)
  OBVIOUS
<1>3. Range(s) \cup (h \cup n + 1 .. m) = 1 .. m
  BY <1>2, Zenon DEF Account
<1>4. \A i \in 1 .. Len(s) : s[i] \notin h \cup n + 1 .. m
  <2> SUFFICES ASSUME NEW i \in 1 .. Len(s) PROVE s[i] \notin h \cup n + 1 .. m
    OBVIOUS
  <2>1. s[i] \notin h /\ s[i] \in 1 .. n
    BY <1>1 DEF Account
  <2> QED BY <2>1
<1> QED BY <1>3, <1>4, Zenon DEF Account

(* No assertion has failed. *)
Going == failed = ""

(* The invariant of the stream. *)
SInv == got \in Seq(Bytes) /\ BytesAccounted

(* BytesAccounted in terms of Account. *)
LEMMA BytesAccountedIs ==
  BytesAccounted <=> (Going => Account(got \o Contents(sock.rb), handed, net.taken))
BY Zenon DEF BytesAccounted, Account, Going

(* Each of the three kinds of steps keeps the account. *)
LEMMA StepKeepsStream ==
  ASSUME Inv, Inv', SInv, Going,
         Quiet \/ Hands \/ \E k \in 0 .. net.sent - net.taken : Receives(k)
  PROVE  SInv'
<1> DEFINE s == got \o Contents(sock.rb)
           n == net.taken
<1>1. got \in Seq(Bytes) /\ Contents(sock.rb) \in Seq(Bytes)
  BY ContentsTyped DEF SInv, Inv, SockRecords, SockFields
<1>2. s \in Seq(Bytes)
  BY <1>1
<1>3. Account(s, handed, n)
  BY BytesAccountedIs, Zenon DEF SInv
<1>4. n \in Nat /\ net.sent \in Nat /\ n <= net.sent
  BY CoroutineAssumption DEF Inv, NetTyped, NetRecords, Bytes
<1>5. Waiting \in Seq(Bytes) /\ Len(Waiting) = net.sent - n
      /\ \A i \in 1 .. net.sent - n : Waiting[i] = n + i
  BY WaitingTyped, Zenon DEF Inv, Waiting
<1>6. BytesAccounted' <=>
        (Going' => Account(got' \o Contents(sock'.rb), handed', net'.taken))
  BY Zenon DEF BytesAccounted, Account, Going
<1> HIDE DEF s, n
<1>7. CASE Quiet
  <2>1. got' \in Seq(Bytes) /\ handed' = handed /\ net'.taken = n
        /\ (~Going' \/ got' \o Contents(sock'.rb) = s)
    BY <1>7, Zenon DEF Quiet, Passed, Going, s, n
  <2> QED BY <1>3, <1>6, <2>1, Zenon DEF SInv
<1>8. CASE Hands
  <2>1. got' = got /\ sock'.rb = sock.rb /\ net'.taken = net.sent
        /\ handed' = handed \cup Range(Waiting)
    BY <1>8 DEF Hands
  <2>2. Range(Waiting) = n + 1 .. net.sent
    <3>1. DOMAIN Waiting = 1 .. net.sent - n
      BY SMTT(30), <1>5
    <3>2. ASSUME NEW x \in n + 1 .. net.sent PROVE x \in Range(Waiting)
      <4>1. x - n \in 1 .. net.sent - n /\ n + (x - n) = x
        BY <1>4
      <4>2. Waiting[x - n] = x
        BY SMTT(30), <1>5, <4>1
      <4> QED BY SMTT(30), <3>1, <4>1, <4>2 DEF Range
    <3>3. ASSUME NEW x \in Range(Waiting) PROVE x \in n + 1 .. net.sent
      <4>1. PICK i \in 1 .. net.sent - n : x = Waiting[i]
        BY <3>1 DEF Range
      <4> QED BY SMTT(30), <1>4, <1>5, <4>1
    <3> QED BY <3>2, <3>3, Zenon
  <2>3. Account(s, handed \cup n + 1 .. net.sent, net.sent)
    BY <1>2, <1>3, <1>4, AccountHands
  <2> QED BY <1>1, <1>6, <2>1, <2>2, <2>3, ZenonT(60) DEF SInv, s
<1>9. ASSUME NEW k \in 0 .. net.sent - n, Receives(k) PROVE SInv'
  <2> DEFINE w == SubSeq(Waiting, 1, k)
  <2>1. w \in Seq(Bytes) /\ Len(w) = k /\ \A i \in 1 .. Len(w) : w[i] = n + i
    BY SMTT(30), <1>4, <1>5
  <2>2. got' \in Seq(Bytes) /\ handed' = handed /\ net'.taken = n + k
        /\ (~Going' \/ got' \o Contents(sock'.rb) = s \o w)
    BY <1>9, Zenon DEF Receives, Going, s, n
  <2> HIDE DEF w
  <2>3. Account(s \o w, handed, n + k)
    BY <1>2, <1>3, <1>4, <2>1, AccountGrows, Zenon
  <2> QED BY <1>6, <2>2, <2>3, Zenon DEF SInv
<1> QED BY SMTT(30), <1>7, <1>8, <1>9 DEF n

(* And every step is of one of these kinds. *)
LEMMA NextKeepsStream ==
  ASSUME LeastLaw, Inv, Inv', SInv, [Next]_vars
  PROVE  SInv'
<1>1. CASE UNCHANGED vars
  <2>1. UNCHANGED <<got, sock, handed, net, failed>>
    BY <1>1 DEF vars
  <2> QED BY <2>1, Zenon DEF SInv, BytesAccounted
<1>2. CASE Next
  <2>1. Going
    BY <1>2, ZenonT(60) DEF Going, Next, UserCode, Network, LoopStep, Timers, Poll,
       InputEvent, ReadHandled,
       EndHandled, WriteEvent, OutHandled, ImmediatesDone, CloseHandled, Release,
       ReleaseHandled, Released, PollTimeout, ActionTimeout, a_connect, a_read,
       a_readUntil, a_write, write, a_drain, end, destroy, MayCall
  <2>2. got \in Seq(Bytes)
    BY DEF SInv
  <2>3. Quiet \/ Hands \/ \E k \in 0 .. net.sent - net.taken : Receives(k)
    BY SMTT(30), <1>2, <2>2, UserQuiet, NetworkQuiet, HandledQuiet, InputReceives,
       WriteEventQuiet,
       ReleaseQuiet, TimeoutQuiet DEF Next, LoopStep, Timers
  <2> QED BY SMTT(30), <2>1, <2>3, StepKeepsStream
<1> QED BY <1>1, <1>2

-----------------------------------------------------------------------------
(* The theorems. *)

INSTANCE WellFoundedInduction

(* The law the lemmas above assume holds. *)
LEMMA LeastLawHolds == LeastLaw
<1> SUFFICES ASSUME NEW S \in SUBSET Nat, S # {}
             PROVE  Min(S) \in S /\ \A y \in S : Min(S) <= y
  BY DEF LeastLaw
<1> DEFINE R == {ss \in Nat \X Nat : ss[1] < ss[2]}
<1>1. IsWellFoundedOn(R, Nat)
  BY NatLessThanWellFounded DEF OpToRel
<1>2. PICK x \in S : \A y \in S : ~(<<y, x>> \in R)
  BY Zenon, <1>1, WFMin
<1>3. ASSUME NEW y \in S PROVE x <= y
  <2>1. ~(<<y, x>> \in R)
    BY <1>2
  <2>2. x \in Nat /\ y \in Nat
    OBVIOUS
  <2>3. ~(y < x)
    BY <2>1, <2>2
  <2> QED BY <2>2, <2>3
<1> QED BY Zenon, <1>3 DEF Min

(* The conjunction of what follows is inductive: the frames, the handles,  *)
(* the socket with its ring, the network and the loop are well formed, and *)
(* every frame that waits is found by its handle.                          *)
THEOREM Invariance == Spec => []Inv
<1>1. Init => Inv
  BY InitInv
<1>2. Inv /\ [Next]_vars => Inv'
  BY NextInv, LeastLawHolds
<1> QED BY <1>1, <1>2, PTL DEF Spec

(* Types, for rings of every size: begin and end never leave the memory    *)
(* (get_ready_data, read_ready_data_until, read), and however writeBuffer  *)
(* grows, or fails to, append leaves a cell of it free, without which a    *)
(* full buffer could not be told from an empty one.                        *)
THEOREM TypeCorrect == Spec => []TypeOK
<1>1. Inv => TypeOK
  <2> SUFFICES ASSUME Inv PROVE TypeOK
    OBVIOUS
  <2>1. sock.rb \in [m : [0 .. alloc_size - 1 -> 0 .. MaxBytes],
                     b : 0 .. alloc_size - 1, e : 0 .. alloc_size - 1]
    BY DEF Inv, SockRecords, SockFields, Rings, Offsets, Bytes
  <2>2. frame \in [Frames -> [at : Kinds \cup {"none", "run", "ended", "line"},
                  min : Nat, max : Nat, exc : BOOLEAN, timer : BOOLEAN,
                  part : BOOLEAN]]
    BY DEF Inv, FInv, FramesTyped, FrameRecords
  <2>3. ahd \in [Kinds -> 0 .. NFrames]
    BY DEF Inv, FInv, FramesTyped
  <2>4. /\ sock.st \in States /\ sock.ev \subseteq {"IN", "OUT"}
        /\ sock.rend \in BOOLEAN /\ sock.pending \in BOOLEAN /\ sock.used \in BOOLEAN
        /\ sock.wcap \in Nat /\ sock.wbuf \in 0 .. sock.wcap - 1
        /\ sock.rest \in WriteSizes \cup {0}
    BY DEF Inv, SockRecords, SockFields
  <2>5. loop.pc \in UserPcs \cup {"in", "out", "release"}
    BY SMTT(30) DEF Inv, LoopTyped
  <2> QED BY SMTT(30), <2>1, <2>2, <2>3, <2>4, <2>5 DEF TypeOK
<1> QED BY <1>1, Invariance, PTL

(* However many coroutines share the socket, and whatever resumes them, a  *)
(* frame that waits is in the handle its awaiter registered: resuming one  *)
(* takes the handle out before the frame runs (tcp_socket.h, hr()), so a   *)
(* wait it begins meanwhile is not wiped out.                              *)
THEOREM NoLostHandle == Spec => []WaitingIsRegistered
<1>1. Inv => WaitingIsRegistered
  BY DEF Inv, FInv
<1> QED BY <1>1, Invariance, PTL

(* The timer of an awaiter with a period does not outlive the wait.        *)
THEOREM TimersEndWithWaits == Spec => []TimerOnlyWhileWaiting
<1>1. Inv => TimerOnlyWhileWaiting
  BY DEF Inv, FInv
<1> QED BY <1>1, Invariance, PTL

(* The stream arrives whole: whatever the sizes of the reads, of the lines *)
(* and of the segments, and wherever the ring turns around, the coroutines *)
(* have been given the bytes in the order sent, each once, and what is in  *)
(* readBuffer follows them (get_ready_data, read_ready_data_until, read).  *)
THEOREM StreamIsWhole == Spec => []BytesAccounted
<1>1. Init => SInv
  <2> SUFFICES ASSUME Init PROVE SInv
    OBVIOUS
  <2>1. got = <<>> /\ handed = {} /\ net.taken = 0 /\ sock.rb = EmptyBuffer
    BY Zenon DEF Init
  <2>2. Contents(EmptyBuffer) = <<>>
    <3>1. EmptyBuffer.b = 0 /\ EmptyBuffer.e = 0
      BY DEF EmptyBuffer
    <3>2. Contents(EmptyBuffer) = [k \in 1 .. 0 |-> EmptyBuffer.m[0 + k - 1]]
      BY <3>1 DEF Contents, Span
    <3> QED BY <3>2
  <2> DEFINE s == got \o Contents(sock.rb)
  <2>3. s = <<>> /\ got \in Seq(Bytes)
    BY <2>1, <2>2
  <2>4. Account(<<>>, {}, 0)
    BY DEF Account, Range
  <2> QED BY SMTT(30), <2>1, <2>3, <2>4, BytesAccountedIs DEF SInv
<1>2. Inv /\ Inv' /\ SInv /\ [Next]_vars => SInv'
  BY NextKeepsStream, LeastLawHolds
<1>3. SInv => BytesAccounted
  BY DEF SInv
<1> QED BY <1>1, <1>2, <1>3, Invariance, PTL DEF Spec
=============================================================================
