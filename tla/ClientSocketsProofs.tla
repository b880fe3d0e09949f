------------------------- MODULE ClientSocketsProofs -------------------------
(***************************************************************************)
(* The safety properties of ClientSockets hold for any number of sockets,  *)
(* any bound on buffers and calls, and any size from which the table is    *)
(* compacted.                                                              *)
(***************************************************************************)
EXTENDS ClientSockets, NetSocketsProofs

-----------------------------------------------------------------------------
(* The entries that are handed to poll(), and how many there are. *)
Associated(t) == {i \in Places(t) : t.e[i].st = "SockAssociated"}
NAssociated(t) == Cardinality(Associated(t))

(* The associated entries can be counted. *)
LEMMA AssociatedFinite ==
  ASSUME Laws, NEW O, NEW t \in Tables(O)
  PROVE  IsFiniteSet(Associated(t)) /\ NAssociated(t) \in Nat
<1>1. IsFiniteSet(Places(t))
  BY DEF Laws, IntervalLaw, Places, Tables
<1>2. Associated(t) \subseteq Places(t)
  BY DEF Associated
<1>3. IsFiniteSet(Associated(t))
  BY <1>1, <1>2 DEF Laws, SubsetLaw
<1> QED BY <1>3 DEF Laws, CountLaw, NAssociated

(* A change of one entry changes their number by that entry at most. *)
LEMMA AssociatedChanged ==
  ASSUME Laws, NEW O, NEW t \in Tables(O), NEW u, NEW i \in Places(t), NEW x,
         Changed(O, t, u, i, x)
  PROVE  /\ (x.st = "SockAssociated" <=> t.e[i].st = "SockAssociated")
              => NAssociated(u) = NAssociated(t)
         /\ (x.st = "SockAssociated" /\ t.e[i].st # "SockAssociated")
              => NAssociated(u) = NAssociated(t) + 1
         /\ (x.st # "SockAssociated" /\ t.e[i].st = "SockAssociated")
              => NAssociated(u) = NAssociated(t) - 1
<1>1. Places(u) = Places(t)
  BY DEF Changed, Places
<1>2. u.e[i] = x /\ \A j \in Places(t) : j # i => u.e[j] = t.e[j]
  BY DEF Changed
<1>3. x.st = "SockAssociated" => Associated(u) = Associated(t) \cup {i}
  BY <1>1, <1>2 DEF Associated
<1>4. x.st # "SockAssociated" => Associated(u) = Associated(t) \ {i}
  BY <1>1, <1>2 DEF Associated
<1>5. i \in Associated(t) <=> t.e[i].st = "SockAssociated"
  BY DEF Associated
<1>6. IsFiniteSet(Associated(t)) /\ NAssociated(t) \in Nat
  BY AssociatedFinite
<1>7. /\ Cardinality(Associated(t) \cup {i})
           = IF i \in Associated(t) THEN NAssociated(t) ELSE NAssociated(t) + 1
      /\ Cardinality(Associated(t) \ {i})
           = IF i \in Associated(t) THEN NAssociated(t) - 1 ELSE NAssociated(t)
  BY <1>6, Zenon DEF Laws, AddLaw, RemoveLaw, NAssociated
<1> QED BY <1>3, <1>4, <1>5, <1>7 DEF NAssociated

(* A new entry is not associated yet: addEntry does not change their       *)
(* number.                                                                 *)
LEMMA AssociatedAdded ==
  ASSUME Laws, NEW O, NEW t \in Tables(O), Fits(t), NEW s \in O
  PROVE  NAssociated(addEntry(t, s)) = NAssociated(t)
<1> DEFINE u == addEntry(t, s)
           i == NewIndex(t)
<1>1. /\ i \in Places(u) /\ u.e[i] = Entry(s, i) /\ t \in Tables(O) /\ u \in Tables(O)
      /\ \/ i \in Places(t) /\ ~isUsed(t, i) /\ Len(u.e) = Len(t.e)
         \/ i = Len(t.e) + 1 /\ Len(u.e) = Len(t.e) + 1
      /\ \A j \in Places(t) : j # i => u.e[j] = t.e[j]
  BY AddEntryLemma
<1> HIDE DEF u, i
<1>2. u.e[i].st = "SockIssued"
  BY <1>1 DEF Entry
<1>3. i \in Places(t) => t.e[i].st = "Unused"
  BY <1>1 DEF isUsed, Used, Places, Tables
<1>4. \A j : j # i => (j \in Places(u) <=> j \in Places(t))
  BY <1>1 DEF Places, Tables
<1>5. Associated(u) = Associated(t)
  BY <1>1, <1>2, <1>3, <1>4 DEF Associated
<1> QED BY <1>5 DEF NAssociated, u

(* Compaction keeps every associated entry. *)
LEMMA AssociatedCompacted ==
  ASSUME Laws, NEW O, NEW t \in Tables(O)
  PROVE  NAssociated(Compacted(t)) = NAssociated(t)
<1> DEFINE u == Compacted(t)
           n == NUsed(t)
           f == [k \in Associated(u) |-> MovedFrom(t, k)]
<1>1. /\ u \in Tables(O) /\ Len(u.e) = n
      /\ \A k \in 1 .. n : u.e[k] = [t.e[MovedFrom(t, k)] EXCEPT !.index = k]
  BY CompactedLemma
<1>2. /\ \A k \in 1 .. n : MovedFrom(t, k) \in Places(t)
      /\ \A j, k \in 1 .. n : MovedFrom(t, j) = MovedFrom(t, k) => j = k
      /\ \A i \in Places(t) : isUsed(t, i) => \E k \in 1 .. n : MovedFrom(t, k) = i
  BY MovedLemma
<1> HIDE DEF u, n
<1>3. Places(u) = 1 .. n
  BY <1>1 DEF Places
<1>4. ASSUME NEW k \in 1 .. n PROVE u.e[k].st = t.e[MovedFrom(t, k)].st
  <2>1. t.e[MovedFrom(t, k)] \in Entries(O)
    BY <1>2, EntryFields, Zenon
  <2> QED BY <1>1, <2>1, Zenon DEF Entries
<1>5. f \in [Associated(u) -> Associated(t)]
  BY <1>2, <1>3, <1>4 DEF Associated
<1>6. f \in Injection(Associated(u), Associated(t))
  BY <1>2, <1>3, <1>5 DEF Injection, IsInjective, Associated
<1>7. f \in Surjection(Associated(u), Associated(t))
  <2>1. ASSUME NEW i \in Associated(t) PROVE \E k \in Associated(u) : f[k] = i
    <3>1. i \in Places(t) /\ isUsed(t, i) /\ t.e[i].st = "SockAssociated"
      BY DEF Associated, isUsed, Used
    <3>2. PICK k \in 1 .. n : MovedFrom(t, k) = i
      BY <1>2, <3>1
    <3>3. k \in Associated(u)
      BY <1>3, <1>4, <3>1, <3>2 DEF Associated
    <3> QED BY <3>2, <3>3
  <2> QED BY <1>5, <2>1 DEF Surjection
<1>8. IsFiniteSet(Associated(t))
  BY AssociatedFinite
<1> HIDE DEF f
<1>9. Cardinality(Associated(u)) = Cardinality(Associated(t))
  BY <1>6, <1>7, <1>8 DEF Laws, InjectionLaw
<1> QED BY <1>9 DEF NAssociated, u

Pcs == UserPcs \cup {"poll", "dispatch", "writable", "closing", "exit"}

SockData == [st : States, idx : Nat, rend : BOOLEAN, paused : BOOLEAN,
             wbuf : 0 .. MaxBuffered]

NetData == [conn : {"none", "pending", "up", "err", "closed"},
            inq : BOOLEAN, pfin : BOOLEAN, fin : BOOLEAN]

Loops == [pc : Pcs, i : Nat, left : Nat, out : BOOLEAN, todo : Seq(Nat)]

(* The types, and ourSide as a prefix of the table that fits its capacity. *)
Typed ==
  /\ obj \in [Socks -> {"none", "live", "gone"}]
  /\ sock \in [Socks -> SockData]
  /\ net \in [Socks -> NetData]
  /\ tbl \in Tables(Socks)
  /\ pending \in Seq(Nat)
  /\ loop \in Loops
  /\ reported \subseteq Socks
  /\ Fits(tbl)

(* The entry whose event is being handled is in the table. *)
Dispatching == {"inData", "inEnd", "writable", "inOut"}
Reporting == {"inError", "inClose"}

LoopInv ==
  /\ loop.i <= tbl.main
  /\ loop.pc \in Dispatching => loop.i # 0
  /\ loop.pc \notin Dispatching \cup {"dispatch"} => loop.i = 0
  /\ loop.pc \in Reporting => loop.todo # <<>> /\ Head(loop.todo) \in Places(tbl)

(* An object knows the entry that was made for it by its index, also when  *)
(* the entry is not used any more.                                         *)
OwnerInv ==
  \A i \in Places(tbl) :
    /\ obj[tbl.e[i].owner] # "none"
    /\ sock[tbl.e[i].owner].idx = i
    /\ isUsed(tbl, i) => obj[tbl.e[i].owner] = "live" /\ tbl.e[i].index = i

(* Nothing is buffered on a connection that is ended, or set up again.     *)
FinInv ==
  \A s \in Socks :
    /\ net[s].fin => sock[s].wbuf = 0 /\ net[s].conn # "pending"
    /\ sock[s].st = "Uninitialized" => net[s].conn \in {"none", "closed"} /\ ~net[s].fin
    /\ obj[s] = "none" => sock[s].st = "Uninitialized"

NoneGone == \A s \in Socks : obj[s] # "gone"

(* The entry that infraGetCloseEvent is about to reset is not counted. *)
CountInv ==
  NoneGone => /\ tbl.assoc = NAssociated(tbl)
              /\ loop.pc \in Reporting => tbl.e[Head(loop.todo)].st = "SockClosed"

(* The only used entry of a socket whose close event has been reported is  *)
(* the one whose close handlers run; no event of such a socket is under    *)
(* way.                                                                    *)
ReportInv ==
  /\ \A s \in reported : obj[s] # "none"
  /\ \A i \in Places(tbl) : (isUsed(tbl, i) /\ tbl.e[i].owner \in reported) =>
       loop.pc = "inClose" /\ i = Head(loop.todo)
  /\ loop.pc \in Dispatching => tbl.e[loop.i].owner \notin reported
  /\ loop.pc = "inError" => tbl.e[Head(loop.todo)].owner \notin reported

Inv == /\ Typed /\ LoopInv /\ OwnerInv /\ PolledAsNeeded /\ FinInv /\ CountInv
       /\ ReportInv

(* The variables Inv speaks of. *)
core == <<obj, sock, net, tbl, pending, loop, reported>>

(* A step that leaves all these variables alone, as a failed assertion     *)
(* does.                                                                   *)
LEMMA Stutters ==
  ASSUME Inv, UNCHANGED core
  PROVE  Inv'
BY Zenon DEF Inv, Typed, LoopInv, OwnerInv, PolledAsNeeded, FinInv, CountInv,
       ReportInv, NoneGone, core

(* The empty table and sockets that do not exist yet satisfy Inv. *)
LEMMA InitInv ==
  ASSUME Laws
  PROVE  Init => Inv
<1> SUFFICES ASSUME Init PROVE Inv
  OBVIOUS
<1>1. /\ obj = [s \in Socks |-> "none"] /\ sock = [s \in Socks |-> Data(0)]
      /\ net = [s \in Socks |-> NoConnection] /\ tbl = EmptyTable /\ pending = <<>>
      /\ loop = [pc |-> "timers", i |-> 0, left |-> 0, out |-> FALSE, todo |-> <<>>]
      /\ reported = {}
  BY Zenon DEF Init
<1>2. tbl.e = <<>> /\ tbl.main = 0 /\ tbl.cap = 2 /\ tbl.assoc = 0 /\ Len(tbl.e) = 0
  BY <1>1 DEF EmptyTable, InitialCapacity
<1>3. Places(tbl) = {}
  BY <1>2 DEF Places
<1>4. tbl \in Tables(Socks) /\ Fits(tbl)
  <2>1. tbl = Table(<<>>, 0, 2, 0, 0)
    BY <1>1 DEF EmptyTable, InitialCapacity, Table
  <2>2. <<>> \in Seq(Entries(Socks))
    BY NoElements
  <2>3. tbl \in Tables(Socks)
    <3>1. 0 \in Nat /\ 2 \in Nat /\ 0 \in Int
      OBVIOUS
    <3>2. Table(<<>>, 0, 2, 0, 0) \in Tables(Socks)
      BY <2>2, <3>1, TableType, Zenon
    <3> QED BY <2>1, <3>2
  <2> QED BY <1>2, <2>3 DEF Fits
<1>5. obj \in [Socks -> {"none", "live", "gone"}] /\ net \in [Socks -> NetData]
  BY <1>1 DEF NoConnection, NetData
<1>6. sock \in [Socks -> SockData]
  <2>1. Data(0) \in SockData
    BY BoundsAssumption DEF Data, SockData, States
  <2> QED BY <1>1, <2>1
<1>7. loop \in Loops /\ pending \in Seq(Nat)
  <2>1. loop.todo \in Seq(Nat) /\ pending \in Seq(Nat)
    BY <1>1, NoElements
  <2> QED BY <1>1, <2>1 DEF Loops, Pcs, UserPcs
<1>8. Typed
  BY <1>1, <1>4, <1>5, <1>6, <1>7 DEF Typed
<1>9. LoopInv
  BY <1>1, <1>2 DEF LoopInv, Dispatching, Reporting
<1>10. OwnerInv
  BY <1>3 DEF OwnerInv
<1>11. PolledAsNeeded
  BY <1>3 DEF PolledAsNeeded, Places
<1>12. FinInv
  BY <1>1 DEF FinInv, NoConnection, Data
<1>13. CountInv
  <2>1. Associated(tbl) = {}
    BY <1>3 DEF Associated
  <2>2. NAssociated(tbl) = 0
    BY <2>1 DEF Laws, EmptyLaw, NAssociated
  <2> QED BY <1>1, <1>2, <2>2 DEF CountInv, Reporting
<1>14. ReportInv
  BY <1>1, <1>3 DEF ReportInv, Dispatching
<1> QED BY <1>8, <1>9, <1>10, <1>11, <1>12, <1>13, <1>14 DEF Inv

-----------------------------------------------------------------------------
(* Steps that leave the table alone and change at most one socket.         *)

(* The data of a socket changes from d to f without needing more of poll(). *)
Calm(d, f) ==
  /\ f.idx = d.idx
  /\ f.st = "Connecting" => d.st = "Connecting"
  /\ f.st = "Uninitialized" => d.st = "Uninitialized"
  /\ f.wbuf > 0 => d.wbuf > 0
  /\ d.rend => f.rend

(* What FinInv says of one socket. *)
FinOK(d, k) ==
  /\ k.fin => d.wbuf = 0 /\ k.conn # "pending"
  /\ d.st = "Uninitialized" => k.conn \in {"none", "closed"} /\ ~k.fin

(* The loop goes on without a close event starting or ending. *)
Moves ==
  \/ loop' = loop
  \/ /\ loop.pc \notin Reporting /\ loop'.pc \notin Reporting
     /\ loop'.pc \in Dispatching => tbl.e[loop'.i].owner \notin reported

(* A socket that is not set up anew, and loses no buffered byte, stays as  *)
(* FinInv wants it.                                                        *)
LEMMA CalmFin ==
  ASSUME Inv, NEW s \in Socks, NEW d \in SockData, Calm(sock[s], d)
  PROVE  FinOK(d, net[s])
<1>1. d.wbuf \in Nat /\ sock[s].wbuf \in Nat
  BY BoundsAssumption DEF Inv, Typed, SockData
<1> QED BY <1>1 DEF Inv, FinInv, FinOK, Calm

(* One socket changes, and its connection; all others are as they were. *)
LEMMA OneSocket ==
  ASSUME Inv, NEW s \in Socks, obj[s] # "none", NEW d \in SockData, NEW k \in NetData,
         FinOK(d, k), obj' = obj,
         sock' = [sock EXCEPT ![s] = d], net' = [net EXCEPT ![s] = k]
  PROVE  /\ sock' \in [Socks -> SockData] /\ net' \in [Socks -> NetData]
         /\ FinInv'
<1>1. sock \in [Socks -> SockData] /\ net \in [Socks -> NetData]
  BY DEF Inv, Typed
<1>2. /\ sock'[s] = d /\ net'[s] = k
      /\ \A r \in Socks : r # s => sock'[r] = sock[r] /\ net'[r] = net[r]
  BY <1>1
<1>3. FinInv'
  BY <1>2 DEF Inv, FinInv, FinOK
<1> QED BY <1>1, <1>3

(* A step that leaves the table alone and changes one socket in a way that *)
(* needs no other events from poll().                                      *)
LEMMA CalmStep ==
  ASSUME Inv, NEW s \in Socks, obj[s] # "none", NEW d \in SockData, NEW k \in NetData,
         FinOK(d, k), Calm(sock[s], d), UNCHANGED <<obj, tbl, reported>>,
         sock' = [sock EXCEPT ![s] = d], net' = [net EXCEPT ![s] = k],
         pending' \in Seq(Nat), loop' \in Loops, LoopInv', Moves
  PROVE  Inv'
<1>1. sock' \in [Socks -> SockData] /\ net' \in [Socks -> NetData] /\ FinInv'
  BY OneSocket, Zenon
<1>2. Typed'
  BY <1>1 DEF Inv, Typed
<1>3. \A r \in Socks : Calm(sock[r], sock'[r])
  BY DEF Inv, Typed, Calm
<1>4. \A i \in Places(tbl) : tbl.e[i].owner \in Socks
  BY EntryFields, Zenon DEF Inv, Typed, Entries
<1>5. OwnerInv'
  BY <1>3, <1>4 DEF Inv, OwnerInv, Calm
<1>6. PolledAsNeeded'
  BY <1>3, <1>4 DEF Inv, PolledAsNeeded, Calm, Places
<1>7. CountInv'
  BY DEF Inv, CountInv, NoneGone, Moves
<1>8. ReportInv'
  BY DEF Inv, ReportInv, Moves, Reporting
<1> QED BY <1>1, <1>2, <1>5, <1>6, <1>7, <1>8 DEF Inv

-----------------------------------------------------------------------------
(* What is known of an entry and of the socket it is for. *)
LEMMA OwnerOf ==
  ASSUME Inv, NEW i \in Places(tbl)
  PROVE  /\ tbl.e[i] \in Entries(Socks) /\ tbl.e[i].owner \in Socks
         /\ obj[tbl.e[i].owner] # "none" /\ sock[tbl.e[i].owner].idx = i
<1>1. tbl.e[i] \in Entries(Socks)
  BY EntryFields, Zenon DEF Inv, Typed
<1>2. tbl.e[i].owner \in Socks
  BY <1>1 DEF Entries
<1> QED BY <1>1, <1>2 DEF Inv, OwnerInv

(* An index that passes the range assertions is a place of the table. *)
LEMMA InRangeLemma ==
  ASSUME Inv, NEW i, InRange(tbl, i)
  PROVE  i \in Places(tbl)
<1>1. tbl.main \in Nat /\ Len(tbl.e) \in Nat /\ tbl.main <= Len(tbl.e)
  BY DEF Inv, Typed, Fits, Tables
<1> QED BY <1>1 DEF InRange, Places

(* Assigning the state of a socket leaves its other fields alone. *)
LEMMA WithState ==
  ASSUME NEW d \in SockData, NEW st \in States
  PROVE  LET f == [d EXCEPT !.st = st]
         IN  /\ f \in SockData /\ f.st = st /\ f.idx = d.idx /\ f.rend = d.rend
             /\ f.wbuf = d.wbuf
BY DEF SockData

(* Filling or draining the write buffer leaves the other fields alone. *)
LEMMA WithBuffered ==
  ASSUME NEW d \in SockData, NEW n \in 0 .. MaxBuffered
  PROVE  LET f == [d EXCEPT !.wbuf = n]
         IN  /\ f \in SockData /\ f.st = d.st /\ f.idx = d.idx /\ f.rend = d.rend
             /\ f.wbuf = n
BY DEF SockData

(* What both closeSocket and errorCloseSocket do to the socket. *)
LEMMA CloseLemma ==
  ASSUME Inv, NEW s \in Socks, NEW d \in SockData, Calm(sock[s], d),
         NEW how \in {"Closing", "ErrorClosing"}, Close(s, d, how)
  PROVE  /\ pending' \in Seq(Nat)
         /\ \E f \in SockData : /\ sock' = [sock EXCEPT ![s] = f]
                                /\ Calm(sock[s], f) /\ f.wbuf = d.wbuf
                                /\ f.st \in ClosingStates
<1>1. pending \in Seq(Nat) /\ d.idx \in Nat
  BY DEF Inv, Typed, SockData
<1>2. CASE d.st \in ClosingStates
  BY <1>1, <1>2 DEF Close
<1>3. CASE d.st \notin ClosingStates
  <2>1. pending' \in Seq(Nat)
    BY <1>1, <1>3 DEF Close
  <2> DEFINE f == [d EXCEPT !.st = how]
  <2>2. how \in States
    BY DEF States
  <2>3. /\ f \in SockData /\ f.st = how /\ f.idx = d.idx /\ f.rend = d.rend
        /\ f.wbuf = d.wbuf
    BY <2>2, WithState
  <2>4. sock' = [sock EXCEPT ![s] = f]
    BY <1>3 DEF Close
  <2> HIDE DEF f
  <2>5. Calm(sock[s], f)
    BY <2>3 DEF Calm
  <2> QED BY <2>1, <2>3, <2>4, <2>5, Zenon DEF ClosingStates
<1> QED BY <1>2, <1>3

(* The calls that change one socket and not its connection. *)
LEMMA CalmCall ==
  ASSUME Inv, NEW s \in Socks, obj[s] # "none", NEW d \in SockData,
         Calm(sock[s], d), UNCHANGED <<obj, tbl, reported, net, loop>>,
         sock' = [sock EXCEPT ![s] = d], pending' \in Seq(Nat)
  PROVE  Inv'
<1>1. net' = [net EXCEPT ![s] = net[s]] /\ net[s] \in NetData
  BY DEF Inv, Typed
<1>2. FinOK(d, net[s])
  BY CalmFin
<1>3. loop' \in Loops /\ LoopInv' /\ Moves
  BY DEF Inv, Typed, LoopInv, Moves
<1> QED BY <1>1, <1>2, <1>3, CalmStep, Zenon

(* A call that queues a close event and does nothing else. *)
LEMMA ClosingCall ==
  ASSUME Inv, NEW s \in Socks, obj[s] # "none",
         NEW how \in {"Closing", "ErrorClosing"}, Close(s, sock[s], how),
         UNCHANGED <<obj, tbl, reported, net, loop>>
  PROVE  Inv'
<1>1. sock[s] \in SockData /\ Calm(sock[s], sock[s])
  BY DEF Inv, Typed, Calm
<1>2. /\ pending' \in Seq(Nat)
      /\ \E f \in SockData : sock' = [sock EXCEPT ![s] = f] /\ Calm(sock[s], f)
  BY <1>1, CloseLemma
<1> QED BY <1>2, CalmCall, Zenon

(* shutdown() of a connection does not set it up again, and sends FIN only *)
(* where there is one.                                                     *)
LEMMA ShutdownLemma ==
  ASSUME NEW k \in NetData
  PROVE  /\ Shutdown(k) \in NetData
         /\ Shutdown(k).conn # "pending"
         /\ k.conn \notin {"up", "pending"} => Shutdown(k).fin = k.fin
BY Zenon DEF Shutdown, NetData

(* FIN may be sent once the write buffer is empty. *)
LEMMA ShutdownOK ==
  ASSUME Inv, NEW s \in Socks, NEW d \in SockData, d.st # "Uninitialized", d.wbuf = 0
  PROVE  Shutdown(net[s]) \in NetData /\ FinOK(d, Shutdown(net[s]))
BY ShutdownLemma DEF Inv, Typed, FinOK

(* destroy, and a socket option that fails, keep Inv. *)
LEMMA DestroyInv ==
  ASSUME Inv, NEW s \in Socks, destroy(s) \/ setOptionFails(s)
  PROVE  Inv'
BY ClosingCall, Zenon DEF destroy, setOptionFails, Calls

(* end keeps Inv: FIN is sent at once, or waits for the write buffer. *)
LEMMA EndInv ==
  ASSUME Inv, NEW s \in Socks, end(s)
  PROVE  Inv'
<1>1. /\ obj[s] # "none" /\ sock[s] \in SockData /\ sock[s].st # "Uninitialized"
      /\ UNCHANGED <<obj, tbl, loop, reported>>
  BY Zenon DEF end, Calls, Inv, Typed
<1>2. sock[s].wbuf \in Nat /\ pending \in Seq(Nat) /\ sock \in [Socks -> SockData]
  BY BoundsAssumption DEF Inv, Typed, SockData
<1>3. loop' \in Loops /\ LoopInv' /\ Moves
  BY <1>1 DEF Inv, Typed, LoopInv, Moves
<1>4. "LocalEnding" \in States /\ "LocalEnded" \in States
  BY DEF States
<1>5. CASE sock[s].wbuf # 0
  <2> DEFINE f == [sock[s] EXCEPT !.st = "LocalEnding"]
  <2>1. /\ f \in SockData /\ f.st = "LocalEnding" /\ f.idx = sock[s].idx
        /\ f.rend = sock[s].rend /\ f.wbuf = sock[s].wbuf
    BY <1>1, <1>4, WithState
  <2>2. sock' = [sock EXCEPT ![s] = f] /\ UNCHANGED <<net, pending>>
    BY <1>5 DEF end
  <2> HIDE DEF f
  <2>3. Calm(sock[s], f)
    BY <2>1 DEF Calm
  <2> QED BY <1>1, <1>2, <2>1, <2>2, <2>3, CalmCall, Zenon
<1>6. CASE sock[s].wbuf = 0
  <2>1. net' = [net EXCEPT ![s] = Shutdown(net[s])]
    BY <1>6 DEF end
  <2>2. CASE sock[s].rend
    <3>1. Close(s, sock[s], "Closing") /\ Calm(sock[s], sock[s])
      BY <1>6, <2>2 DEF end, Calm
    <3>2. pending' \in Seq(Nat)
      BY <1>1, <3>1, CloseLemma
    <3>3. PICK f \in SockData : /\ sock' = [sock EXCEPT ![s] = f]
                                /\ Calm(sock[s], f) /\ f.wbuf = sock[s].wbuf
                                /\ f.st \in ClosingStates
      BY <1>1, <3>1, CloseLemma
    <3>4. Shutdown(net[s]) \in NetData /\ FinOK(f, Shutdown(net[s]))
      BY <1>6, <3>3, ShutdownOK DEF ClosingStates
    <3> QED BY <1>1, <1>3, <2>1, <3>2, <3>3, <3>4, CalmStep, Zenon
  <2>3. CASE ~sock[s].rend
    <3> DEFINE f == [sock[s] EXCEPT !.st = "LocalEnded"]
    <3>1. /\ f \in SockData /\ f.st = "LocalEnded" /\ f.idx = sock[s].idx
          /\ f.rend = sock[s].rend /\ f.wbuf = sock[s].wbuf
      BY <1>1, <1>4, WithState
    <3>2. sock' = [sock EXCEPT ![s] = f] /\ pending' = pending
      BY <1>6, <2>3 DEF end
    <3> HIDE DEF f
    <3>3. Calm(sock[s], f)
      BY <3>1 DEF Calm
    <3>4. Shutdown(net[s]) \in NetData /\ FinOK(f, Shutdown(net[s]))
      BY <1>6, <3>1, ShutdownOK
    <3> QED BY <1>1, <1>2, <1>3, <2>1, <3>1, <3>2, <3>3, <3>4, CalmStep, Zenon
  <2> QED BY <2>2, <2>3
<1> QED BY <1>5, <1>6

(* pause and resume keep Inv: POLLIN is asked for accordingly. *)
LEMMA SetPausedInv ==
  ASSUME Inv, NEW s \in Socks, NEW on \in BOOLEAN, setPaused(s, on)
  PROVE  Inv'
<1> DEFINE i == sock[s].idx
           r == tbl.e[i].owner
           f == [sock[r] EXCEPT !.paused = on]
<1>1. CASE InRange(tbl, i) /\ isUsed(tbl, i)
  <2>1. i \in Places(tbl)
    BY <1>1, InRangeLemma
  <2>2. r \in Socks /\ obj[r] # "none"
    BY <2>1, OwnerOf
  <2>3. f \in SockData /\ Calm(sock[r], f)
    BY <2>2, ZenonT(60) DEF Inv, Typed, SockData, Calm
  <2>4. /\ sock' = [sock EXCEPT ![r] = f]
        /\ UNCHANGED <<obj, net, tbl, pending, loop, reported>>
    BY <1>1, Zenon DEF setPaused
  <2>5. pending' \in Seq(Nat)
    BY <2>4, Zenon DEF Inv, Typed
  <2> HIDE DEF f, r, i
  <2> QED BY <2>2, <2>3, <2>4, <2>5, CalmCall, Zenon
<1>2. CASE ~(InRange(tbl, i) /\ isUsed(tbl, i))
  <2>1. UNCHANGED core
    BY <1>2, Zenon DEF setPaused, Fail, core
  <2> QED BY <2>1, Stutters
<1> QED BY <1>1, <1>2

-----------------------------------------------------------------------------
(* Steps that change one entry of the table.                               *)

(* The entries stay with their sockets, and none comes into use. *)
Kept ==
  /\ tbl' \in Tables(Socks) /\ Fits(tbl')
  /\ Len(tbl'.e) = Len(tbl.e) /\ tbl'.main = tbl.main
  /\ \A i \in Places(tbl) :
       /\ tbl'.e[i].owner = tbl.e[i].owner
       /\ isUsed(tbl', i) => isUsed(tbl, i) /\ tbl'.e[i].index = tbl.e[i].index

(* What PolledAsNeeded says of an entry whose socket has the data d. *)
Polls(en, d) ==
  en.st = "SockAssociated" =>
    /\ en.fd = "positive"
    /\ d.st = "Connecting" \/ d.wbuf > 0 => "OUT" \in en.ev
    /\ ~d.rend => "IN" \in en.ev

(* A change of one entry that does not bring it into use keeps all entries *)
(* with their owners.                                                      *)
LEMMA KeptChanged ==
  ASSUME Inv, NEW i \in Places(tbl), NEW x, Changed(Socks, tbl, tbl', i, x),
         x.owner = tbl.e[i].owner,
         x.st # "Unused" => tbl.e[i].st # "Unused" /\ x.index = tbl.e[i].index
  PROVE  Kept
<1>1. Fits(tbl')
  BY DEF Inv, Typed, Fits, Changed
<1> QED BY <1>1 DEF Kept, Changed, isUsed, Used

(* Entries that stay with their owners keep OwnerInv. *)
LEMMA KeptOwner ==
  ASSUME Inv, Kept, obj' = obj, \A s \in Socks : sock'[s].idx = sock[s].idx
  PROVE  OwnerInv'
<1>1. Places(tbl') = Places(tbl)
  BY DEF Kept, Places
<1>2. SUFFICES ASSUME NEW i \in Places(tbl)
               PROVE  /\ obj'[tbl'.e[i].owner] # "none"
                      /\ sock'[tbl'.e[i].owner].idx = i
                      /\ isUsed(tbl', i) => /\ obj'[tbl'.e[i].owner] = "live"
                                            /\ tbl'.e[i].index = i
  BY <1>1 DEF OwnerInv
<1>3. tbl.e[i].owner \in Socks
  BY OwnerOf
<1> QED BY <1>3 DEF Kept, Inv, OwnerInv

(* Entries that do not come into use keep ReportInv. *)
LEMMA KeptReport ==
  ASSUME Inv, Kept, reported' = reported, loop' \in Loops, LoopInv', Moves,
         \A s \in Socks : obj[s] # "none" => obj'[s] # "none"
  PROVE  ReportInv'
<1>1. Places(tbl') = Places(tbl) /\ tbl.main <= Len(tbl.e) /\ tbl'.main = tbl.main
  BY DEF Kept, Places, Inv, Typed, Fits
<1>2. \A i \in Places(tbl) : /\ tbl'.e[i].owner = tbl.e[i].owner
                             /\ isUsed(tbl', i) => isUsed(tbl, i)
  BY DEF Kept
<1>3. loop'.pc \in Dispatching => loop'.i \in Places(tbl)
  <2>1. loop'.i \in Nat /\ Len(tbl.e) \in Nat /\ tbl.main \in Nat
    BY DEF Loops, Inv, Typed, Tables
  <2>2. loop'.pc \in Dispatching => loop'.i # 0 /\ loop'.i <= tbl.main
    BY <1>1, Zenon DEF LoopInv
  <2> QED BY <1>1, <2>1, <2>2 DEF Places
<1>4. loop.pc \in Reporting => Head(loop.todo) \in Places(tbl)
  BY DEF Inv, LoopInv
<1>5. \A s \in reported' : obj'[s] # "none"
  BY DEF Inv, Typed, ReportInv
<1>6. CASE loop' = loop
  BY <1>1, <1>2, <1>3, <1>4, <1>5, <1>6 DEF Inv, ReportInv, Reporting
<1>7. CASE loop' # loop
  BY <1>1, <1>2, <1>3, <1>5, <1>7 DEF Inv, ReportInv, Reporting, Moves
<1> QED BY <1>6, <1>7

(* An entry and its socket change together: the rest is polled as before. *)
LEMMA PolledChanged ==
  ASSUME Inv, NEW s \in Socks, NEW d \in SockData,
         NEW i \in Places(tbl), NEW x, Changed(Socks, tbl, tbl', i, x),
         x.owner = tbl.e[i].owner, sock' = [sock EXCEPT ![s] = d],
         Calm(sock[s], d) \/ i = sock[s].idx, Polls(x, sock'[x.owner])
  PROVE  PolledAsNeeded'
<1>1. Places(tbl') = Places(tbl)
  BY Zenon DEF Changed, Places
<1>2. SUFFICES ASSUME NEW j \in Places(tbl)
               PROVE  Polls(tbl'.e[j], sock'[tbl'.e[j].owner])
  BY <1>1 DEF PolledAsNeeded, Polls, Places
<1>3. CASE j = i
  BY <1>3 DEF Changed
<1>4. CASE j # i
  <2>1. tbl'.e[j] = tbl.e[j]
    BY <1>4, Zenon DEF Changed
  <2>2. Polls(tbl.e[j], sock[tbl.e[j].owner])
    BY Zenon DEF Inv, PolledAsNeeded, Polls, Places
  <2>3. tbl.e[j].owner \in Socks /\ sock[tbl.e[j].owner].idx = j
    BY OwnerOf, Zenon
  <2>4. CASE tbl.e[j].owner # s
    BY <2>1, <2>2, <2>3, <2>4, Zenon DEF Inv, Typed
  <2>5. CASE tbl.e[j].owner = s
    <3>1. Calm(sock[s], d) /\ sock'[s] = d
      BY <1>4, <2>3, <2>5, Zenon DEF Inv, Typed
    <3> QED BY <2>1, <2>2, <2>5, <3>1, Zenon DEF Polls, Calm
  <2> QED BY <2>4, <2>5
<1> QED BY <1>3, <1>4

(* A change of events leaves associatedCount right. *)
LEMMA CountKept ==
  ASSUME Laws, Inv, NEW i \in Places(tbl), NEW x, Changed(Socks, tbl, tbl', i, x),
         x.st = tbl.e[i].st, tbl'.assoc = tbl.assoc, obj' = obj, Moves
  PROVE  CountInv'
<1>1. NAssociated(tbl') = NAssociated(tbl)
  BY AssociatedChanged DEF Inv, Typed
<1>2. loop.pc \in Reporting => Head(loop.todo) \in Places(tbl)
  BY DEF Inv, LoopInv
<1>3. loop.pc \in Reporting => tbl'.e[Head(loop.todo)].st = tbl.e[Head(loop.todo)].st
  BY <1>2, Zenon DEF Changed
<1> QED BY <1>1, <1>3 DEF Inv, CountInv, NoneGone, Moves

(* One socket changes, and the mask of one entry. *)
LEMMA EventStep ==
  ASSUME Laws, Inv, NEW s \in Socks, obj[s] # "none",
         NEW d \in SockData, NEW k \in NetData, FinOK(d, k), d.idx = sock[s].idx,
         NEW i \in Places(tbl), NEW x, Changed(Socks, tbl, tbl', i, x),
         x.st = tbl.e[i].st, x.owner = tbl.e[i].owner, x.index = tbl.e[i].index,
         tbl'.assoc = tbl.assoc, Calm(sock[s], d) \/ i = sock[s].idx,
         Polls(x, IF x.owner = s THEN d ELSE sock[x.owner]),
         UNCHANGED <<obj, reported>>, sock' = [sock EXCEPT ![s] = d],
         net' = [net EXCEPT ![s] = k], pending' \in Seq(Nat), loop' \in Loops,
         LoopInv', Moves
  PROVE  Inv'
<1>1. sock' \in [Socks -> SockData] /\ net' \in [Socks -> NetData] /\ FinInv'
  BY OneSocket, Zenon
<1>2. Kept
  BY KeptChanged, Zenon
<1>3. Typed'
  BY <1>1, <1>2, Zenon DEF Inv, Typed, Kept
<1>4. \A r \in Socks : sock'[r].idx = sock[r].idx
  BY Zenon DEF Inv, Typed
<1>5. OwnerInv'
  BY <1>2, <1>4, KeptOwner, Zenon
<1>6. x.owner \in Socks
  BY OwnerOf
<1>7. Polls(x, sock'[x.owner])
  BY <1>6, Zenon DEF Inv, Typed
<1>8. PolledAsNeeded'
  BY <1>7, PolledChanged, Zenon
<1>9. CountInv'
  BY CountKept, Zenon
<1>10. ReportInv'
  BY <1>2, KeptReport
<1> QED BY <1>1, <1>3, <1>5, <1>8, <1>9, <1>10 DEF Inv

-----------------------------------------------------------------------------
(* What the peer and the network do keeps Inv. *)
LEMMA NetworkInv ==
  ASSUME Inv, Network
  PROVE  Inv'
<1>1. PICK s \in Socks : /\ obj[s] = "live"
                        /\ \/ \E to \in {"up", "err"} : NetConnects(s, to)
                           \/ NetResets(s) \/ NetSendsData(s) \/ NetSendsFin(s)
  BY Zenon DEF Network
<1>2. UNCHANGED <<obj, sock, tbl, pending, loop, reported>>
  BY Zenon DEF Network
<1>3. /\ sock[s] \in SockData /\ net[s] \in NetData /\ Calm(sock[s], sock[s])
      /\ sock' = [sock EXCEPT ![s] = sock[s]]
  BY <1>2 DEF Inv, Typed, Calm
<1>4. loop' \in Loops /\ LoopInv' /\ Moves /\ pending' \in Seq(Nat)
  BY <1>2 DEF Inv, Typed, LoopInv, Moves
<1>5. FinOK(sock[s], net[s])
  BY <1>3, CalmFin
<1>6. \E k \in NetData : net' = [net EXCEPT ![s] = k] /\ FinOK(sock[s], k)
  <2>1. CASE \E to \in {"up", "err"} : NetConnects(s, to)
    <3>1. PICK to \in {"up", "err"} : NetConnects(s, to)
      BY <2>1
    <3> DEFINE k == [net[s] EXCEPT !.conn = to]
    <3>2. k \in NetData /\ k.conn = to /\ k.fin = net[s].fin
      BY <1>3 DEF NetData
    <3>3. net' = [net EXCEPT ![s] = k] /\ net[s].conn = "pending"
      BY <3>1 DEF NetConnects
    <3> HIDE DEF k
    <3> QED BY <1>5, <3>2, <3>3, Zenon DEF FinOK
  <2>2. CASE NetResets(s)
    <3> DEFINE k == [net[s] EXCEPT !.conn = "err"]
    <3>1. k \in NetData /\ k.conn = "err" /\ k.fin = net[s].fin
      BY <1>3 DEF NetData
    <3>2. net' = [net EXCEPT ![s] = k] /\ net[s].conn = "up"
      BY <2>2 DEF NetResets
    <3> HIDE DEF k
    <3> QED BY <1>5, <3>1, <3>2, Zenon DEF FinOK
  <2>3. CASE NetSendsData(s)
    <3> DEFINE k == [net[s] EXCEPT !.inq = TRUE]
    <3>1. k \in NetData /\ k.conn = net[s].conn /\ k.fin = net[s].fin
      BY <1>3, Zenon DEF NetData
    <3>2. net' = [net EXCEPT ![s] = k]
      BY <2>3 DEF NetSendsData
    <3> HIDE DEF k
    <3> QED BY <1>5, <3>1, <3>2, Zenon DEF FinOK
  <2>4. CASE NetSendsFin(s)
    <3> DEFINE k == [net[s] EXCEPT !.pfin = TRUE]
    <3>1. k \in NetData /\ k.conn = net[s].conn /\ k.fin = net[s].fin
      BY <1>3, Zenon DEF NetData
    <3>2. net' = [net EXCEPT ![s] = k]
      BY <2>4 DEF NetSendsFin
    <3> HIDE DEF k
    <3> QED BY <1>5, <3>1, <3>2, Zenon DEF FinOK
  <2> QED BY <1>1, <2>1, <2>2, <2>3, <2>4
<1> QED BY <1>1, <1>2, <1>3, <1>4, <1>6, CalmStep, Zenon

(* The first byte that send() does not take is buffered, and POLLOUT is    *)
(* asked for.                                                              *)
LEMMA BufferFirstInv ==
  ASSUME Laws, Inv, NEW s \in Socks, obj[s] # "none", sock[s].st # "Uninitialized",
         ~net[s].fin, BufferFirst(s)
  PROVE  Inv'
<1> DEFINE i == sock[s].idx
           d == [sock[s] EXCEPT !.wbuf = 1]
           x == [tbl.e[i] EXCEPT !.ev = tbl.e[i].ev \cup {"OUT"}]
<1>1. CASE InRange(tbl, i)
  <2>1. i \in Places(tbl)
    BY <1>1, InRangeLemma
  <2>2. sock[s] \in SockData /\ 1 \in 0 .. MaxBuffered
    BY BoundsAssumption DEF Inv, Typed
  <2>3. /\ d \in SockData /\ d.st = sock[s].st /\ d.idx = i /\ d.rend = sock[s].rend
        /\ d.wbuf = 1
    BY <2>2, WithBuffered
  <2>4. net[s] \in NetData /\ net' = [net EXCEPT ![s] = net[s]] /\ FinOK(d, net[s])
    BY <1>1, <2>3 DEF BufferFirst, Inv, Typed, FinOK
  <2>5. /\ UNCHANGED <<obj, pending, loop, reported>> /\ sock' = [sock EXCEPT ![s] = d]
        /\ tbl' = setEvent(tbl, i, "OUT")
    BY <1>1 DEF BufferFirst
  <2>6. /\ Changed(Socks, tbl, tbl', i, x) /\ tbl'.assoc = tbl.assoc
    BY <2>1, <2>5, SetEventLemma, Zenon DEF Inv, Typed
  <2>7. tbl.e[i] \in Entries(Socks)
    BY <2>1, OwnerOf
  <2>8. /\ x.st = tbl.e[i].st /\ x.owner = tbl.e[i].owner /\ x.index = tbl.e[i].index
        /\ x.fd = tbl.e[i].fd /\ x.ev = tbl.e[i].ev \cup {"OUT"}
    BY <2>7 DEF Entries
  <2>9. loop' \in Loops /\ pending' \in Seq(Nat) /\ Moves /\ LoopInv'
    BY <2>5, <2>6 DEF Inv, Typed, Moves, LoopInv, Changed, Places
  <2> HIDE DEF x, d, i
  <2>10. Polls(tbl.e[i], sock[tbl.e[i].owner])
    BY <2>1, Zenon DEF Inv, PolledAsNeeded, Polls, Places
  <2>11. Polls(x, IF x.owner = s THEN d ELSE sock[x.owner])
    BY <2>3, <2>8, <2>10 DEF Polls
  <2>12. i = sock[s].idx /\ d.idx = sock[s].idx
    BY <2>3 DEF i
  <2> QED BY <2>1, <2>3, <2>4, <2>5, <2>6, <2>8, <2>9, <2>11, <2>12, EventStep,
             Zenon
<1>2. CASE ~InRange(tbl, i)
  BY <1>2, Stutters DEF BufferFirst, Fail, core
<1> QED BY <1>1, <1>2

(* write keeps Inv, whether send() takes the bytes, part of them, none or  *)
(* fails.                                                                  *)
LEMMA WriteInv ==
  ASSUME Laws, Inv, NEW s \in Socks, write(s)
  PROVE  Inv'
<1>1. obj[s] # "none" /\ sock[s].st # "Uninitialized"
  BY Zenon DEF write, Calls
<1>2. /\ obj[s] # "none" /\ sock[s] \in SockData /\ sock[s].st # "Uninitialized"
      /\ pending \in Seq(Nat) /\ sock[s].wbuf \in Nat
  BY <1>1, BoundsAssumption DEF Inv, Typed, SockData
<1>3. CASE sock[s].st \in {"LocalEnding", "LocalEnded"}
  BY <1>2, <1>3, ClosingCall DEF write
<1>4. CASE sock[s].st \notin {"LocalEnding", "LocalEnded"} /\ sock[s].wbuf > 0
  <2> DEFINE d == [sock[s] EXCEPT !.wbuf = sock[s].wbuf + 1]
  <2>1. /\ sock[s].wbuf < MaxBuffered /\ sock' = [sock EXCEPT ![s] = d]
        /\ UNCHANGED <<obj, net, tbl, pending, loop, reported>>
    BY <1>4 DEF write
  <2>2. sock[s].wbuf + 1 \in 0 .. MaxBuffered
    BY <1>2, <2>1, BoundsAssumption
  <2>3. /\ d \in SockData /\ d.st = sock[s].st /\ d.idx = sock[s].idx
        /\ d.rend = sock[s].rend
    BY <1>2, <2>2, WithBuffered
  <2> HIDE DEF d
  <2>4. Calm(sock[s], d)
    BY <1>4, <2>3 DEF Calm
  <2> QED BY <1>2, <2>1, <2>3, <2>4, CalmCall, Zenon
<1>5. CASE sock[s].st \notin {"LocalEnding", "LocalEnded"} /\ ~(sock[s].wbuf > 0)
  <2>1. PICK r \in SendResults(net[s], 1) :
            \/ /\ r = -1
               /\ Close(s, sock[s], "ErrorClosing")
               /\ UNCHANGED <<obj, net, tbl, loop, reported, failed>>
            \/ r = 0 /\ BufferFirst(s)
            \/ /\ r = 1
               /\ UNCHANGED <<obj, sock, net, tbl, pending, loop, reported, failed>>
    BY <1>5 DEF write
  <2>2. CASE r = -1
    BY <1>2, <2>1, <2>2, ClosingCall
  <2>3. CASE r = 0
    <3>1. ~net[s].fin
      BY <2>3 DEF SendResults, Inv, FinInv
    <3> QED BY <1>2, <2>1, <2>3, <3>1, BufferFirstInv
  <2>4. CASE r = 1
    BY <2>1, <2>4, Stutters DEF core
  <2> QED BY <2>1, <2>2, <2>3, <2>4
<1> QED BY <1>3, <1>4, <1>5

(* The destructor of a socket keeps Inv: setUnused frees its entry. *)
LEMMA DropInv ==
  ASSUME Inv, NEW s \in Socks, dropSocket(s)
  PROVE  Inv'
<1> DEFINE i == sock[s].idx
           x == [tbl.e[i] EXCEPT !.st = "Unused", !.index = 0, !.fd = "invalid"]
<1>1. CASE InRange(tbl, i)
  <2>1. i \in Places(tbl)
    BY <1>1, InRangeLemma
  <2>2. /\ obj' = [obj EXCEPT ![s] = "gone"] /\ tbl' = setUnused(tbl, i)
        /\ UNCHANGED <<net, loop, reported>> /\ obj[s] = "live"
    BY <1>1, Zenon DEF dropSocket, Calls
  <2>3. sock[s] \in SockData /\ Calm(sock[s], sock[s])
    BY DEF Inv, Typed, Calm
  <2>4. /\ pending' \in Seq(Nat)
        /\ \E f \in SockData : sock' = [sock EXCEPT ![s] = f] /\ Calm(sock[s], f)
    <3>1. CASE sock[s].st \in {"Connecting", "Connected"}
      <4>1. Close(s, sock[s], "Closing")
        BY <1>1, <3>1 DEF dropSocket
      <4> QED BY <2>3, <3>1, <4>1, CloseLemma
    <3>2. CASE sock[s].st \notin {"Connecting", "Connected"}
      <4>1. UNCHANGED <<sock, pending>>
        BY <1>1, <3>2 DEF dropSocket
      <4> QED BY <2>3, <4>1 DEF Inv, Typed
    <3> QED BY <3>1, <3>2
  <2>5. PICK f \in SockData : sock' = [sock EXCEPT ![s] = f] /\ Calm(sock[s], f)
    BY <2>4, Zenon
  <2>6. Changed(Socks, tbl, tbl', i, x)
    BY <2>1, <2>2, SetUnusedLemma, Zenon DEF Inv, Typed
  <2>7. tbl.e[i] \in Entries(Socks)
    BY <2>1, OwnerOf, Zenon
  <2>8. x.st = "Unused" /\ x.owner = tbl.e[i].owner
    BY <2>7 DEF Entries
  <2> HIDE DEF x, i
  <2>9. Kept
    BY <2>1, <2>6, <2>8, KeptChanged
  <2>10. /\ sock' \in [Socks -> SockData] /\ obj' \in [Socks -> {"none", "live", "gone"}]
         /\ \A r \in Socks : Calm(sock[r], sock'[r]) /\ (r # s => sock'[r] = sock[r])
         /\ obj'[s] = "gone" /\ \A r \in Socks : r # s => obj'[r] = obj[r]
    BY <2>2, <2>5 DEF Inv, Typed, Calm
  <2>11. Typed'
    BY <2>2, <2>4, <2>9, <2>10 DEF Inv, Typed, Kept
  <2>12. LoopInv'
    BY <2>2, <2>6 DEF Inv, LoopInv, Changed, Places
  <2>13. OwnerInv'
    <3>1. SUFFICES ASSUME NEW j \in Places(tbl)
                   PROVE  /\ obj'[tbl'.e[j].owner] # "none"
                          /\ sock'[tbl'.e[j].owner].idx = j
                          /\ isUsed(tbl', j) => /\ obj'[tbl'.e[j].owner] = "live"
                                                /\ tbl'.e[j].index = j
      BY <2>6 DEF OwnerInv, Changed, Places
    <3>2. PICK r \in Socks : r = tbl.e[j].owner /\ obj[r] # "none" /\ sock[r].idx = j
      BY OwnerOf
    <3>3. tbl'.e[j].owner = r
      BY <2>9, <3>2, Zenon DEF Kept
    <3>4. obj'[r] # "none" /\ sock'[r].idx = j
      <4>1. Calm(sock[r], sock'[r]) /\ (obj'[r] = "gone" \/ obj'[r] = obj[r])
        BY <2>10, Zenon
      <4> QED BY <3>2, <4>1, Zenon DEF Calm
    <3>5. ASSUME isUsed(tbl', j)
          PROVE  obj'[r] = "live" /\ tbl'.e[j].index = j
      <4>1. j # i
        BY <2>6, <2>8, <3>5 DEF Changed, isUsed, Used
      <4>2. obj'[r] = obj[r]
        BY <2>10, <3>2, <4>1, Zenon DEF i
      <4>3. isUsed(tbl, j) /\ tbl'.e[j].index = tbl.e[j].index
        BY <2>9, <3>5, Zenon DEF Kept
      <4>4. obj[r] = "live" /\ tbl.e[j].index = j
        BY <3>2, <4>3, Zenon DEF Inv, OwnerInv
      <4> QED BY <4>2, <4>3, <4>4, Zenon
    <3> QED BY <3>3, <3>4, <3>5, Zenon
  <2>14. PolledAsNeeded'
    BY <2>1, <2>5, <2>6, <2>8, PolledChanged, Zenon DEF Polls
  <2>15. FinInv'
    <3>1. SUFFICES ASSUME NEW r \in Socks
                   PROVE  FinOK(sock'[r], net[r]) /\ (obj'[r] = "none" => sock'[r].st = "Uninitialized")
      BY <2>2 DEF FinInv, FinOK
    <3>2. FinOK(sock'[r], net[r])
      BY <2>10, CalmFin
    <3>3. obj'[r] = "none" => sock'[r] = sock[r] /\ obj[r] = "none"
      BY <2>10
    <3> QED BY <3>2, <3>3 DEF Inv, FinInv
  <2>16. CountInv'
    BY <2>10 DEF CountInv, NoneGone
  <2>17. ReportInv'
    <3>1. Moves /\ loop' \in Loops
      BY <2>2, <2>11 DEF Moves, Typed
    <3> QED BY <2>2, <2>9, <2>10, <2>12, <3>1, KeptReport
  <2> QED BY <2>11, <2>12, <2>13, <2>14, <2>15, <2>16, <2>17 DEF Inv
<1>2. CASE ~InRange(tbl, i)
  BY <1>2, Stutters DEF dropSocket, Fail, core
<1> QED BY <1>1, <1>2

(* Creating a socket keeps Inv: addEntry finds a place that no live socket *)
(* has.                                                                    *)
LEMMA CreateInv ==
  ASSUME Laws, Inv, NEW s \in Socks, createSocket(s)
  PROVE  Inv'
<1> DEFINE i == NewIndex(tbl)
<1>1. /\ obj[s] = "none" /\ obj' = [obj EXCEPT ![s] = "live"]
      /\ sock' = [sock EXCEPT ![s] = Data(i)] /\ tbl' = addEntry(tbl, s)
      /\ UNCHANGED <<net, pending, loop, reported>>
  BY Zenon DEF createSocket
<1>2. tbl \in Tables(Socks) /\ Fits(tbl)
  BY DEF Inv, Typed
<1>3. /\ tbl' \in Tables(Socks) /\ Fits(tbl') /\ tbl.main <= tbl'.main
      /\ tbl'.assoc = tbl.assoc
      /\ i \in Places(tbl') /\ tbl'.e[i] = Entry(s, i)
      /\ \/ i \in Places(tbl) /\ ~isUsed(tbl, i) /\ Len(tbl'.e) = Len(tbl.e)
         \/ i = Len(tbl.e) + 1 /\ Len(tbl'.e) = Len(tbl.e) + 1
      /\ \A j \in Places(tbl) : j # i => tbl'.e[j] = tbl.e[j]
  BY <1>1, <1>2, AddEntryLemma
<1>4. NAssociated(tbl') = NAssociated(tbl)
  BY <1>1, <1>2, AssociatedAdded
<1> HIDE DEF i
<1>5. /\ Places(tbl) \subseteq Places(tbl') /\ i \in Nat
      /\ \A j \in Places(tbl') : j # i => j \in Places(tbl)
  BY <1>2, <1>3 DEF Places, Tables
<1>6. Data(i) \in SockData /\ Data(i).st = "Uninitialized" /\ Data(i).wbuf = 0 /\ Data(i).idx = i
  BY <1>5, BoundsAssumption DEF Data, SockData, States
<1>7. /\ sock' \in [Socks -> SockData] /\ obj' \in [Socks -> {"none", "live", "gone"}]
      /\ sock'[s] = Data(i) /\ obj'[s] = "live"
      /\ \A r \in Socks : r # s => sock'[r] = sock[r] /\ obj'[r] = obj[r]
  BY <1>1, <1>6, Zenon DEF Inv, Typed
<1>8. Typed'
  BY <1>1, <1>3, <1>7, Zenon DEF Inv, Typed
<1>9. LoopInv'
  <2>1. loop.i \in Nat /\ tbl.main \in Nat /\ tbl'.main \in Nat
    BY <1>2, <1>3, Zenon DEF Inv, Typed, Loops, Tables
  <2>2. loop'.i <= tbl'.main
    BY <1>1, <1>3, <2>1 DEF Inv, LoopInv
  <2> QED BY <1>1, <1>5, <2>2, Zenon DEF Inv, LoopInv
<1>10. \A j \in Places(tbl) : tbl.e[j].owner \in Socks /\ tbl.e[j].owner # s
  BY <1>1, OwnerOf
<1>11. /\ tbl'.e[i].st = "SockIssued" /\ tbl'.e[i].owner = s /\ tbl'.e[i].index = i
  BY <1>3 DEF Entry
<1>12. ASSUME NEW j \in Places(tbl'), j # i
       PROVE  /\ j \in Places(tbl) /\ tbl'.e[j] = tbl.e[j]
              /\ sock'[tbl.e[j].owner] = sock[tbl.e[j].owner]
              /\ obj'[tbl.e[j].owner] = obj[tbl.e[j].owner]
  BY <1>3, <1>5, <1>7, <1>10, <1>12, Zenon
<1>13. OwnerInv'
  <2>1. SUFFICES ASSUME NEW j \in Places(tbl')
                 PROVE  /\ obj'[tbl'.e[j].owner] # "none"
                        /\ sock'[tbl'.e[j].owner].idx = j
                        /\ isUsed(tbl', j) => /\ obj'[tbl'.e[j].owner] = "live"
                                              /\ tbl'.e[j].index = j
    BY Zenon DEF OwnerInv
  <2>2. CASE j = i
    BY SMTT(30), <1>6, <1>7, <1>11, <2>2
  <2>3. CASE j # i
    BY <1>12, <2>3 DEF Inv, OwnerInv, isUsed
  <2> QED BY <2>2, <2>3
<1>14. PolledAsNeeded'
  <2>1. SUFFICES ASSUME NEW j \in Places(tbl')
                 PROVE  Polls(tbl'.e[j], sock'[tbl'.e[j].owner])
    BY Zenon DEF PolledAsNeeded, Polls, Places
  <2>2. CASE j = i
    BY <1>11, <2>2, Zenon DEF Polls
  <2>3. CASE j # i
    BY <1>12, <2>3, ZenonT(60) DEF Inv, PolledAsNeeded, Polls, Places
  <2> QED BY <2>2, <2>3, Zenon
<1>15. FinInv'
  BY <1>1, <1>6, <1>7 DEF Inv, FinInv
<1>16. \A j \in Places(tbl) : tbl.e[j].st # "Unused" => j # i
  BY SMTT(30), <1>2, <1>3 DEF isUsed, Used, Places, Tables
<1>17. CountInv'
  <2>1. NoneGone' => NoneGone
    BY <1>1, <1>7 DEF NoneGone
  <2>2. loop.pc \in Reporting => Head(loop.todo) \in Places(tbl)
    BY DEF Inv, LoopInv
  <2>3. ASSUME NoneGone, loop.pc \in Reporting
        PROVE  tbl'.e[Head(loop.todo)].st = "SockClosed"
    BY <1>3, <1>16, <2>2, <2>3, Zenon DEF Inv, CountInv
  <2> QED BY <1>1, <1>3, <1>4, <2>1, <2>3 DEF Inv, CountInv
<1>18. ReportInv'
  <2>1. s \notin reported
    BY <1>1, Zenon DEF Inv, ReportInv
  <2>2. \A r \in reported' : obj'[r] # "none"
    BY <1>1, <1>7 DEF Inv, Typed, ReportInv
  <2>3. ASSUME NEW j \in Places(tbl'), isUsed(tbl', j), tbl'.e[j].owner \in reported
        PROVE  loop.pc = "inClose" /\ j = Head(loop.todo)
    <3>1. j # i
      BY <1>11, <2>1, <2>3
    <3> QED BY <1>12, <2>3, <3>1 DEF Inv, ReportInv, isUsed
  <2>4. ASSUME NEW j \in Places(tbl), tbl.e[j].owner \notin reported
        PROVE  tbl'.e[j].owner \notin reported
    BY <1>3, <1>11, <2>1, <2>4
  <2>5. loop.pc \in Dispatching => loop.i \in Places(tbl)
    BY <1>2 DEF Inv, Typed, LoopInv, Fits, Places, Loops, Tables
  <2>6. loop.pc = "inError" => Head(loop.todo) \in Places(tbl)
    BY DEF Inv, LoopInv, Reporting
  <2> QED BY <1>1, <2>2, <2>3, <2>4, <2>5, <2>6 DEF Inv, ReportInv
<1> QED BY <1>8, <1>9, <1>13, <1>14, <1>15, <1>17, <1>18 DEF Inv

(* Two changes of the same entry are one. *)
LEMMA ChangedTwice ==
  ASSUME NEW O, NEW t, NEW u, NEW v, NEW i, NEW x, NEW y,
         Changed(O, t, u, i, x), Changed(O, u, v, i, y)
  PROVE  Changed(O, t, v, i, y)
BY DEF Changed, Places

(* connect keeps Inv: the entry is associated and POLLOUT is asked for. *)
LEMMA ConnectInv ==
  ASSUME Laws, Inv, NEW s \in Socks, connect(s)
  PROVE  Inv'
<1> DEFINE i == sock[s].idx
           d == [sock[s] EXCEPT !.st = "Connecting"]
           k == [net[s] EXCEPT !.conn = "pending"]
           t == setAssociated(tbl, i)
           u == setEvent(t, i, "IN")
           x == [tbl.e[i] EXCEPT !.st = "SockAssociated", !.fd = "positive"]
           y == [t.e[i] EXCEPT !.ev = t.e[i].ev \cup {"IN"}]
           z == [u.e[i] EXCEPT !.ev = u.e[i].ev \cup {"OUT"}]
<1>1. obj[s] = "live" /\ sock[s].st = "Uninitialized"
  BY Zenon DEF connect, Calls
<1>2. CASE CanAssociate(tbl, i)
  <2>1. /\ tbl' = setEvent(u, i, "OUT") /\ sock' = [sock EXCEPT ![s] = d]
        /\ net' = [net EXCEPT ![s] = k] /\ UNCHANGED <<obj, pending, loop, reported>>
    BY <1>2, Zenon DEF connect
  <2>2. i \in Places(tbl) /\ tbl \in Tables(Socks)
    BY <1>2, InRangeLemma, Zenon DEF CanAssociate, Inv, Typed
  <2>3. tbl.e[i] \in Entries(Socks) /\ tbl.e[i].st = "SockIssued"
    BY <1>2, <2>2, OwnerOf DEF CanAssociate
  <2>4. /\ x \in Entries(Socks) /\ Changed(Socks, tbl, t, i, x) /\ t.assoc = tbl.assoc + 1
    BY <2>2, SetAssociatedLemma, Zenon
  <2>5. /\ x.st = "SockAssociated" /\ x.fd = "positive" /\ x.owner = tbl.e[i].owner
        /\ x.index = tbl.e[i].index
    BY <2>3 DEF Entries
  <2> HIDE DEF x, t
  <2>6. t \in Tables(Socks) /\ i \in Places(t) /\ t.e[i] = x
    BY <2>2, <2>4 DEF Changed, Places
  <2>7. /\ y \in Entries(Socks) /\ Changed(Socks, t, u, i, y) /\ u.assoc = t.assoc
    BY <2>6, SetEventLemma, Zenon
  <2>8. /\ y.st = x.st /\ y.fd = x.fd /\ y.owner = x.owner /\ y.index = x.index
        /\ "IN" \in y.ev
    BY <2>4, <2>6 DEF Entries
  <2> HIDE DEF y, u
  <2>9. u \in Tables(Socks) /\ i \in Places(u) /\ u.e[i] = y
    BY <2>6, <2>7 DEF Changed, Places
  <2>10. /\ z \in Entries(Socks) /\ Changed(Socks, u, tbl', i, z) /\ tbl'.assoc = u.assoc
    BY <2>1, <2>9, SetEventLemma, Zenon
  <2>11. /\ z.st = y.st /\ z.fd = y.fd /\ z.owner = y.owner /\ z.index = y.index
         /\ "IN" \in z.ev /\ "OUT" \in z.ev
    BY <2>7, <2>8, <2>9 DEF Entries
  <2> HIDE DEF z
  <2>12. Changed(Socks, tbl, tbl', i, z)
    <3>1. Changed(Socks, tbl, u, i, y)
      BY <2>4, <2>7, ChangedTwice
    <3> QED BY <2>10, <3>1, ChangedTwice
  <2>13. tbl'.assoc = tbl.assoc + 1
    BY <2>4, <2>7, <2>10
  <2>14. /\ d \in SockData /\ d.st = "Connecting" /\ d.idx = i /\ d.rend = sock[s].rend
    <3>1. sock[s] \in SockData /\ "Connecting" \in States
      BY DEF Inv, Typed, States
    <3> QED BY <3>1, WithState
  <2>15. k \in NetData /\ k.conn = "pending" /\ k.fin = net[s].fin
    BY Zenon DEF Inv, Typed, NetData
  <2> HIDE DEF d, k
  <2>16. FinOK(d, k)
    BY <1>1, <2>14, <2>15 DEF Inv, FinInv, FinOK
  <2>17. sock' \in [Socks -> SockData] /\ net' \in [Socks -> NetData] /\ FinInv'
    BY <1>1, <2>1, <2>14, <2>15, <2>16, OneSocket, Zenon
  <2>18. Kept
    BY <2>2, <2>3, <2>5, <2>8, <2>11, <2>12, KeptChanged, Zenon
  <2>19. Typed'
    BY <2>1, <2>17, <2>18, Zenon DEF Inv, Typed, Kept
  <2>20. LoopInv'
    BY <2>1, <2>12 DEF Inv, LoopInv, Changed, Places
  <2>21. \A r \in Socks : sock'[r].idx = sock[r].idx
    BY <2>1, <2>14 DEF Inv, Typed, i
  <2>22. OwnerInv'
    BY <2>1, <2>18, <2>21, KeptOwner
  <2>23. PolledAsNeeded'
    <3>1. Polls(z, sock'[z.owner])
      BY <2>5, <2>8, <2>11, Zenon DEF Polls
    <3>2. i = sock[s].idx /\ z.owner = tbl.e[i].owner
      BY <2>5, <2>8, <2>11, Zenon DEF i
    <3> QED BY <2>1, <2>2, <2>12, <2>14, <3>1, <3>2, PolledChanged, Zenon
  <2>24. CountInv'
    <3>1. NAssociated(tbl') = NAssociated(tbl) + 1
      <4>1. z.st = "SockAssociated" /\ tbl.e[i].st # "SockAssociated"
        BY <2>3, <2>5, <2>8, <2>11, Zenon
      <4> HIDE DEF i
      <4> QED BY <2>2, <2>12, <4>1, AssociatedChanged, ZenonT(60)
    <3>2. loop.pc \in Reporting => Head(loop.todo) \in Places(tbl)
      BY DEF Inv, LoopInv
    <3>3. ASSUME NoneGone, loop.pc \in Reporting
          PROVE  tbl'.e[Head(loop.todo)].st = "SockClosed"
      BY <2>3, <2>12, <3>2, <3>3 DEF Inv, CountInv, Changed
    <3> QED BY <2>1, <2>13, <3>1, <3>3 DEF Inv, CountInv, NoneGone
  <2>25. ReportInv'
    <3>1. Moves /\ loop' \in Loops
      BY <2>1, <2>19 DEF Moves, Typed
    <3> QED BY <2>1, <2>18, <2>20, <3>1, KeptReport
  <2> QED BY <2>17, <2>19, <2>20, <2>22, <2>23, <2>24, <2>25 DEF Inv
<1>3. CASE ~CanAssociate(tbl, i)
  BY <1>3, Stutters DEF connect, Fail, core
<1> QED BY <1>2, <1>3

(* Every call of the application keeps Inv. *)
LEMMA UserCodeInv ==
  ASSUME Laws, Inv, UserCode
  PROVE  Inv'
<1>1. PICK s \in Socks :
        \/ createSocket(s) \/ connect(s) \/ write(s) \/ end(s) \/ destroy(s)
        \/ setOptionFails(s) \/ dropSocket(s)
        \/ \E on \in BOOLEAN : setPaused(s, on)
  BY DEF UserCode
<1> QED BY <1>1, CreateInv, ConnectInv, WriteInv, EndInv, DestroyInv, DropInv,
           SetPausedInv

-----------------------------------------------------------------------------
(* The loop.                                                               *)

(* A step that only moves the loop on keeps Inv. *)
LEMMA LoopOnly ==
  ASSUME Inv, UNCHANGED <<obj, sock, net, tbl, pending, reported>>,
         loop' \in Loops, LoopInv', Moves
  PROVE  Inv'
<1>1. Typed' /\ OwnerInv' /\ PolledAsNeeded' /\ FinInv'
  BY Zenon DEF Inv, Typed, OwnerInv, PolledAsNeeded, FinInv
<1>2. CountInv'
  BY DEF Inv, CountInv, NoneGone, Moves
<1>3. ReportInv'
  BY Zenon DEF Inv, ReportInv, Moves, Reporting
<1> QED BY <1>1, <1>2, <1>3 DEF Inv

(* The entry whose event is handled, and its socket. *)
LEMMA AtEntry ==
  ASSUME Inv, loop.pc \in Dispatching
  PROVE  /\ loop \in Loops /\ loop.i \in Places(tbl)
         /\ tbl.e[loop.i].owner \in Socks /\ tbl.e[loop.i].owner \notin reported
         /\ obj[tbl.e[loop.i].owner] # "none" /\ sock[tbl.e[loop.i].owner].idx = loop.i
<1>1. loop \in Loops /\ loop.i \in Nat
  BY DEF Inv, Typed, Loops
<1>2. loop.i \in Places(tbl)
  BY <1>1 DEF Inv, LoopInv, Typed, Fits, Places, Tables
<1> QED BY <1>1, <1>2, OwnerOf DEF Inv, ReportInv

(* The loop goes on with the entry it is at. *)
LEMMA StaysAtEntry ==
  ASSUME Inv, loop.pc \in Dispatching, loop' \in Loops, loop'.i = loop.i,
         loop'.pc \in Dispatching \cup {"dispatch"}, tbl'.main = tbl.main
  PROVE  LoopInv' /\ Moves
<1>1. loop.i # 0 /\ loop.i <= tbl.main /\ tbl.e[loop.i].owner \notin reported
  BY AtEntry DEF Inv, LoopInv
<1> QED BY <1>1 DEF LoopInv, Moves, Dispatching, Reporting

(* After the input of an entry comes its output, or the next entry. *)
LEMMA AfterInputLemma ==
  ASSUME NEW at \in Loops
  PROVE  /\ AfterInput(at) \in Loops /\ AfterInput(at).i = at.i
         /\ AfterInput(at).pc \in {"writable", "dispatch"}
BY DEF AfterInput, Loops, Pcs

(* Moving the loop on leaves its other fields alone. *)
LEMMA WithPc ==
  ASSUME NEW at \in Loops, NEW p \in Pcs
  PROVE  LET l == [at EXCEPT !.pc = p]
         IN  l \in Loops /\ l.i = at.i /\ l.pc = p /\ l.todo = at.todo
BY DEF Loops

(* The steps between the parts of an iteration keep Inv. *)
LEMMA SimpleInv ==
  ASSUME Inv, \/ TimersDone \/ NothingToPoll \/ DataHandled \/ OutHandled
              \/ Dispatched \/ ImmediatesDone
  PROVE  Inv'
<1>1. loop \in Loops /\ pending \in Seq(Nat) /\ tbl.main \in Nat
  BY DEF Inv, Typed, Tables
<1>2. CASE TimersDone \/ NothingToPoll
  <2>1. PICK p \in {"poll", "exit", "immediate"} : loop' = [loop EXCEPT !.pc = p]
    BY <1>2, Zenon DEF TimersDone, NothingToPoll, Goto
  <2>2. /\ UNCHANGED <<obj, sock, net, tbl, pending, reported>>
        /\ loop.pc \in {"timers", "poll"}
    BY <1>2, Zenon DEF TimersDone, NothingToPoll
  <2>3. p \in Pcs
    BY DEF Pcs, UserPcs
  <2>4. loop' \in Loops /\ loop'.i = loop.i /\ loop'.pc = p
    BY <1>1, <2>1, <2>3, WithPc
  <2>5. LoopInv' /\ Moves
    BY <2>2, <2>4 DEF Inv, LoopInv, Moves, Dispatching, Reporting
  <2> QED BY <2>2, <2>4, <2>5, LoopOnly
<1>3. CASE DataHandled
  <2>1. /\ UNCHANGED <<obj, sock, net, tbl, pending, reported>>
        /\ loop.pc \in Dispatching /\ loop' = AfterInput(loop)
    BY <1>3, Zenon DEF DataHandled, Dispatching
  <2>2. /\ loop' \in Loops /\ loop'.i = loop.i
        /\ loop'.pc \in Dispatching \cup {"dispatch"}
    BY <1>1, <2>1, AfterInputLemma DEF Dispatching
  <2>3. LoopInv' /\ Moves
    BY <2>1, <2>2, StaysAtEntry
  <2> QED BY <2>1, <2>2, <2>3, LoopOnly
<1>4. CASE OutHandled
  <2>1. /\ UNCHANGED <<obj, sock, net, tbl, pending, reported>>
        /\ loop.pc \in Dispatching /\ loop' = [loop EXCEPT !.pc = "dispatch"]
    BY <1>4, Zenon DEF OutHandled, Dispatching, Goto
  <2>2. "dispatch" \in Pcs
    BY DEF Pcs
  <2>3. loop' \in Loops /\ loop'.i = loop.i /\ loop'.pc = "dispatch"
    BY <1>1, <2>1, <2>2, WithPc
  <2>4. LoopInv' /\ Moves
    BY <2>1, <2>3, StaysAtEntry
  <2> QED BY <2>1, <2>3, <2>4, LoopOnly
<1>5. CASE Dispatched
  <2>1. /\ UNCHANGED <<obj, sock, net, tbl, pending, reported>> /\ loop.pc = "dispatch"
        /\ loop' = [loop EXCEPT !.pc = "immediate", !.i = 0, !.out = FALSE]
    BY <1>5, Zenon DEF Dispatched
  <2>2. loop' \in Loops /\ loop'.i = 0 /\ loop'.pc = "immediate"
    BY <1>1, <2>1, Zenon DEF Loops, Pcs, UserPcs
  <2>3. LoopInv' /\ Moves
    BY <1>1, <2>1, <2>2 DEF LoopInv, Moves, Dispatching, Reporting
  <2> QED BY <2>1, <2>2, <2>3, LoopOnly
<1>6. CASE ImmediatesDone
  <2>1. /\ UNCHANGED <<obj, sock, net, tbl, pending, reported>> /\ loop.pc = "immediate"
        /\ loop' = [loop EXCEPT !.pc = "closing", !.todo = pending]
    BY <1>6, Zenon DEF ImmediatesDone
  <2>2. loop' \in Loops /\ loop'.i = loop.i /\ loop'.pc = "closing"
    BY <1>1, <2>1, Zenon DEF Loops, Pcs
  <2>3. LoopInv' /\ Moves
    BY <2>1, <2>2 DEF Inv, LoopInv, Moves, Dispatching, Reporting
  <2> QED BY <2>1, <2>2, <2>3, LoopOnly
<1> QED BY <1>2, <1>3, <1>4, <1>5, <1>6

(* poll() stores none but these bits. *)
LEMMA ReadyType ==
  ASSUME Inv, NEW i \in Places(tbl)
  PROVE  Ready(i) \subseteq {"IN", "OUT", "HUP", "ERR"}
<1>1. tbl.e[i].ev \subseteq {"IN", "OUT"}
  BY OwnerOf DEF Entries
<1> QED BY <1>1 DEF Ready

(* poll() changes nothing but revents, and keeps Inv. *)
LEMMA ReturnsInv ==
  ASSUME Laws, Inv, NEW rev, \A i \in 1 .. tbl.main : rev[i] \subseteq {"IN", "OUT", "HUP", "ERR"},
         loop.pc = "poll", Returns(rev)
  PROVE  Inv'
<1> DEFINE q == [i \in 1 .. Len(tbl.e) |->
                   IF i <= tbl.main THEN [tbl.e[i] EXCEPT !.rev = rev[i]] ELSE tbl.e[i]]
           S == {i \in 1 .. tbl.main : rev[i] # {}}
<1>1. /\ tbl' = [tbl EXCEPT !.e = q] /\ UNCHANGED <<obj, sock, net, pending, reported>>
      /\ loop' = [loop EXCEPT !.pc = "dispatch", !.i = 0, !.left = Cardinality(S)]
  BY DEF Returns
<1>2. tbl \in Tables(Socks) /\ tbl.main \in Nat /\ Len(tbl.e) \in Nat
  BY DEF Inv, Typed, Tables
<1>3. ASSUME NEW i \in Places(tbl)
      PROVE  /\ q[i] \in Entries(Socks)
             /\ q[i].st = tbl.e[i].st /\ q[i].owner = tbl.e[i].owner
             /\ q[i].index = tbl.e[i].index /\ q[i].fd = tbl.e[i].fd
             /\ q[i].ev = tbl.e[i].ev
  <2>1. tbl.e[i] \in Entries(Socks) /\ i \in Nat
    BY OwnerOf DEF Places
  <2>2. i <= tbl.main => i \in 1 .. tbl.main
    BY <1>2 DEF Places
  <2>3. CASE i <= tbl.main
    <3>1. q[i] = [tbl.e[i] EXCEPT !.rev = rev[i]]
      BY <2>3 DEF Places
    <3> HIDE DEF q
    <3> QED BY <2>1, <2>2, <2>3, <3>1 DEF Entries
  <2>4. CASE ~(i <= tbl.main)
    <3>1. q[i] = tbl.e[i]
      BY <2>4 DEF Places
    <3> QED BY <2>1, <3>1
  <2> QED BY <2>3, <2>4
<1>4. q \in Seq(Entries(Socks)) /\ Len(q) = Len(tbl.e)
  <2>1. \A i \in 1 .. Len(tbl.e) : q[i] \in Entries(Socks)
    BY <1>3 DEF Places
  <2>2. q \in [1 .. Len(tbl.e) -> Entries(Socks)]
    BY <2>1, Zenon
  <2> HIDE DEF q
  <2> QED BY <1>2, <2>2, SeqOfLength
<1> HIDE DEF q
<1>5. /\ tbl' \in Tables(Socks) /\ tbl'.e = q /\ tbl'.main = tbl.main
      /\ tbl'.cap = tbl.cap /\ tbl'.assoc = tbl.assoc
  BY <1>1, <1>2, <1>4 DEF Tables
<1>6. Cardinality(S) \in Nat
  <2>1. IsFiniteSet(1 .. tbl.main)
    BY SMTT(30), <1>2 DEF Laws, IntervalLaw
  <2>2. IsFiniteSet(S)
    BY <2>1, Zenon DEF Laws, SubsetLaw
  <2> QED BY <2>2 DEF Laws, CountLaw
<1> HIDE DEF S
<1>7. loop' \in Loops /\ loop'.i = 0 /\ loop'.pc = "dispatch"
  BY <1>1, <1>6, Zenon DEF Inv, Typed, Loops, Pcs
<1>8. LoopInv' /\ Moves
  BY <1>2, <1>5, <1>7 DEF LoopInv, Moves, Dispatching, Reporting
<1>9. Places(tbl') = Places(tbl)
  BY <1>4, <1>5, Zenon DEF Places
<1>10. Kept
  BY <1>3, <1>4, <1>5 DEF Inv, Typed, Kept, Fits, isUsed, Used
<1>11. Typed'
  BY <1>1, <1>7, <1>10 DEF Inv, Typed, Kept
<1>12. OwnerInv'
  BY <1>1, <1>10, KeptOwner
<1>13. PolledAsNeeded'
  BY <1>1, <1>3, <1>5, <1>9 DEF Inv, PolledAsNeeded, Places
<1>14. FinInv'
  BY <1>1 DEF Inv, FinInv
<1>15. CountInv'
  <2>1. Associated(tbl') = Associated(tbl)
    BY <1>3, <1>5, <1>9 DEF Associated
  <2> QED BY <1>1, <1>5, <1>7, <2>1 DEF Inv, CountInv, NoneGone, NAssociated,
             Reporting
<1>16. ReportInv'
  BY <1>1, <1>7, <1>8, <1>10, KeptReport
<1> QED BY <1>8, <1>11, <1>12, <1>13, <1>14, <1>15, <1>16 DEF Inv

(* Both ways poll() returns keep Inv. *)
LEMMA PollInv ==
  ASSUME Laws, Inv, Poll \/ PollTimeout
  PROVE  Inv'
<1>1. PICK full : Returns(Revents(full))
  BY Zenon DEF Poll, PollTimeout
<1>2. \A i \in 1 .. tbl.main : i \in Places(tbl)
  BY DEF Inv, Typed, Fits, Places, Tables
<1>3. \A i \in 1 .. tbl.main : Revents(full)[i] \subseteq {"IN", "OUT", "HUP", "ERR"}
  BY <1>2, ReadyType DEF Revents
<1>4. loop.pc = "poll"
  BY Zenon DEF Poll, PollTimeout
<1> QED BY <1>1, <1>3, <1>4, ReturnsInv

-----------------------------------------------------------------------------
(* pollPhase2 reaches entry i of the socket s. *)
Reached(i, s, at) ==
  /\ loop.pc = "dispatch"
  /\ i \in 1 .. tbl.main /\ i \in Places(tbl) /\ s = tbl.e[i].owner
  /\ s \in Socks /\ obj[s] = "live" /\ s \notin reported
  /\ at \in Loops /\ at.i = i /\ at.pc = "dispatch"

(* The scan of pollPhase2 arrives at an entry inside ourSide. *)
LEMMA ArrivesAt ==
  ASSUME Inv, NEW i, NEW s, NEW at, Reached(i, s, at), loop' \in Loops, loop'.i = i,
         loop'.pc \in Dispatching \cup {"dispatch"}, tbl'.main = tbl.main
  PROVE  LoopInv' /\ Moves
<1>1. tbl.main \in Nat
  BY DEF Inv, Typed, Tables
<1> QED BY <1>1 DEF LoopInv, Moves, Dispatching, Reporting, Reached

(* An error found by poll() queues the close event, and keeps Inv. *)
LEMMA ClosesOnEvent ==
  ASSUME Inv, NEW i, NEW s, NEW at, Reached(i, s, at),
         Close(s, sock[s], "ErrorClosing"), UNCHANGED <<obj, reported, net, tbl>>,
         loop' \in Loops, loop'.i = i, loop'.pc \in Dispatching \cup {"dispatch"}
  PROVE  Inv'
<1>1. LoopInv' /\ Moves
  BY ArrivesAt, Zenon
<1>2. /\ s \in Socks /\ obj[s] # "none" /\ sock[s] \in SockData /\ net[s] \in NetData
      /\ net' = [net EXCEPT ![s] = net[s]] /\ Calm(sock[s], sock[s])
  BY Zenon DEF Inv, Typed, Reached, Calm
<1>3. pending' \in Seq(Nat)
  BY <1>2, CloseLemma
<1>4. PICK f \in SockData : sock' = [sock EXCEPT ![s] = f] /\ Calm(sock[s], f)
  BY <1>2, CloseLemma
<1>5. FinOK(f, net[s])
  BY <1>2, <1>4, CalmFin
<1> QED BY <1>1, <1>2, <1>3, <1>4, <1>5, CalmStep, Zenon

(* recv() finds the end of the stream: POLLIN is not asked for any more. *)
LEMMA RemoteEndedInv ==
  ASSUME Laws, Inv, NEW i, NEW s, NEW at, Reached(i, s, at), RemoteEnded(i, s, at),
         UNCHANGED <<obj, reported, net, pending>>
  PROVE  Inv'
<1>1. /\ s \in Socks /\ obj[s] # "none" /\ sock[s] \in SockData /\ net[s] \in NetData
      /\ net' = [net EXCEPT ![s] = net[s]] /\ pending' \in Seq(Nat)
      /\ i \in Places(tbl) /\ at \in Loops /\ at.i = i /\ s = tbl.e[i].owner
  BY DEF Inv, Typed, Reached
<1>2. CASE sock[s].rend
  <2>1. loop' = AfterInput(at) /\ UNCHANGED <<sock, tbl>>
    BY <1>2 DEF RemoteEnded
  <2>2. loop' \in Loops /\ loop'.i = i /\ loop'.pc \in Dispatching \cup {"dispatch"}
    BY <1>1, <2>1, AfterInputLemma DEF Dispatching
  <2>3. LoopInv' /\ Moves
    BY <2>1, <2>2, ArrivesAt
  <2> QED BY <2>1, <2>2, <2>3, LoopOnly
<1>3. CASE ~sock[s].rend
  <2> DEFINE d == [sock[s] EXCEPT !.rend = TRUE]
             x == [tbl.e[i] EXCEPT !.ev = tbl.e[i].ev \ {"IN"}]
  <2>1. /\ tbl' = unsetEvent(tbl, i, "IN") /\ sock' = [sock EXCEPT ![s] = d]
        /\ loop' = [at EXCEPT !.pc = "inEnd"]
    BY <1>3 DEF RemoteEnded
  <2>2. Changed(Socks, tbl, tbl', i, x) /\ tbl'.assoc = tbl.assoc
    <3>1. tbl \in Tables(Socks)
      BY DEF Inv, Typed
    <3>2. i \in Places(tbl) /\ "IN" \in {"IN", "OUT"}
      BY <1>1
    <3>3. /\ Changed(Socks, tbl, unsetEvent(tbl, i, "IN"), i, x)
          /\ unsetEvent(tbl, i, "IN").assoc = tbl.assoc
      BY <3>1, <3>2, UnsetEventLemma, Zenon
    <3> HIDE DEF d, x
    <3> QED BY <2>1, <3>3
  <2>3. tbl.e[i] \in Entries(Socks)
    BY <1>1, OwnerOf
  <2>4. /\ x.st = tbl.e[i].st /\ x.owner = tbl.e[i].owner /\ x.index = tbl.e[i].index
        /\ x.fd = tbl.e[i].fd /\ x.ev = tbl.e[i].ev \ {"IN"}
    BY <2>3 DEF Entries
  <2>5. /\ d \in SockData /\ d.st = sock[s].st /\ d.idx = sock[s].idx
        /\ d.wbuf = sock[s].wbuf /\ d.rend = TRUE
    BY <1>1, Zenon DEF SockData
  <2>6. "inEnd" \in Pcs
    BY DEF Pcs, UserPcs
  <2>7. loop' \in Loops /\ loop'.i = i /\ loop'.pc \in Dispatching \cup {"dispatch"}
    BY <1>1, <2>1, <2>6, WithPc DEF Dispatching
  <2>8. LoopInv' /\ Moves
    BY <2>2, <2>7, ArrivesAt DEF Changed
  <2> HIDE DEF x, d
  <2>9. Calm(sock[s], d)
    BY <2>5, Zenon DEF Calm
  <2>10. FinOK(d, net[s])
    BY <1>1, <2>5, <2>9, CalmFin, Zenon
  <2>11. Polls(tbl.e[i], sock[s])
    BY <1>1, Zenon DEF Inv, PolledAsNeeded, Polls, Places
  <2>12. Polls(x, d)
    BY SMTT(30), <2>4, <2>5, <2>11 DEF Polls
  <2>13. Polls(x, IF x.owner = s THEN d ELSE sock[x.owner])
    BY <1>1, <2>4, <2>12
  <2> QED BY <1>1, <2>1, <2>2, <2>4, <2>5, <2>7, <2>8, <2>9, <2>10, <2>13,
             EventStep, Zenon
<1> QED BY <1>2, <1>3, Zenon

(* infraProcessReadEvent keeps Inv up to the handlers. *)
LEMMA ReadEventInv ==
  ASSUME Laws, Inv, NEW i, NEW s, NEW at, Reached(i, s, at), ReadEvent(i, s, at),
         UNCHANGED <<obj, reported>>
  PROVE  Inv'
<1>1. /\ s \in Socks /\ obj[s] # "none" /\ sock[s] \in SockData /\ net[s] \in NetData
      /\ at \in Loops /\ at.i = i
  BY DEF Inv, Typed, Reached
<1>2. CASE /\ net' = [net EXCEPT ![s].inq = FALSE]
           /\ loop' = [at EXCEPT !.pc = "inData"]
           /\ UNCHANGED <<sock, tbl, pending>>
  <2> DEFINE k == [net[s] EXCEPT !.inq = FALSE]
  <2>1. k \in NetData /\ k.conn = net[s].conn /\ k.fin = net[s].fin
    BY <1>1, Zenon DEF NetData
  <2>2. net' = [net EXCEPT ![s] = k]
    BY <1>2
  <2> HIDE DEF k
  <2>3. Calm(sock[s], sock[s]) /\ sock' = [sock EXCEPT ![s] = sock[s]] /\ pending' \in Seq(Nat)
    BY <1>2 DEF Calm, Inv, Typed
  <2>4. FinOK(sock[s], k)
    BY <1>1, <2>1, <2>3, CalmFin DEF FinOK
  <2>5. "inData" \in Pcs
    BY DEF Pcs, UserPcs
  <2>6. loop' \in Loops /\ loop'.i = i /\ loop'.pc \in Dispatching \cup {"dispatch"}
    BY <1>1, <1>2, <2>5, WithPc DEF Dispatching
  <2>7. LoopInv' /\ Moves
    BY <1>2, <2>6, ArrivesAt
  <2> QED BY <1>1, <1>2, <2>1, <2>2, <2>3, <2>4, <2>6, <2>7, CalmStep, Zenon
<1>3. CASE RemoteEnded(i, s, at) /\ UNCHANGED <<net, pending>>
  BY <1>3, RemoteEndedInv
<1>4. CASE /\ Close(s, sock[s], "ErrorClosing")
           /\ loop' = AfterInput(at)
           /\ UNCHANGED <<net, tbl>>
  <2>1. loop' \in Loops /\ loop'.i = i /\ loop'.pc \in Dispatching \cup {"dispatch"}
    BY <1>1, <1>4, AfterInputLemma DEF Dispatching
  <2> QED BY <1>4, <2>1, ClosesOnEvent
<1> QED BY <1>2, <1>3, <1>4 DEF ReadEvent

(* infraCheckPollFdSet keeps Inv up to the handlers. *)
LEMMA CheckInv ==
  ASSUME Laws, Inv, NEW i, NEW s, NEW at, NEW rev, Reached(i, s, at),
         CheckPollFdSet(i, rev, s, at), UNCHANGED <<obj, reported>>
  PROVE  Inv'
<1>1. at \in Loops /\ at.i = i /\ at.pc = "dispatch"
  BY DEF Reached
<1>2. CASE Close(s, sock[s], "ErrorClosing") /\ loop' = at /\ UNCHANGED <<net, tbl>>
  BY <1>1, <1>2, ClosesOnEvent
<1>3. CASE ReadEvent(i, s, at)
  BY <1>3, ReadEventInv
<1>4. CASE RemoteEnded(i, s, at) /\ UNCHANGED <<net, pending>>
  BY <1>4, RemoteEndedInv
<1>5. CASE loop' = AfterInput(at) /\ UNCHANGED <<sock, net, tbl, pending>>
  <2>1. loop' \in Loops /\ loop'.i = i /\ loop'.pc \in Dispatching \cup {"dispatch"}
    BY <1>1, <1>5, AfterInputLemma DEF Dispatching
  <2>2. LoopInv' /\ Moves
    BY <1>5, <2>1, ArrivesAt
  <2> QED BY <1>5, <2>1, <2>2, LoopOnly
<1> QED BY <1>2, <1>3, <1>4, <1>5 DEF CheckPollFdSet

(* pollPhase2 keeps Inv as it goes from entry to entry. *)
LEMMA DispatchInv ==
  ASSUME Laws, Inv, Dispatch
  PROVE  Inv'
<1> DEFINE i == Min(Ahead)
           rev == IF tbl.e[i].st = "SockAssociated" THEN tbl.e[i].rev ELSE {}
           s == tbl.e[i].owner
           at == [loop EXCEPT !.i = i, !.left = @ - 1, !.out = "OUT" \in rev]
<1>1. CASE Ahead = {} \/ ~isUsed(tbl, i)
  BY <1>1, Stutters, Zenon DEF Dispatch, Fail, core
<1>2. CASE Ahead # {} /\ isUsed(tbl, i)
  <2>1. CheckPollFdSet(i, rev, s, at) /\ UNCHANGED <<obj, reported>>
    BY <1>2, Zenon DEF Dispatch
  <2>2. loop.pc = "dispatch" /\ loop.left > 0 /\ loop \in Loops
    BY Zenon DEF Dispatch, Inv, Typed
  <2>3. tbl.main \in Nat /\ loop.i \in Nat /\ Len(tbl.e) \in Nat /\ tbl.main <= Len(tbl.e)
    BY DEF Inv, Typed, Tables, Loops, Fits
  <2>4. Ahead \subseteq 1 .. tbl.main /\ Ahead \subseteq Nat
    BY <2>3 DEF Ahead
  <2>5. i \in 1 .. tbl.main
    BY <1>2, <2>4, Zenon DEF Laws, LeastLaw
  <2> HIDE DEF i
  <2>6. i \in Places(tbl) /\ i \in Nat
    BY <2>3, <2>5 DEF Places
  <2>7. s \in Socks /\ obj[s] = "live"
    BY <1>2, <2>6, OwnerOf DEF Inv, OwnerInv
  <2>8. s \notin reported
    BY <1>2, <2>2, <2>6 DEF Inv, ReportInv
  <2>9. at \in Loops /\ at.i = i /\ at.pc = "dispatch"
    <3> DEFINE n == loop.left - 1
               b == "OUT" \in rev
    <3>1. n \in Nat
      BY <2>2 DEF Loops
    <3>2. b \in BOOLEAN
      OBVIOUS
    <3>3. at = [loop EXCEPT !.i = i, !.left = n, !.out = b]
      BY Zenon
    <3> HIDE DEF at, n, b
    <3> QED BY <2>2, <2>6, <3>1, <3>2, <3>3, Zenon DEF Loops
  <2> HIDE DEF s, at, rev
  <2>10. Reached(i, s, at)
    BY <2>2, <2>5, <2>6, <2>7, <2>8, <2>9 DEF Reached, s
  <2> QED BY <2>1, <2>10, CheckInv
<1> QED BY <1>1, <1>2

(* What follows the handlers of the end event keeps Inv: a socket that     *)
(* does not allow half-open connections is ended.                          *)
LEMMA EndHandledInv ==
  ASSUME Inv, EndHandled
  PROVE  Inv'
<1> DEFINE s == tbl.e[loop.i].owner
           d == sock[s]
<1>1. CASE obj[s] # "live"
  BY <1>1, Stutters, Zenon DEF EndHandled, Fail, core
<1>2. CASE obj[s] = "live"
  <2>1. loop.pc \in Dispatching /\ loop' = AfterInput(loop) /\ UNCHANGED <<obj, tbl, reported>>
    BY <1>2, Zenon DEF EndHandled, Dispatching
  <2>2. loop \in Loops /\ s \in Socks
    BY <2>1, AtEntry
  <2>3. loop' \in Loops /\ loop'.i = loop.i /\ loop'.pc \in Dispatching \cup {"dispatch"}
    BY <2>1, <2>2, AfterInputLemma DEF Dispatching
  <2>4. LoopInv' /\ Moves
    BY <2>1, <2>3, StaysAtEntry, Zenon
  <2>5. /\ d \in SockData /\ Calm(d, d) /\ net[s] \in NetData /\ pending \in Seq(Nat)
        /\ net = [net EXCEPT ![s] = net[s]] /\ sock = [sock EXCEPT ![s] = d]
        /\ obj[s] # "none"
    BY <1>2, <2>2, Zenon DEF Inv, Typed, Calm
  <2>6. \/ Close(s, d, "Closing") /\ UNCHANGED net
        \/ UNCHANGED <<sock, net, pending>>
        \/ /\ d.wbuf > 0 /\ sock' = [sock EXCEPT ![s].st = "LocalEnding"]
           /\ UNCHANGED <<net, pending>>
        \/ /\ d.wbuf = 0 /\ net' = [net EXCEPT ![s] = Shutdown(@)]
           /\ Close(s, [d EXCEPT !.st = "LocalEnded"], "Closing")
    BY <1>2, Zenon DEF EndHandled
  <2>7. CASE Close(s, d, "Closing") /\ UNCHANGED net
    <3>1. pending' \in Seq(Nat)
      BY <2>2, <2>5, <2>7, CloseLemma, Zenon
    <3>2. PICK f \in SockData : sock' = [sock EXCEPT ![s] = f] /\ Calm(d, f)
      BY Zenon, <2>2, <2>5, <2>7, CloseLemma
    <3>3. FinOK(f, net[s]) /\ net' = [net EXCEPT ![s] = net[s]]
      BY <2>2, <2>5, <2>7, <3>2, CalmFin, Zenon
    <3> QED BY <2>1, <2>2, <2>3, <2>4, <2>5, <3>1, <3>2, <3>3, CalmStep, Zenon
  <2>8. CASE UNCHANGED <<sock, net, pending>>
    BY <2>1, <2>3, <2>4, <2>8, LoopOnly
  <2>9. CASE /\ d.wbuf > 0 /\ sock' = [sock EXCEPT ![s].st = "LocalEnding"]
             /\ UNCHANGED <<net, pending>>
    <3> DEFINE f == [sock[s] EXCEPT !.st = "LocalEnding"]
    <3>1. "LocalEnding" \in States
      BY Zenon DEF States
    <3>2. /\ f \in SockData /\ f.st = "LocalEnding" /\ f.idx = d.idx /\ f.rend = d.rend
          /\ f.wbuf = d.wbuf
      BY Zenon, <2>5, <3>1, WithState
    <3>3. sock' = [sock EXCEPT ![s] = f]
      BY <2>9, Zenon
    <3> HIDE DEF f
    <3>4. Calm(d, f)
      BY Zenon, <3>2 DEF Calm
    <3>5. FinOK(f, net[s]) /\ net' = [net EXCEPT ![s] = net[s]] /\ pending' \in Seq(Nat)
      BY <2>2, <2>5, <2>9, <3>2, <3>4, CalmFin, Zenon
    <3> QED BY <2>1, <2>2, <2>3, <2>4, <2>5, <3>2, <3>3, <3>4, <3>5, CalmStep,
               Zenon
  <2>10. CASE /\ d.wbuf = 0 /\ net' = [net EXCEPT ![s] = Shutdown(@)]
              /\ Close(s, [d EXCEPT !.st = "LocalEnded"], "Closing")
    <3> DEFINE g == [sock[s] EXCEPT !.st = "LocalEnded"]
    <3>1. "LocalEnded" \in States
      BY Zenon DEF States
    <3>2. /\ g \in SockData /\ g.st = "LocalEnded" /\ g.idx = d.idx /\ g.rend = d.rend
          /\ g.wbuf = d.wbuf
      BY <2>5, <3>1, WithState, Zenon
    <3>3. Close(s, g, "Closing") /\ net' = [net EXCEPT ![s] = Shutdown(net[s])]
      BY <2>10, Zenon
    <3> HIDE DEF g
    <3>4. Calm(d, g)
      BY <3>2 DEF Calm
    <3>5. pending' \in Seq(Nat)
      BY <2>2, <3>2, <3>3, <3>4, CloseLemma, Zenon
    <3>6. PICK f \in SockData : /\ sock' = [sock EXCEPT ![s] = f] /\ Calm(d, f)
                                /\ f.wbuf = g.wbuf /\ f.st \in ClosingStates
      BY <2>2, <3>2, <3>3, <3>4, CloseLemma, Zenon
    <3>7. f.st # "Uninitialized" /\ f.wbuf = 0
      BY <2>10, <3>2, <3>6, Zenon DEF ClosingStates
    <3>8. Shutdown(net[s]) \in NetData /\ FinOK(f, Shutdown(net[s]))
      BY <2>2, <3>6, <3>7, ShutdownOK
    <3> QED BY <2>1, <2>2, <2>3, <2>4, <2>5, <3>3, <3>5, <3>6, <3>8, CalmStep,
               Zenon
  <2> QED BY <2>6, <2>7, <2>8, <2>9, <2>10, Zenon
<1> QED BY <1>1, <1>2

(* infraProcessWriteEvent is at the entry of the live socket s. *)
AtOutput(s) ==
  /\ loop.pc = "writable" /\ s = tbl.e[loop.i].owner /\ obj[s] = "live"

(* What is known of the socket whose output event is handled. *)
LEMMA OutputFacts ==
  ASSUME Inv, NEW s, AtOutput(s)
  PROVE  /\ s \in Socks /\ obj[s] # "none" /\ sock[s].idx = loop.i
         /\ loop.i \in Places(tbl) /\ s = tbl.e[loop.i].owner
         /\ sock[s] \in SockData /\ net[s] \in NetData
         /\ net = [net EXCEPT ![s] = net[s]] /\ sock = [sock EXCEPT ![s] = sock[s]]
         /\ pending \in Seq(Nat) /\ Calm(sock[s], sock[s]) /\ sock[s].wbuf \in Nat
<1>1. loop.pc \in Dispatching /\ s = tbl.e[loop.i].owner /\ obj[s] = "live"
  BY DEF AtOutput, Dispatching
<1>2. s \in Socks /\ sock[s].idx = loop.i /\ loop.i \in Places(tbl)
  BY <1>1, AtEntry
<1>3. sock[s] \in SockData /\ net[s] \in NetData
  BY <1>2 DEF Inv, Typed
<1>4. sock[s].wbuf \in Nat
  BY <1>3, BoundsAssumption DEF SockData
<1> QED BY <1>1, <1>2, <1>3, <1>4, Zenon DEF Inv, Typed, Calm

(* The output event is done, or goes on to the handlers. *)
LEMMA OutputGoto ==
  ASSUME Inv, NEW s, AtOutput(s), NEW p \in {"dispatch", "inOut"}, Goto(p),
         tbl'.main = tbl.main
  PROVE  loop' \in Loops /\ LoopInv' /\ Moves
<1>1. loop.pc \in Dispatching /\ p \in Pcs /\ p \in Dispatching \cup {"dispatch"}
  BY DEF AtOutput, Dispatching, Pcs, UserPcs
<1>2. loop \in Loops
  BY <1>1, AtEntry
<1>3. loop' \in Loops /\ loop'.i = loop.i /\ loop'.pc = p
  BY <1>1, <1>2, WithPc DEF Goto
<1> QED BY <1>1, <1>3, StaysAtEntry

(* send() fails in the output event: the close event is queued. *)
LEMMA WriteFailsInv ==
  ASSUME Inv, NEW s, AtOutput(s), WriteFails(s)
  PROVE  Inv'
<1>1. /\ UNCHANGED <<obj, net, tbl, reported>> /\ Goto("dispatch")
      /\ Close(s, sock[s], "ErrorClosing")
  BY DEF WriteFails
<1>2. loop' \in Loops /\ LoopInv' /\ Moves
  BY <1>1, OutputGoto
<1>3. /\ s \in Socks /\ obj[s] # "none" /\ sock[s] \in SockData /\ net[s] \in NetData
      /\ net' = [net EXCEPT ![s] = net[s]] /\ Calm(sock[s], sock[s])
  BY <1>1, OutputFacts
<1>4. pending' \in Seq(Nat)
  BY <1>1, <1>3, CloseLemma
<1>5. PICK f \in SockData : sock' = [sock EXCEPT ![s] = f] /\ Calm(sock[s], f)
  BY <1>1, <1>3, CloseLemma
<1>6. FinOK(f, net[s])
  BY <1>3, <1>5, CalmFin
<1> QED BY <1>1, <1>2, <1>3, <1>4, <1>5, <1>6, CalmStep, Zenon

(* send() takes part of the buffer: the rest stays, and POLLOUT with it. *)
LEMMA PartSentInv ==
  ASSUME Inv, NEW s, AtOutput(s), NEW n, n \in 0 .. sock[s].wbuf - 1, PartSent(s, n)
  PROVE  Inv'
<1> DEFINE d == [sock[s] EXCEPT !.wbuf = sock[s].wbuf - n]
<1>1. CASE n < sock[s].wbuf - n
  <2>1. /\ UNCHANGED <<obj, net, tbl, pending, reported>> /\ Goto("dispatch")
        /\ sock' = [sock EXCEPT ![s] = d]
    BY <1>1 DEF PartSent
  <2>2. loop' \in Loops /\ LoopInv' /\ Moves
    BY <2>1, OutputGoto
  <2>3. /\ s \in Socks /\ obj[s] # "none" /\ sock[s] \in SockData /\ net[s] \in NetData
        /\ net' = [net EXCEPT ![s] = net[s]] /\ pending' \in Seq(Nat)
    BY <2>1, OutputFacts
  <2>4. sock[s].wbuf - n \in 0 .. MaxBuffered /\ sock[s].wbuf > 0
    BY <2>3, BoundsAssumption DEF SockData
  <2>5. /\ d \in SockData /\ d.st = sock[s].st /\ d.idx = sock[s].idx
        /\ d.rend = sock[s].rend
    BY <2>3, <2>4, WithBuffered
  <2> HIDE DEF d
  <2>6. Calm(sock[s], d)
    BY <2>4, <2>5 DEF Calm
  <2>7. FinOK(d, net[s])
    BY <2>3, <2>5, <2>6, CalmFin
  <2> QED BY <2>1, <2>2, <2>3, <2>5, <2>6, <2>7, CalmStep, Zenon
<1>2. CASE ~(n < sock[s].wbuf - n)
  BY <1>2, Stutters, Zenon DEF PartSent, Fail, core
<1> QED BY <1>1, <1>2

(* POLLOUT is not asked for any more: nothing is buffered. *)
LEMMA OutputDone ==
  ASSUME Laws, Inv, NEW s, AtOutput(s), NEW f \in SockData, NEW k \in NetData, FinOK(f, k),
         Calm(sock[s], f), f.wbuf = 0, f.st # "Connecting",
         sock' = [sock EXCEPT ![s] = f], net' = [net EXCEPT ![s] = k],
         pending' \in Seq(Nat), tbl' = unsetEvent(tbl, sock[s].idx, "OUT"),
         Goto("inOut"), UNCHANGED <<obj, reported>>
  PROVE  Inv'
<1> DEFINE i == loop.i
           x == [tbl.e[i] EXCEPT !.ev = tbl.e[i].ev \ {"OUT"}]
<1>1. /\ s \in Socks /\ obj[s] # "none" /\ sock[s].idx = i /\ i \in Places(tbl)
      /\ s = tbl.e[i].owner /\ sock[s] \in SockData
  BY OutputFacts
<1>2. Changed(Socks, tbl, tbl', i, x) /\ tbl'.assoc = tbl.assoc
  <2>1. tbl \in Tables(Socks) /\ "OUT" \in {"IN", "OUT"}
    BY DEF Inv, Typed
  <2>2. /\ Changed(Socks, tbl, unsetEvent(tbl, i, "OUT"), i, x)
        /\ unsetEvent(tbl, i, "OUT").assoc = tbl.assoc
    BY <1>1, <2>1, UnsetEventLemma, Zenon
  <2> HIDE DEF x
  <2> QED BY <1>1, <2>2, Zenon
<1>3. tbl.e[i] \in Entries(Socks)
  BY <1>1, OwnerOf, Zenon
<1>4. /\ x.st = tbl.e[i].st /\ x.owner = tbl.e[i].owner /\ x.index = tbl.e[i].index
      /\ x.fd = tbl.e[i].fd /\ x.ev = tbl.e[i].ev \ {"OUT"}
  BY <1>3 DEF Entries
<1> HIDE DEF x
<1>5. loop' \in Loops /\ LoopInv' /\ Moves
  BY <1>2, OutputGoto, Zenon DEF Changed
<1>6. Polls(tbl.e[i], sock[s])
  BY <1>1, Zenon DEF Inv, PolledAsNeeded, Polls, Places
<1>7. Polls(x, f)
  <2>1. ~(0 > 0)
    OBVIOUS
  <2>2. ~(f.st = "Connecting" \/ f.wbuf > 0) /\ (sock[s].rend => f.rend)
    BY <2>1, Zenon DEF Calm
  <2>3. "IN" \in x.ev <=> "IN" \in tbl.e[i].ev
    BY <1>4
  <2> QED BY <1>4, <1>6, <2>2, <2>3, Zenon DEF Polls
<1>8. Polls(x, IF x.owner = s THEN f ELSE sock[x.owner]) /\ f.idx = sock[s].idx
  BY <1>1, <1>4, <1>7, Zenon DEF Calm
<1> QED BY <1>1, <1>2, <1>4, <1>5, <1>8, EventStep, Zenon

(* connect() has succeeded: POLLOUT is not asked for any more. *)
LEMMA ConnectedInv ==
  ASSUME Laws, Inv, NEW s, AtOutput(s), sock[s].st = "Connecting", Connected(s)
  PROVE  Inv'
<1> DEFINE f == [sock[s] EXCEPT !.st = "Connected"]
<1>1. CASE ~(sock[s].wbuf > 0)
  <2>1. /\ UNCHANGED <<obj, net, pending, reported>> /\ Goto("inOut")
        /\ sock' = [sock EXCEPT ![s] = f] /\ tbl' = unsetEvent(tbl, sock[s].idx, "OUT")
    BY <1>1 DEF Connected
  <2>2. /\ s \in Socks /\ sock[s] \in SockData /\ net[s] \in NetData
        /\ net' = [net EXCEPT ![s] = net[s]] /\ pending' \in Seq(Nat) /\ sock[s].wbuf = 0
    BY <1>1, <2>1, OutputFacts
  <2>3. "Connected" \in States
    BY DEF States
  <2>4. /\ f \in SockData /\ f.st = "Connected" /\ f.idx = sock[s].idx
        /\ f.rend = sock[s].rend /\ f.wbuf = sock[s].wbuf
    BY <2>2, <2>3, WithState
  <2> HIDE DEF f
  <2>5. Calm(sock[s], f)
    BY <2>4 DEF Calm
  <2>6. FinOK(f, net[s])
    BY <2>2, <2>4, <2>5, CalmFin
  <2> QED BY <2>1, <2>2, <2>4, <2>5, <2>6, OutputDone, Zenon
<1>2. CASE sock[s].wbuf > 0
  BY <1>2, Stutters DEF Connected, Fail, core
<1> QED BY <1>1, <1>2

(* The buffer is sent: POLLOUT goes, and FIN follows if the socket was     *)
(* ended.                                                                  *)
LEMMA AllSentInv ==
  ASSUME Laws, Inv, NEW s, AtOutput(s), sock[s].st # "Connecting", sock[s].wbuf > 0, AllSent(s)
  PROVE  Inv'
<1> DEFINE d == [sock[s] EXCEPT !.wbuf = 0]
<1>1. /\ s \in Socks /\ sock[s] \in SockData /\ net[s] \in NetData /\ pending \in Seq(Nat)
      /\ net = [net EXCEPT ![s] = net[s]]
  BY OutputFacts
<1>2. 0 \in 0 .. MaxBuffered
  BY BoundsAssumption
<1>3. /\ d \in SockData /\ d.st = sock[s].st /\ d.idx = sock[s].idx
      /\ d.rend = sock[s].rend /\ d.wbuf = 0
  BY <1>1, <1>2, WithBuffered
<1>4. /\ \/ /\ d.st = "LocalEnding" /\ d.rend
            /\ net' = [net EXCEPT ![s] = Shutdown(net[s])]
            /\ Close(s, d, "Closing")
         \/ /\ d.st = "LocalEnding" /\ ~d.rend
            /\ net' = [net EXCEPT ![s] = Shutdown(net[s])]
            /\ sock' = [sock EXCEPT ![s] = [d EXCEPT !.st = "LocalEnded"]]
            /\ UNCHANGED pending
         \/ /\ d.st # "LocalEnding"
            /\ sock' = [sock EXCEPT ![s] = d]
            /\ UNCHANGED <<net, pending>>
      /\ tbl' = unsetEvent(tbl, d.idx, "OUT")
      /\ Goto("inOut")
      /\ UNCHANGED <<obj, reported>>
  BY DEF AllSent
<1> HIDE DEF d
<1>5. Calm(sock[s], d)
  BY <1>3 DEF Calm
<1>6. tbl' = unsetEvent(tbl, sock[s].idx, "OUT") /\ Goto("inOut") /\ UNCHANGED <<obj, reported>>
  BY <1>3, <1>4
<1>7. CASE /\ net' = [net EXCEPT ![s] = Shutdown(net[s])] /\ Close(s, d, "Closing")
  <2>1. pending' \in Seq(Nat)
    BY <1>1, <1>3, <1>5, <1>7, CloseLemma, Zenon
  <2>2. PICK f \in SockData : /\ sock' = [sock EXCEPT ![s] = f] /\ Calm(sock[s], f)
                              /\ f.wbuf = d.wbuf /\ f.st \in ClosingStates
    BY <1>1, <1>3, <1>5, <1>7, CloseLemma
  <2>3. f.st # "Uninitialized" /\ f.st # "Connecting" /\ f.wbuf = 0
    BY <1>3, <2>2 DEF ClosingStates
  <2>4. Shutdown(net[s]) \in NetData /\ FinOK(f, Shutdown(net[s]))
    BY <1>1, <2>2, <2>3, ShutdownOK
  <2> QED BY <1>6, <1>7, <2>1, <2>2, <2>3, <2>4, OutputDone, Zenon
<1>8. CASE /\ net' = [net EXCEPT ![s] = Shutdown(net[s])]
           /\ sock' = [sock EXCEPT ![s] = [d EXCEPT !.st = "LocalEnded"]]
           /\ UNCHANGED pending
  <2> DEFINE f == [d EXCEPT !.st = "LocalEnded"]
  <2>1. "LocalEnded" \in States
    BY DEF States
  <2>2. /\ f \in SockData /\ f.st = "LocalEnded" /\ f.idx = d.idx /\ f.rend = d.rend
        /\ f.wbuf = 0
    BY <1>3, <2>1, WithState
  <2>3. sock' = [sock EXCEPT ![s] = f]
    BY <1>8, Zenon
  <2> HIDE DEF f
  <2>4. Calm(sock[s], f)
    BY <1>3, <2>2 DEF Calm
  <2>5. Shutdown(net[s]) \in NetData /\ FinOK(f, Shutdown(net[s]))
    BY <1>1, <2>2, ShutdownOK
  <2> QED BY <1>1, <1>6, <1>8, <2>2, <2>3, <2>4, <2>5, OutputDone, Zenon
<1>9. CASE sock' = [sock EXCEPT ![s] = d] /\ UNCHANGED <<net, pending>>
  <2>1. FinOK(d, net[s])
    BY <1>1, <1>3, <1>5, CalmFin
  <2> QED BY <1>1, <1>3, <1>5, <1>6, <1>9, <2>1, OutputDone, Zenon
<1> QED BY <1>4, <1>7, <1>8, <1>9

(* infraProcessWriteEvent keeps Inv. *)
LEMMA WriteEventInv ==
  ASSUME Laws, Inv, WriteEvent
  PROVE  Inv'
<1> DEFINE s == tbl.e[loop.i].owner
<1>1. CASE obj[s] # "live"
  BY <1>1, Stutters, Zenon DEF WriteEvent, Fail, core
<1>2. CASE obj[s] = "live"
  <2>1. AtOutput(s)
    BY <1>2, Zenon DEF WriteEvent, AtOutput
  <2>2. \/ WriteFails(s)
        \/ sock[s].st = "Connecting" /\ Connected(s)
        \/ sock[s].st # "Connecting" /\ sock[s].wbuf > 0 /\ AllSent(s)
        \/ \E n : n \in 0 .. sock[s].wbuf - 1 /\ PartSent(s, n)
        \/ Fail("Not supported yet!")
    BY <1>2, Zenon DEF WriteEvent
  <2> HIDE DEF s
  <2>3. CASE Fail("Not supported yet!")
    BY <2>3, Stutters, Zenon DEF Fail, core
  <2> QED BY <2>1, <2>2, <2>3, WriteFailsInv, ConnectedInv, AllSentInv,
             PartSentInv, Zenon
<1> QED BY <1>1, <1>2

-----------------------------------------------------------------------------
(* infraGetCloseEvent.                                                     *)

(* infraGetCloseEvent closes the socket behind an entry and calls          *)
(* handlers.                                                               *)
LEMMA CloseBehindInv ==
  ASSUME Laws, Inv, loop.pc = "closing", loop.todo # <<>>, NEW i, i = Head(loop.todo),
         i \in Places(tbl), isUsed(tbl, i), CloseBehind(i, tbl.e[i].owner),
         UNCHANGED <<obj, sock, pending>>
  PROVE  Inv'
<1> DEFINE s == tbl.e[i].owner
           k == [net[s] EXCEPT !.conn = "closed"]
           x == [tbl.e[i] EXCEPT !.st = "SockClosed", !.fd = "invalid"]
<1>1. /\ s \in Socks /\ obj[s] # "none" /\ sock[s].idx = i /\ tbl.e[i] \in Entries(Socks)
  BY OwnerOf, Zenon
<1>2. net' = [net EXCEPT ![s] = k] /\ tbl' = setSocketClosed(tbl, i)
  BY Zenon DEF CloseBehind
<1>3. \E p \in {"inError", "inClose"} :
        /\ loop' = [loop EXCEPT !.pc = p]
        /\ reported' = IF p = "inError" THEN reported ELSE reported \cup {s}
  BY Zenon DEF CloseBehind, ReportClose, Goto
<1>4. /\ k \in NetData /\ k.conn = "closed" /\ k.fin = net[s].fin
  <2>1. net[s] \in NetData
    BY Zenon, <1>1 DEF Inv, Typed
  <2> HIDE DEF s
  <2> QED BY <2>1, Zenon DEF NetData
<1>5. /\ Changed(Socks, tbl, tbl', i, x)
      /\ tbl'.assoc = IF tbl.e[i].st = "SockAssociated" THEN tbl.assoc - 1 ELSE tbl.assoc
  <2>1. tbl \in Tables(Socks)
    BY Zenon DEF Inv, Typed
  <2> QED BY <1>2, <2>1, SetSocketClosedLemma, Zenon
<1>6. x.st = "SockClosed" /\ x.owner = s /\ x.index = tbl.e[i].index
  BY <1>1 DEF Entries
<1> HIDE DEF k, x
<1>7. /\ sock[s] \in SockData /\ Calm(sock[s], sock[s]) /\ FinOK(sock[s], k)
      /\ sock' = [sock EXCEPT ![s] = sock[s]]
  <2>1. sock[s] \in SockData /\ Calm(sock[s], sock[s]) /\ sock' = [sock EXCEPT ![s] = sock[s]]
    BY <1>1, Zenon DEF Inv, Typed, Calm
  <2> QED BY <1>1, <1>4, <2>1, CalmFin, Zenon DEF FinOK
<1>8. sock' \in [Socks -> SockData] /\ net' \in [Socks -> NetData] /\ FinInv'
  BY <1>1, <1>2, <1>4, <1>7, OneSocket, Zenon
<1>9. Kept
  BY Zenon, <1>5, <1>6, KeptChanged DEF isUsed, Used
<1>10. PICK p \in {"inError", "inClose"} :
        /\ loop' = [loop EXCEPT !.pc = p]
        /\ reported' = IF p = "inError" THEN reported ELSE reported \cup {s}
  BY <1>3
<1>11. loop' \in Loops /\ loop'.i = loop.i /\ loop'.pc = p /\ loop'.todo = loop.todo
  <2>1. loop \in Loops /\ p \in Pcs
    BY DEF Inv, Typed, Pcs, UserPcs
  <2> QED BY <1>10, <2>1, WithPc, Zenon
<1>12. Typed'
  BY <1>1, <1>8, <1>9, <1>10, <1>11, ZenonT(60) DEF Inv, Typed, Kept
<1>13. LoopInv'
  BY <1>5, <1>11 DEF Inv, LoopInv, Changed, Places, Dispatching, Reporting
<1>14. OwnerInv'
  BY <1>9, KeptOwner
<1>15. PolledAsNeeded'
  <2>1. Polls(x, sock'[x.owner])
    BY <1>6, ZenonT(60) DEF Polls
  <2> QED BY <1>1, <1>5, <1>6, <1>7, <2>1, PolledChanged, Zenon
<1>16. CountInv'
  <2>1. IF tbl.e[i].st = "SockAssociated" THEN NAssociated(tbl') = NAssociated(tbl) - 1
                                          ELSE NAssociated(tbl') = NAssociated(tbl)
    BY <1>5, <1>6, AssociatedChanged, Zenon DEF Inv, Typed
  <2>2. tbl'.e[Head(loop'.todo)].st = "SockClosed"
    BY <1>5, <1>6, <1>11, Zenon DEF Changed
  <2> QED BY <1>5, <2>1, <2>2 DEF Inv, CountInv, NoneGone
<1>17. ReportInv'
  <2>1. \A j \in Places(tbl) : isUsed(tbl, j) => tbl.e[j].owner \notin reported
    BY Zenon DEF Inv, ReportInv
  <2>2. /\ Places(tbl') = Places(tbl)
        /\ \A j \in Places(tbl) : /\ tbl'.e[j].owner = tbl.e[j].owner
                                  /\ isUsed(tbl', j) => isUsed(tbl, j)
    BY <1>9, Zenon DEF Kept, Places
  <2>3. \A r \in reported' : obj'[r] # "none"
    BY <1>1, <1>10, Zenon DEF Inv, ReportInv
  <2>4. ASSUME NEW j \in Places(tbl'), isUsed(tbl', j), tbl'.e[j].owner \in reported'
        PROVE  loop'.pc = "inClose" /\ j = Head(loop'.todo)
    <3>1. isUsed(tbl, j) /\ tbl.e[j].owner \in reported' /\ tbl.e[j].owner \notin reported
      BY <2>1, <2>2, <2>4
    <3>2. p = "inClose" /\ tbl.e[j].owner = s
      BY <1>10, <3>1, Zenon
    <3>3. sock[tbl.e[j].owner].idx = j
      BY <2>2, OwnerOf
    <3> QED BY <1>1, <1>11, <3>2, <3>3, ZenonT(60)
  <2>5. loop'.pc \notin Dispatching
    BY <1>11 DEF Dispatching
  <2>6. loop'.pc = "inError" => tbl'.e[Head(loop'.todo)].owner \notin reported'
    BY <1>10, <1>11, <2>1, <2>2
  <2> QED BY <2>3, <2>4, <2>5, <2>6, Zenon DEF ReportInv
<1> QED BY <1>8, <1>12, <1>13, <1>14, <1>15, <1>16, <1>17, Zenon DEF Inv

(* The next index of the queue of close events. *)
LEMMA TailLemma ==
  ASSUME Inv, loop.todo # <<>>, loop' = [loop EXCEPT !.pc = "closing", !.todo = Tail(@)]
  PROVE  loop' \in Loops /\ loop'.i = loop.i /\ loop'.pc = "closing"
<1> DEFINE q == Tail(loop.todo)
<1>1. loop \in Loops
  BY DEF Inv, Typed
<1>2. q \in Seq(Nat)
  BY <1>1 DEF Loops
<1>3. loop' = [loop EXCEPT !.pc = "closing", !.todo = q]
  OBVIOUS
<1> HIDE DEF q
<1> QED BY <1>1, <1>2, <1>3, Zenon DEF Loops, Pcs

(* One element of the queue of close events keeps Inv. *)
LEMMA CloseEventInv ==
  ASSUME Laws, Inv, CloseEvent
  PROVE  Inv'
<1> DEFINE i == Head(loop.todo)
<1>1. loop.pc = "closing" /\ loop.todo # <<>>
  BY Zenon DEF CloseEvent
<1>2. CASE isValidId(tbl, i) /\ isUsed(tbl, i)
  <2>1. CloseBehind(i, tbl.e[i].owner) /\ UNCHANGED <<obj, sock, pending>>
    BY <1>2, Zenon DEF CloseEvent
  <2>2. i \in Places(tbl)
    BY <1>2 DEF isValidId, Places
  <2> QED BY <1>1, <1>2, <2>1, <2>2, CloseBehindInv, Zenon
<1>3. CASE ~(isValidId(tbl, i) /\ isUsed(tbl, i))
  <2>1. /\ loop' = [loop EXCEPT !.todo = Tail(@)]
        /\ UNCHANGED <<obj, sock, net, tbl, pending, reported>>
    BY <1>3, Zenon DEF CloseEvent
  <2>2. loop' = [loop EXCEPT !.pc = "closing", !.todo = Tail(@)]
    BY <1>1, <2>1, Zenon DEF Inv, Typed, Loops
  <2>3. loop' \in Loops /\ loop'.i = loop.i /\ loop'.pc = "closing"
    BY <1>1, <2>2, TailLemma
  <2>4. LoopInv' /\ Moves
    BY <1>1, <2>1, <2>3 DEF Inv, LoopInv, Moves, Dispatching, Reporting
  <2> QED BY <2>1, <2>3, <2>4, LoopOnly
<1> QED BY <1>2, <1>3

(* The close handlers that follow the error handlers keep Inv. *)
LEMMA ErrorHandledInv ==
  ASSUME Inv, ErrorHandled
  PROVE  Inv'
<1> DEFINE i == Head(loop.todo)
           s == tbl.e[i].owner
<1>1. CASE obj[s] # "live"
  BY <1>1, Stutters, Zenon DEF ErrorHandled, Fail, core
<1>2. CASE obj[s] = "live"
  <2>1. /\ loop.pc = "inError" /\ loop' = [loop EXCEPT !.pc = "inClose"]
        /\ reported' = reported \cup {s} /\ UNCHANGED <<obj, sock, net, tbl, pending>>
    BY <1>2, Zenon DEF ErrorHandled, ReportClose, Goto
  <2>2. i \in Places(tbl) /\ loop.todo # <<>>
    BY <2>1 DEF Inv, LoopInv, Reporting
  <2>3. s \in Socks /\ obj[s] # "none" /\ sock[s].idx = i
    BY <2>2, OwnerOf
  <2>4. /\ loop' \in Loops /\ loop'.i = loop.i /\ loop'.pc = "inClose"
        /\ loop'.todo = loop.todo
    <3>1. loop \in Loops /\ "inClose" \in Pcs
      BY Zenon DEF Inv, Typed, Pcs, UserPcs
    <3> QED BY <2>1, <3>1, WithPc
  <2>5. Typed'
    BY Zenon, <2>1, <2>3, <2>4 DEF Inv, Typed
  <2>6. LoopInv'
    BY <2>1, <2>2, <2>4, Zenon DEF Inv, LoopInv, Dispatching, Reporting
  <2>7. OwnerInv' /\ PolledAsNeeded' /\ FinInv'
    BY <2>1 DEF Inv, OwnerInv, PolledAsNeeded, FinInv
  <2>8. CountInv'
    BY <2>1, <2>4, Zenon DEF Inv, CountInv, NoneGone, Reporting
  <2>9. ReportInv'
    <3>1. \A r \in reported' : obj'[r] # "none"
      BY <2>1, <2>3, Zenon DEF Inv, ReportInv
    <3>2. ASSUME NEW j \in Places(tbl), isUsed(tbl, j), tbl.e[j].owner \in reported'
          PROVE  j = i
      <4>1. tbl.e[j].owner \notin reported
        BY <2>1, <3>2 DEF Inv, ReportInv
      <4>2. sock[tbl.e[j].owner].idx = j
        BY OwnerOf
      <4> QED BY <2>1, <2>3, <3>2, <4>1, <4>2, Zenon
    <3>3. loop'.pc \notin Dispatching /\ loop'.pc # "inError"
      BY <2>4 DEF Dispatching
    <3> QED BY <2>1, <2>4, <3>1, <3>2, <3>3, Zenon DEF ReportInv
  <2> QED BY <2>5, <2>6, <2>7, <2>8, <2>9 DEF Inv
<1> QED BY <1>1, <1>2

(* The reset of the entry after the close handlers keeps Inv. *)
LEMMA CloseHandledInv ==
  ASSUME Laws, Inv, CloseHandled
  PROVE  Inv'
<1> DEFINE i == Head(loop.todo)
           s == tbl.e[i].owner
           x == [tbl.e[i] EXCEPT !.st = "Unused", !.index = i]
<1>1. CASE obj[s] # "live"
  BY <1>1, Stutters, Zenon DEF CloseHandled, Fail, core
<1>2. CASE obj[s] = "live"
  <2>1. /\ loop.pc = "inClose" /\ tbl' = resetEntry(tbl, i)
        /\ sock' = (IF isUsed(tbl, i) THEN [sock EXCEPT ![s].st = "Closed"] ELSE sock)
        /\ loop' = [loop EXCEPT !.pc = "closing", !.todo = Tail(@)]
        /\ UNCHANGED <<obj, net, pending, reported>>
    BY <1>2, Zenon DEF CloseHandled
  <2>2. i \in Places(tbl) /\ loop.todo # <<>> /\ tbl \in Tables(Socks)
    BY <2>1, Zenon DEF Inv, Typed, LoopInv, Reporting
  <2>3. s \in Socks /\ obj[s] # "none" /\ sock[s].idx = i /\ tbl.e[i] \in Entries(Socks)
    BY <2>2, OwnerOf
  <2>4. loop' \in Loops /\ loop'.i = loop.i /\ loop'.pc = "closing"
    BY <2>1, <2>2, TailLemma, Zenon
  <2>5. sock[s] \in SockData /\ Calm(sock[s], sock[s]) /\ net[s] \in NetData
    BY <2>3, Zenon DEF Inv, Typed, Calm
  <2>6. \E f \in SockData : sock' = [sock EXCEPT ![s] = f] /\ Calm(sock[s], f)
    <3>1. CASE ~isUsed(tbl, i)
      BY <2>1, <2>5, <3>1, Zenon DEF Inv, Typed
    <3>2. CASE isUsed(tbl, i)
      <4> DEFINE f == [sock[s] EXCEPT !.st = "Closed"]
      <4>1. "Closed" \in States
        BY DEF States
      <4>2. /\ f \in SockData /\ f.st = "Closed" /\ f.idx = sock[s].idx
            /\ f.rend = sock[s].rend /\ f.wbuf = sock[s].wbuf
        BY <2>5, <4>1, WithState, Zenon
      <4>3. sock' = [sock EXCEPT ![s] = f]
        BY Zenon, <2>1, <3>2
      <4> HIDE DEF f
      <4>4. Calm(sock[s], f)
        BY <4>2, Zenon DEF Calm
      <4> QED BY <4>2, <4>3, <4>4, Zenon
    <3> QED BY <3>1, <3>2
  <2>7. PICK f \in SockData : sock' = [sock EXCEPT ![s] = f] /\ Calm(sock[s], f)
    BY <2>6, Zenon
  <2>8. FinOK(f, net[s]) /\ net' = [net EXCEPT ![s] = net[s]]
    BY <2>1, <2>3, <2>7, CalmFin, Zenon DEF Inv, Typed
  <2>9. sock' \in [Socks -> SockData] /\ net' \in [Socks -> NetData] /\ FinInv'
    BY <2>1, <2>3, <2>5, <2>7, <2>8, OneSocket, Zenon
  <2>10. Changed(Socks, tbl, tbl', i, x) /\ tbl'.assoc = tbl.assoc
    BY <2>1, <2>2, ResetEntryLemma, Zenon
  <2>11. x.st = "Unused" /\ x.owner = s
    BY <2>3, Zenon DEF Entries
  <2> HIDE DEF x
  <2>12. Kept
    BY <2>2, <2>10, <2>11, KeptChanged
  <2>13. Typed'
    BY <2>1, <2>4, <2>9, <2>12, Zenon DEF Inv, Typed, Kept
  <2>14. LoopInv'
    BY <2>1, <2>4, <2>10, Zenon DEF Inv, LoopInv, Changed, Dispatching, Reporting
  <2>15. \A r \in Socks : sock'[r].idx = sock[r].idx
    BY <2>7, Zenon DEF Inv, Typed, Calm
  <2>16. OwnerInv'
    BY <2>1, <2>12, <2>15, KeptOwner, Zenon
  <2>17. PolledAsNeeded'
    <3>1. Polls(x, sock'[x.owner])
      BY <2>11 DEF Polls
    <3> QED BY <2>2, <2>3, <2>7, <2>10, <2>11, <3>1, PolledChanged, ZenonT(60)
  <2>18. CountInv'
    <3>1. NoneGone => tbl.e[i].st = "SockClosed"
      BY <2>1, Zenon DEF Inv, CountInv, Reporting
    <3>2. NoneGone => NAssociated(tbl') = NAssociated(tbl)
      BY <2>2, <2>10, <2>11, <3>1, AssociatedChanged
    <3> QED BY <2>1, <2>4, <2>10, <3>2, Zenon DEF Inv, CountInv, NoneGone,
               Reporting
  <2>19. ReportInv'
    <3>1. ASSUME NEW j \in Places(tbl'), isUsed(tbl', j)
          PROVE  tbl'.e[j].owner \notin reported'
      <4>1. j \in Places(tbl) /\ j # i
        BY <2>10, <2>11, <3>1 DEF Changed, Places, isUsed, Used
      <4>2. tbl'.e[j] = tbl.e[j]
        BY <2>10, <4>1 DEF Changed
      <4> QED BY <2>1, <3>1, <4>1, <4>2, Zenon DEF Inv, ReportInv, isUsed
    <3>2. loop'.pc \notin Dispatching /\ loop'.pc # "inError"
      BY <2>4 DEF Dispatching
    <3> QED BY <2>1, <3>1, <3>2, Zenon DEF Inv, ReportInv
  <2> QED BY <2>9, <2>13, <2>14, <2>16, <2>17, <2>18, <2>19 DEF Inv
<1> QED BY <1>1, <1>2

-----------------------------------------------------------------------------
(* The end of an iteration.                                                *)

(* Each entry of t is one of the table before, for a socket of its own. *)
Reworked(t) ==
  /\ t \in Tables(Socks) /\ Fits(t)
  /\ t.assoc = tbl.assoc /\ NAssociated(t) = NAssociated(tbl)
  /\ \A j \in Places(t) : \E m \in Places(tbl) :
       /\ t.e[j].st = tbl.e[m].st /\ t.e[j].owner = tbl.e[m].owner
       /\ t.e[j].fd = tbl.e[m].fd /\ t.e[j].ev = tbl.e[m].ev
  /\ \A j, k \in Places(t) : t.e[j].owner = t.e[k].owner => j = k
  /\ \A j \in Places(t) : IF isUsed(t, j) THEN t.e[j].index = j
                                           ELSE sock[t.e[j].owner].idx = j

(* Joining the accumulated entries loses none and renumbers none. *)
LEMMA JoinedReworked ==
  ASSUME Laws, Inv
  PROVE  Reworked(Joined(tbl))
<1> DEFINE t == Joined(tbl)
<1>1. /\ t \in Tables(Socks) /\ Fits(t) /\ t.e = tbl.e /\ t.assoc = tbl.assoc
  BY JoinedLemma DEF Inv, Typed
<1> HIDE DEF t
<1>2. Places(t) = Places(tbl) /\ NAssociated(t) = NAssociated(tbl)
  BY <1>1 DEF Places, NAssociated, Associated
<1>3. \A j, k \in Places(t) : t.e[j].owner = t.e[k].owner => j = k
  BY <1>1, <1>2, OwnerOf
<1>4. \A j \in Places(t) : IF isUsed(t, j) THEN t.e[j].index = j
                                           ELSE sock[t.e[j].owner].idx = j
  BY <1>1, <1>2, Zenon DEF Inv, OwnerInv, isUsed
<1>5. Reworked(t)
  BY <1>1, <1>2, <1>3, <1>4 DEF Reworked
<1> QED BY <1>5 DEF t

(* Compaction loses no used entry, and every owner has one at most. *)
LEMMA CompactedReworked ==
  ASSUME Laws, Inv
  PROVE  Reworked(Compacted(Joined(tbl)))
<1> DEFINE v == Joined(tbl)
           t == Compacted(v)
           n == NUsed(v)
           F(k) == MovedFrom(v, k)
<1>1. v \in Tables(Socks) /\ v.e = tbl.e /\ v.assoc = tbl.assoc
  BY JoinedLemma DEF Inv, Typed
<1> HIDE DEF v
<1>2. /\ t \in Tables(Socks) /\ Fits(t) /\ Len(t.e) = n /\ t.assoc = v.assoc
      /\ \A k \in 1 .. n : t.e[k] = [v.e[MovedFrom(v, k)] EXCEPT !.index = k]
  BY <1>1, CompactedLemma
<1>3. NAssociated(t) = NAssociated(v)
  BY <1>1, AssociatedCompacted, Zenon
<1>4. /\ \A k \in 1 .. n : F(k) \in Places(v) /\ isUsed(v, F(k))
      /\ \A j, k \in 1 .. n : F(j) = F(k) => j = k
  BY <1>1, MovedLemma
<1> HIDE DEF t, n, F
<1>5. Places(v) = Places(tbl) /\ Places(t) = 1 .. n /\ NAssociated(v) = NAssociated(tbl)
  BY <1>1, <1>2, Zenon DEF Places, NAssociated, Associated
<1>6. ASSUME NEW k \in Places(t)
      PROVE  /\ F(k) \in Places(tbl) /\ isUsed(tbl, F(k))
             /\ t.e[k].st = tbl.e[F(k)].st /\ t.e[k].owner = tbl.e[F(k)].owner
             /\ t.e[k].fd = tbl.e[F(k)].fd /\ t.e[k].ev = tbl.e[F(k)].ev
             /\ t.e[k].index = k
  <2> DEFINE m == F(k)
             en == tbl.e[m]
  <2>1. m \in Places(tbl) /\ isUsed(tbl, m)
    BY <1>1, <1>4, <1>5 DEF isUsed
  <2>2. t.e[k] = [tbl.e[m] EXCEPT !.index = k]
    BY <1>1, <1>2, <1>5, Zenon DEF F
  <2>3. en \in Entries(Socks)
    BY <2>1, OwnerOf
  <2> HIDE DEF m, en
  <2>4. t.e[k] = [en EXCEPT !.index = k]
    BY <2>2 DEF en
  <2>5. /\ t.e[k].st = en.st /\ t.e[k].owner = en.owner /\ t.e[k].fd = en.fd
        /\ t.e[k].ev = en.ev /\ t.e[k].index = k
    BY <2>3, <2>4, Zenon DEF Entries
  <2> QED BY <2>1, <2>5, Zenon DEF m, en
<1>7. \A j, k \in Places(t) : t.e[j].owner = t.e[k].owner => j = k
  <2> SUFFICES ASSUME NEW j \in Places(t), NEW k \in Places(t),
                      t.e[j].owner = t.e[k].owner
               PROVE  j = k
    BY Zenon
  <2>1. sock[tbl.e[F(j)].owner].idx = F(j) /\ sock[tbl.e[F(k)].owner].idx = F(k)
    BY <1>6, OwnerOf, Zenon
  <2>2. F(j) = F(k)
    BY <1>6, <2>1
  <2> QED BY <1>4, <1>5, <2>2
<1>8. \A j \in Places(t) : isUsed(t, j)
  BY <1>6 DEF isUsed, Used
<1>9. Reworked(t)
  BY SMTT(30), <1>1, <1>2, <1>3, <1>5, <1>6, <1>7, <1>8 DEF Reworked
<1> QED BY <1>9 DEF t, v

(* reworkIfNecessary at the end of the iteration keeps Inv: objects get    *)
(* the index their entry has moved to.                                     *)
LEMMA EndIterationInv ==
  ASSUME Laws, Inv, EndIteration
  PROVE  Inv'
<1> DEFINE t == reworkIfNecessary(tbl)
           Mine(s, i) == isUsed(t, i) /\ t.e[i].owner = s
<1>1. CASE UNCHANGED core
  BY <1>1, Stutters
<1>2. CASE ~UNCHANGED core
  <2>1. /\ loop.pc = "closing" /\ pending' = <<>> /\ tbl' = t
        /\ sock' = [s \in Socks |->
             IF \E i \in 1 .. Len(t.e) : Mine(s, i)
             THEN [sock[s] EXCEPT !.idx = CHOOSE i \in 1 .. Len(t.e) : Mine(s, i)]
             ELSE sock[s]]
        /\ loop' = [loop EXCEPT !.pc = "timers"] /\ UNCHANGED <<obj, net, reported>>
    BY <1>2, Zenon DEF EndIteration, Fail, core, Goto
  <2>2. Reworked(t)
    BY JoinedReworked, CompactedReworked, Zenon DEF reworkIfNecessary
  <2> HIDE DEF t
  <2>3. /\ t \in Tables(Socks) /\ Fits(t)
        /\ t.assoc = tbl.assoc /\ NAssociated(t) = NAssociated(tbl)
    BY <2>2, ZenonT(60) DEF Reworked
  <2>4. ASSUME NEW s \in Socks
        PROVE  /\ sock'[s] \in SockData
               /\ sock'[s].st = sock[s].st /\ sock'[s].wbuf = sock[s].wbuf
               /\ sock'[s].rend = sock[s].rend
               /\ IF \E i \in Places(t) : Mine(s, i)
                  THEN sock'[s].idx \in Places(t) /\ Mine(s, sock'[s].idx)
                  ELSE sock'[s].idx = sock[s].idx
    <3>1. sock[s] \in SockData
      BY DEF Inv, Typed
    <3>2. CASE \E i \in Places(t) : Mine(s, i)
      <4> DEFINE c == CHOOSE i \in 1 .. Len(t.e) : Mine(s, i)
      <4>1. c \in Places(t) /\ Mine(s, c)
        BY <3>2 DEF Places
      <4>2. sock'[s] = [sock[s] EXCEPT !.idx = c]
        BY <2>1, <3>2 DEF Places
      <4> HIDE DEF c, Mine
      <4>3. c \in Nat
        BY SMTT(30), <4>1 DEF Places
      <4> QED BY <3>1, <3>2, <4>1, <4>2, <4>3 DEF SockData
    <3>3. CASE ~\E i \in Places(t) : Mine(s, i)
      <4>1. sock'[s] = sock[s]
        BY <2>1, <3>3, ZenonT(60) DEF Places
      <4> QED BY <3>1, <3>3, <4>1
    <3> QED BY <3>2, <3>3
  <2>5. ASSUME NEW j \in Places(t)
        PROVE  \E m \in Places(tbl) :
                 /\ t.e[j].st = tbl.e[m].st /\ t.e[j].owner = tbl.e[m].owner
                 /\ t.e[j].fd = tbl.e[m].fd /\ t.e[j].ev = tbl.e[m].ev
    BY <2>2 DEF Reworked
  <2>6. loop' \in Loops /\ loop'.i = loop.i /\ loop'.pc = "timers"
    <3>1. loop \in Loops /\ "timers" \in Pcs
      BY DEF Inv, Typed, Pcs, UserPcs
    <3> QED BY <2>1, <3>1, WithPc
  <2>7. Typed'
    <3>1. sock' \in [Socks -> SockData]
      <4>1. DOMAIN sock' = Socks /\ sock' = [s \in Socks |-> sock'[s]]
        BY <2>1
      <4> QED BY <2>4, <4>1
    <3>2. pending' \in Seq(Nat)
      BY <2>1, NoElements
    <3> QED BY <2>1, <2>3, <2>6, <3>1, <3>2, Zenon DEF Inv, Typed
  <2>8. LoopInv'
    <3>1. loop.i = 0 /\ tbl'.main \in Nat
      BY <2>1, <2>3, Zenon DEF Inv, LoopInv, Dispatching, Tables
    <3> QED BY <2>6, <3>1 DEF LoopInv, Dispatching, Reporting
  <2>9. OwnerInv'
    <3>1. SUFFICES ASSUME NEW j \in Places(t)
                   PROVE  /\ obj[t.e[j].owner] # "none"
                          /\ sock'[t.e[j].owner].idx = j
                          /\ isUsed(t, j) => obj[t.e[j].owner] = "live" /\ t.e[j].index = j
      BY <2>1, Zenon DEF OwnerInv
    <3>2. PICK m \in Places(tbl) : t.e[j].st = tbl.e[m].st /\ t.e[j].owner = tbl.e[m].owner
      BY <2>5, Zenon
    <3> DEFINE o == t.e[j].owner
    <3>3. o \in Socks /\ obj[o] # "none"
      BY <3>2, OwnerOf, Zenon
    <3>4. isUsed(t, j) => obj[o] = "live" /\ t.e[j].index = j
      <4>1. isUsed(t, j) => isUsed(tbl, m)
        BY <3>2, Zenon DEF isUsed, Used
      <4>2. isUsed(t, j) => t.e[j].index = j
        BY SMTT(30), <2>2 DEF Reworked
      <4> QED BY <3>2, <4>1, <4>2 DEF Inv, OwnerInv
    <3>5. sock'[o].idx = j
      <4>1. CASE \E i \in Places(t) : Mine(o, i)
        <5>1. sock'[o].idx \in Places(t) /\ Mine(o, sock'[o].idx)
          BY <2>4, <3>3, <4>1, ZenonT(60)
        <5> QED BY <2>2, <5>1, Zenon DEF Reworked
      <4>2. CASE ~\E i \in Places(t) : Mine(o, i)
        <5>1. ~isUsed(t, j)
          BY <4>2, Zenon
        <5>2. sock[o].idx = j
          BY <2>2, <5>1, Zenon DEF Reworked
        <5> QED BY <2>4, <3>3, <4>2, <5>2
      <4> QED BY <4>1, <4>2
    <3> QED BY <3>3, <3>4, <3>5
  <2>10. PolledAsNeeded'
    <3>1. SUFFICES ASSUME NEW j \in Places(t)
                   PROVE  Polls(t.e[j], sock'[t.e[j].owner])
      BY <2>1 DEF PolledAsNeeded, Polls, Places
    <3>2. PICK m \in Places(tbl) :
                 /\ t.e[j].st = tbl.e[m].st /\ t.e[j].owner = tbl.e[m].owner
                 /\ t.e[j].fd = tbl.e[m].fd /\ t.e[j].ev = tbl.e[m].ev
      BY <2>5, Zenon
    <3>3. Polls(tbl.e[m], sock[tbl.e[m].owner])
      BY Zenon DEF Inv, PolledAsNeeded, Polls, Places
    <3>4. tbl.e[m].owner \in Socks
      BY OwnerOf, Zenon
    <3> QED BY <2>4, <3>2, <3>3, <3>4, ZenonT(60) DEF Polls
  <2>11. FinInv'
    BY <2>1, <2>4 DEF Inv, FinInv
  <2>12. CountInv'
    BY <2>1, <2>3, <2>6 DEF Inv, CountInv, NoneGone, Reporting
  <2>13. ReportInv'
    <3>1. ASSUME NEW j \in Places(t), isUsed(t, j)
          PROVE  t.e[j].owner \notin reported
      <4>1. PICK m \in Places(tbl) : t.e[j].st = tbl.e[m].st /\ t.e[j].owner = tbl.e[m].owner
        BY <2>5
      <4>2. isUsed(tbl, m)
        BY <3>1, <4>1 DEF isUsed, Used
      <4> QED BY <2>1, <4>1, <4>2 DEF Inv, ReportInv
    <3>2. loop'.pc \notin Dispatching /\ loop'.pc # "inError"
      BY <2>6 DEF Dispatching
    <3> QED BY <2>1, <3>1, <3>2 DEF Inv, ReportInv
  <2> QED BY SMTT(30), <2>7, <2>8, <2>9, <2>10, <2>11, <2>12, <2>13 DEF Inv
<1> QED BY <1>1, <1>2

(* Every step keeps Inv. *)
LEMMA NextInv ==
  ASSUME Laws, Inv, [Next]_vars
  PROVE  Inv'
<1>1. CASE UNCHANGED vars
  BY <1>1, Stutters DEF vars, core
<1>2. CASE UserCode
  BY <1>2, UserCodeInv
<1>3. CASE Network
  BY <1>3, NetworkInv
<1>4. CASE LoopStep \/ PollTimeout
  BY <1>4, SimpleInv, PollInv, DispatchInv, EndHandledInv, WriteEventInv,
     CloseEventInv, ErrorHandledInv, CloseHandledInv, EndIterationInv, Zenon DEF LoopStep
<1> QED BY <1>1, <1>2, <1>3, <1>4 DEF Next

(* The application makes no more calls than the bound. *)
LEMMA CallsBounded == Spec => [](calls \in 0 .. MaxCalls)
<1> DEFINE Bounded == calls \in 0 .. MaxCalls
<1>1. Init => Bounded
  <2>1. Init => calls = 0
    BY Zenon DEF Init
  <2> QED BY <2>1, BoundsAssumption
<1>2. Bounded /\ [Next]_vars => Bounded'
  <2> SUFFICES ASSUME Bounded, [Next]_vars PROVE Bounded'
    OBVIOUS
  <2>1. calls' = calls \/ (calls < MaxCalls /\ calls' = calls + 1)
    BY Zenon DEF Next, UserCode, Network, LoopStep, vars
  <2> QED BY <2>1, BoundsAssumption
<1> HIDE DEF Bounded
<1>3. Spec => []Bounded
  BY <1>1, <1>2, PTL DEF Spec
<1> QED BY <1>3 DEF Bounded

-----------------------------------------------------------------------------
(* Nothing but a close event adds to the sockets whose close event has     *)
(* been reported, and nothing else starts close handlers.                  *)
LEMMA OnlyCloseReports ==
  ASSUME Inv, [Next]_vars
  PROVE  \/ CloseEvent \/ ErrorHandled
         \/ reported' = reported /\ (loop' = loop \/ loop'.pc # "inClose")
<1> DEFINE Other == reported' = reported /\ (loop' = loop \/ loop'.pc # "inClose")
<1>1. loop \in Loops
  BY DEF Inv, Typed
<1>2. CASE UNCHANGED vars
  BY <1>2 DEF vars
<1>3. CASE UserCode
  <2>1. PICK s \in Socks :
          \/ createSocket(s) \/ connect(s) \/ write(s) \/ end(s) \/ destroy(s)
          \/ setOptionFails(s) \/ dropSocket(s)
          \/ \E on \in BOOLEAN : setPaused(s, on)
    BY <1>3 DEF UserCode
  <2>2. UNCHANGED <<reported, loop>>
    BY <2>1, Zenon DEF createSocket, connect, write, end, destroy,
       setOptionFails, dropSocket,
         setPaused, BufferFirst, Fail
  <2> QED BY <2>2
<1>4. CASE Network
  BY <1>4, Zenon DEF Network
<1>5. CASE TimersDone \/ NothingToPoll \/ OutHandled \/ EndIteration
  BY <1>1, <1>5, Zenon DEF TimersDone, NothingToPoll, OutHandled, EndIteration,
     Goto,
     Fail, Loops
<1>6. CASE Poll \/ PollTimeout \/ Dispatched \/ ImmediatesDone \/ CloseHandled
  BY <1>1, <1>6, Zenon DEF Poll, PollTimeout, Returns, Dispatched,
     ImmediatesDone, CloseHandled,
       Fail, Loops
<1>7. CASE DataHandled \/ EndHandled
  BY <1>1, <1>7, AfterInputLemma, Zenon DEF DataHandled, EndHandled, Fail
<1>8. CASE WriteEvent
  <2>1. /\ reported' = reported
        /\ loop' = loop \/ loop' = [loop EXCEPT !.pc = "dispatch"]
             \/ loop' = [loop EXCEPT !.pc = "inOut"]
    BY <1>8, Zenon DEF WriteEvent, Fail, WriteFails, Connected, AllSent,
       PartSent, Goto
  <2> QED BY <1>1, <2>1 DEF Loops
<1>9. CASE Dispatch
  <2>1. CASE Ahead = {} \/ ~isUsed(tbl, Min(Ahead))
    BY <1>9, <2>1, Zenon DEF Dispatch, Fail
  <2>2. CASE ~(Ahead = {} \/ ~isUsed(tbl, Min(Ahead)))
    <3>1. PICK i, rev, s, n, b : LET at == [loop EXCEPT !.i = i, !.left = n, !.out = b]
                                 IN  CheckPollFdSet(i, rev, s, at) /\ reported' = reported
      BY <1>9, <2>2, Zenon DEF Dispatch
    <3> DEFINE at == [loop EXCEPT !.i = i, !.left = n, !.out = b]
    <3>2. loop' = at \/ loop' = [at EXCEPT !.pc = "inData"] \/ loop' = [at EXCEPT !.pc = "inEnd"]
          \/ loop' = AfterInput(at)
      BY <3>1 DEF CheckPollFdSet, ReadEvent, RemoteEnded
    <3>3. loop.pc = "dispatch"
      BY <1>9, Zenon DEF Dispatch
    <3>4. loop'.pc # "inClose"
      BY <1>1, <3>2, <3>3, Zenon DEF AfterInput, Loops
    <3> QED BY <3>1, <3>4
  <2> QED BY <2>1, <2>2
<1> QED BY <1>2, <1>3, <1>4, <1>5, <1>6, <1>7, <1>8, <1>9, Zenon DEF Next, LoopStep

-----------------------------------------------------------------------------
(* The facts about finite sets, from the library. *)
INSTANCE FiniteSetTheorems

(* The laws the lemmas above assume hold. *)
LEMMA LawsHold == Laws
<1>1. EmptyLaw /\ CountLaw
  BY FS_EmptySet, FS_CardinalityType DEF EmptyLaw, CountLaw
<1>2. SubsetLaw
  BY FS_Subset DEF SubsetLaw
<1>3. AddLaw
  BY FS_AddElement DEF AddLaw
<1>4. RemoveLaw
  BY FS_RemoveElement DEF RemoveLaw
<1>5. IntervalLaw
  BY FS_Interval DEF IntervalLaw
<1>6. PowersetLaw
  BY FS_SUBSET DEF PowersetLaw
<1>7. InjectionLaw
  BY FS_Injection DEF InjectionLaw
<1>8. LeastLaw
  <2> SUFFICES ASSUME NEW S \in SUBSET Nat, S # {}
               PROVE  Min(S) \in S /\ \A y \in S : Min(S) <= y
    BY DEF LeastLaw
  <2> DEFINE R == {ss \in Nat \X Nat : ss[1] < ss[2]}
  <2>1. IsWellFoundedOn(R, Nat)
    BY NatLessThanWellFounded DEF OpToRel
  <2>2. PICK x \in S : \A y \in S : ~(<<y, x>> \in R)
    BY <2>1, WFMin, Zenon
  <2>3. ASSUME NEW y \in S PROVE x <= y
    <3>1. ~(<<y, x>> \in R)
      BY <2>2
    <3>2. x \in Nat /\ y \in Nat
      OBVIOUS
    <3>3. ~(y < x)
      BY <3>1, <3>2
    <3> QED BY <3>2, <3>3
  <2> QED BY <2>3, Zenon DEF Min
<1> QED BY <1>1, <1>2, <1>3, <1>4, <1>5, <1>6, <1>7, <1>8, Zenon DEF Laws

(* The conjunction of the invariants above is inductive. *)
THEOREM Invariance == Spec => []Inv
<1>1. Inv /\ [Next]_vars => Inv'
  BY NextInv, LawsHold
<1> QED BY <1>1, InitInv, LawsHold, PTL DEF Spec

(* Sockets, connections, table and loop keep their types; the scan of      *)
(* pollPhase2 stays inside ourSide.                                        *)
THEOREM TypeCorrect == Spec => []TypeOK
<1>1. Inv /\ calls \in 0 .. MaxCalls => TypeOK
  <2> SUFFICES ASSUME Inv, calls \in 0 .. MaxCalls PROVE TypeOK
    BY Zenon
  <2>1. /\ obj \in [Socks -> {"none", "live", "gone"}]
        /\ pending \in Seq(Nat) /\ reported \subseteq Socks
    BY DEF Inv, Typed
  <2>2. sock \in [Socks -> SockData] /\ net \in [Socks -> NetData]
    BY DEF Inv, Typed
  <2>3. /\ DOMAIN tbl = {"e", "main", "cap", "assoc", "used"}
        /\ tbl.e \in Seq(Entries(Socks)) /\ tbl.main \in Nat /\ tbl.cap \in Nat
        /\ tbl.assoc \in Int /\ tbl.used \in Int
    <3>1. tbl \in Tables(Socks)
      BY DEF Inv, Typed
    <3> DEFINE S == Seq(Entries(Socks))
    <3>2. tbl \in [e : S, main : Nat, cap : Nat, assoc : Int, used : Int]
      BY <3>1 DEF Tables
    <3> HIDE DEF S
    <3>3. /\ DOMAIN tbl = {"e", "main", "cap", "assoc", "used"}
          /\ tbl.e \in S /\ tbl.main \in Nat /\ tbl.cap \in Nat
          /\ tbl.assoc \in Int /\ tbl.used \in Int
      BY <3>2
    <3> QED BY <3>3 DEF S
  <2>4. tbl.main \in 0 .. Len(tbl.e)
    BY <2>3 DEF Inv, Typed, Fits
  <2>5. /\ loop.pc \in Pcs /\ loop.i \in Nat /\ loop.left \in Nat /\ loop.out \in BOOLEAN
        /\ loop.todo \in Seq(Nat)
    BY Zenon DEF Inv, Typed, Loops
  <2>6. loop.i \in 0 .. tbl.main
    BY <2>3, <2>5 DEF Inv, LoopInv
  <2> QED BY <2>1, <2>2, <2>3, <2>4, <2>5, <2>6, Zenon DEF TypeOK, SockData, NetData,
             Pcs, Entries
<1> QED BY <1>1, Invariance, CallsBounded, PTL

(* A used entry belongs to a live socket object that knows it by its       *)
(* index, through reuse of slots, growth and compaction of the table.      *)
THEOREM EntriesPointBack == Spec => []EntryPointsBack
<1>1. Inv => EntryPointsBack
  BY Zenon DEF Inv, OwnerInv, EntryPointsBack, Places
<1> QED BY <1>1, Invariance, PTL

(* ourSideAccum is not empty only while ourSide is at its capacity. *)
THEOREM AccumulatesOnlyWhenFull == Spec => []AccumulatesWhenFull
<1>1. Inv => AccumulatesWhenFull
  BY DEF Inv, Typed, Fits, AccumulatesWhenFull
<1> QED BY <1>1, Invariance, PTL

(* poll() is asked for all that the sockets wait for. *)
THEOREM AlwaysPolledAsNeeded == Spec => []PolledAsNeeded
<1>1. Inv => PolledAsNeeded
  BY Zenon DEF Inv
<1> QED BY <1>1, Invariance, PTL

(* FIN never overtakes buffered bytes. *)
THEOREM FinNeverOvertakes == Spec => []FinAfterBuffered
<1>1. Inv => FinAfterBuffered
  BY Zenon DEF Inv, FinInv, FinAfterBuffered
<1> QED BY <1>1, Invariance, PTL

(* associatedCount is the number of polled entries while no socket object  *)
(* has been destroyed.                                                     *)
THEOREM AssociatedCounted == Spec => []AssociatedCountRight
<1>1. Inv => AssociatedCountRight
  BY DEF Inv, CountInv, AssociatedCountRight, NoneGone, NAssociated, Associated,
     Places
<1> QED BY <1>1, Invariance, PTL

(* A socket whose close event has been reported reports no event any more: *)
(* not a second close event, and none of the other events.                 *)
THEOREM SilentAfterClose == Spec => NothingAfterClose
<1> DEFINE Enters == loop'.pc \in UserPcs \ {"timers", "immediate"} /\ loop'.pc # loop.pc
<1>1. Inv /\ Inv' /\ [Next]_vars => [Enters => Current' \notin reported]_vars
  <2> SUFFICES ASSUME Inv, Inv', [Next]_vars, Enters
               PROVE  Current' \notin reported
    OBVIOUS
  <2>1. loop'.pc \in Dispatching \cup {"inError", "inClose"}
    BY DEF UserPcs, Dispatching
  <2>2. reported \subseteq reported'
    <3>1. CASE CloseEvent
      BY <3>1, Zenon DEF CloseEvent, CloseBehind, ReportClose
    <3>2. CASE ErrorHandled
      BY <3>2, Zenon DEF ErrorHandled, ReportClose, Fail
    <3> QED BY <3>1, <3>2, OnlyCloseReports
  <2>3. CASE loop'.pc \in Dispatching
    <3>1. Current' = tbl'.e[loop'.i].owner
      BY <2>3, Zenon DEF Current, Dispatching
    <3> QED BY SMTT(30), <2>2, <2>3, <3>1 DEF Inv, ReportInv
  <2>4. CASE loop'.pc = "inError"
    <3>1. Current' = tbl'.e[Head(loop'.todo)].owner
      BY <2>4 DEF Current
    <3> QED BY <2>2, <2>4, <3>1, Zenon DEF Inv, ReportInv
  <2>5. CASE loop'.pc = "inClose"
    <3>1. Current' = tbl'.e[Head(loop'.todo)].owner
      BY <2>5, Zenon DEF Current
    <3>2. loop \in Loops /\ loop.pc # "inClose"
      BY <2>5 DEF Inv, Typed
    <3>3. CloseEvent \/ ErrorHandled
      BY <2>5, <3>2, OnlyCloseReports, Zenon
    <3>4. CASE ErrorHandled
      <4>1. /\ loop.pc = "inError" /\ tbl' = tbl
            /\ loop' = loop \/ loop' = [loop EXCEPT !.pc = "inClose"]
        BY <3>4, Zenon DEF ErrorHandled, ReportClose, Goto, Fail
      <4>2. loop'.todo = loop.todo
        BY <3>2, <4>1, Zenon DEF Loops
      <4> QED BY SMTT(30), <3>1, <4>1, <4>2 DEF Inv, ReportInv
    <3>5. CASE CloseEvent
      <4> DEFINE i == Head(loop.todo)
      <4>1. loop.pc = "closing" /\ loop.todo # <<>>
        BY <3>5, Zenon DEF CloseEvent
      <4>2. isValidId(tbl, i) /\ isUsed(tbl, i)
        <5> SUFFICES ASSUME ~(isValidId(tbl, i) /\ isUsed(tbl, i)) PROVE FALSE
          OBVIOUS
        <5>1. loop' = [loop EXCEPT !.todo = Tail(@)]
          BY <3>5, Zenon DEF CloseEvent
        <5> QED BY <2>5, <3>2, <5>1 DEF Loops
      <4>3. CloseBehind(i, tbl.e[i].owner)
        BY <3>5, <4>2, Zenon DEF CloseEvent
      <4>4. i \in Places(tbl) /\ tbl \in Tables(Socks)
        BY <4>2, ZenonT(60) DEF isValidId, Places, Inv, Typed
      <4>5. tbl.e[i].owner \notin reported
        BY SMTT(30), <4>1, <4>2, <4>4 DEF Inv, ReportInv
      <4>6. loop'.todo = loop.todo
        <5>1. loop' = [loop EXCEPT !.pc = "inError"] \/ loop' = [loop EXCEPT !.pc = "inClose"]
          BY <4>3, Zenon DEF CloseBehind, ReportClose, Goto
        <5> QED BY <3>2, <5>1 DEF Loops
      <4>7. tbl'.e[i].owner = tbl.e[i].owner
        <5> DEFINE x == [tbl.e[i] EXCEPT !.st = "SockClosed", !.fd = "invalid"]
        <5>1. Changed(Socks, tbl, setSocketClosed(tbl, i), i, x)
          BY <4>4, SetSocketClosedLemma, Zenon
        <5>2. tbl' = setSocketClosed(tbl, i)
          BY <4>3, Zenon DEF CloseBehind
        <5>3. tbl.e[i] \in Entries(Socks)
          BY <4>4, OwnerOf
        <5>4. x.owner = tbl.e[i].owner
          BY <5>3 DEF Entries
        <5> HIDE DEF x
        <5> QED BY SMTT(30), <5>1, <5>2, <5>4 DEF Changed
      <4> QED BY SMTT(30), <3>1, <4>5, <4>6, <4>7
    <3> QED BY <3>3, <3>4, <3>5
  <2> QED BY SMTT(30), <2>1, <2>3, <2>4, <2>5
<1> QED BY <1>1, Invariance, PTL DEF Spec, NothingAfterClose

=============================================================================
