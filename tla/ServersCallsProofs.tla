-------------------------- MODULE ServersCallsProofs --------------------------
(***************************************************************************)
(* The invariant of Servers: it holds at first, it implies the properties, *)
(* and the calls of the program, the network and what the loop does        *)
(* between two events keep it.                                             *)
(***************************************************************************)
EXTENDS Servers, NetSocketsProofs

Objs == Servs \cup Socks

Lives == {"none", "live", "gone"}

SrvData == [life : Lives, idx : Nat,
            st : {"Unused", "Listening", "BeingClosed", "Closed"},
            cnt : Int, left : Int, list : SUBSET Socks,
            ahd : SUBSET Awaits, at : Awaits \cup {""}, timer : BOOLEAN]

ConData == [life : Lives, idx : Nat, st : {"Connected", "Closing", "ErrorClosing"},
            server : 0 .. NServers]

Posts == [i : Nat, err : BOOLEAN]

Queues == [listen : Seq(Nat), sock : Seq(Nat), accepted : Seq(Nat),
           close : Seq(Posts)]

Nets == [waiting : SUBSET Servs, broken : SUBSET Servs, lost : SUBSET Socks]

IndexPcs == {"listening", "inListening", "sockClosing", "inSockClose",
             "accepted", "inAccepted"}
ClosePcs == {"closing", "inClose"}
ScanPcs == {"dispatch", "inConnection", "inError"}

Pcs == IndexPcs \cup ClosePcs \cup ScanPcs \cup {"timers", "poll", "immediate", "exit"}

(* The loop visits indices, and in infraGetCloseEvents posts. *)
Loops(Q) == [pc : Pcs, i : Nat, left : Nat, todo : Seq(Q), seen : Nat, cur : Nat]

LoopTyped ==
  /\ loop.pc \in ClosePcs => loop \in Loops(Posts)
  /\ loop.pc \notin ClosePcs => loop \in Loops(Nat)

Typed ==
  /\ srv \in [Servs -> SrvData]
  /\ con \in [Socks -> ConData]
  /\ tbl \in Tables(Objs) /\ Fits(tbl)
  /\ queue \in Queues
  /\ net \in Nets
  /\ LoopTyped
  /\ stray \in BOOLEAN /\ dropped \subseteq Servs

(* What the loop is about to visit, and that the entry whose handlers run  *)
(* is in the table.                                                        *)
LoopInv ==
  /\ loop.pc \in ClosePcs => loop.seen <= Len(queue.close)
  /\ loop.pc \notin IndexPcs \cup ClosePcs => loop.todo = <<>>
  /\ loop.pc \in {"inListening", "inSockClose", "inAccepted", "inClose"} =>
       loop.todo # <<>>
  /\ loop.pc = "inSockClose" => Head(loop.todo) \in Places(tbl)
  /\ loop.pc = "inClose" => Head(loop.todo).i \in Places(tbl)
  /\ loop.i <= tbl.main
  /\ loop.pc \notin ScanPcs => loop.i = 0
  /\ loop.pc = "inError" => loop.i # 0

(* The life and the index of an object among the servers V and the sockets *)
(* C.                                                                      *)
Life(V, C, o) == IF o \in Servs THEN V[o].life ELSE C[o].life
Idx(V, C, o) == IF o \in Servs THEN V[o].idx ELSE C[o].idx

EntryOK(en) ==
  /\ en.st = "SockIssued" => en.fd = "negative"
  /\ en.st = "SockAssociated" => en.fd = "positive"

(* Every object has made one entry at most, and a used entry is where its  *)
(* object, which lives, says it is.                                        *)
OwnerInv ==
  /\ \A j \in Places(tbl) :
       /\ EntryOK(tbl.e[j])
       /\ Life(srv, con, tbl.e[j].owner) # "none"
       /\ isUsed(tbl, j) => /\ Life(srv, con, tbl.e[j].owner) = "live"
                            /\ Idx(srv, con, tbl.e[j].owner) = j
  /\ \A j, k \in Places(tbl) : tbl.e[j].owner = tbl.e[k].owner => j = k
  /\ \A o \in Objs : Idx(srv, con, o) <= NServers + NSocks

(* socketList, its counter, and the coroutine of a server. *)
ListInv ==
  /\ \A v \in Servs :
       /\ srv[v].cnt - srv[v].left = Cardinality(srv[v].list)
       /\ srv[v].timer => srv[v].at # ""
       /\ srv[v].at # "" => srv[v].ahd # {}
       /\ \A s \in srv[v].list : con[s].life = "live" /\ con[s].server = v
  /\ \A s \in Socks : con[s].life = "live" =>
       /\ con[s].server \in Servs /\ srv[con[s].server].life = "live"
       /\ s \in srv[con[s].server].list

Fresh == {s \in Socks : con[s].life = "none"}

(* A connection that waits has a socket to become, and accept() is only    *)
(* called for one that waits.                                              *)
WaitInv ==
  /\ Cardinality(net.waiting) <= Cardinality(Fresh)
  /\ loop.pc \in ScanPcs =>
       \A j \in loop.i + 1 .. tbl.main :
         (tbl.e[j].st = "SockAssociated" /\ "IN" \in tbl.e[j].rev
            /\ tbl.e[j].owner \in Servs) => tbl.e[j].owner \in net.waiting

(* A server that has reported its close event is done. *)
ClosedInv ==
  \A v \in Servs : srv[v].st = "Closed" =>
    /\ srv[v].at = "" /\ (srv[v].left = 0 => srv[v].list = {})
    /\ \A j \in Places(tbl) : tbl.e[j].owner = v => 
         tbl.e[j].st \in {"SockClosed", "Unused"}

(* Object o uses entry i of the table t. *)
HasEntry(t, i, o) == i \in Places(t) /\ isUsed(t, i) /\ t.e[i].owner = o

NeedsEntry(V, C, o) ==
  Life(V, C, o) = "live" /\ (o \in Servs => V[o].st # "Closed")

(* As long as no destructor has freed a foreign entry, live objects have   *)
(* theirs, up to the reset at the end of a close event.                    *)
OwnInv ==
  ~stray =>
    /\ \A o \in Objs : NeedsEntry(srv, con, o) => HasEntry(tbl, Idx(srv, con, o), o)
    /\ loop.pc = "inClose" =>
         /\ isUsed(tbl, Head(loop.todo).i)
         /\ tbl.e[Head(loop.todo).i].owner = loop.cur
         /\ loop.cur \in Servs /\ srv[loop.cur].st = "Closed"

(* Server v still has to report its close event. *)
Due(v) ==
  /\ ~stray /\ v \notin dropped /\ srv[v].life = "live" /\ srv[v].left = 0
  /\ srv[v].st = "BeingClosed" /\ srv[v].list = {}

InTodo(i) == \E k \in 1 .. Len(loop.todo) : loop.todo[k].i = i
InNew(i) == \E k \in loop.seen + 1 .. Len(queue.close) : queue.close[k].i = i

(* It is in the queue, and while that is visited in the part to come. *)
DueInv ==
  \A v \in Servs : Due(v) =>
    /\ Posted(v)
    /\ loop.pc \in ClosePcs => InTodo(srv[v].idx) \/ InNew(srv[v].idx)

Inv == /\ Typed /\ LoopInv /\ OwnerInv /\ ListInv /\ WaitInv /\ ClosedInv
       /\ OwnInv /\ DueInv

(* Servers and sockets are finitely many, and different objects. *)
LEMMA ServsFinite ==
  ASSUME Laws
  PROVE  /\ IsFiniteSet(Servs) /\ IsFiniteSet(Socks)
         /\ Servs \cap Socks = {}
         /\ Objs = 1 .. NServers + NSocks
<1>1. NServers \in Int /\ NSocks \in Nat /\ NServers + 1 \in Int /\ NServers + NSocks \in Int
  BY ServersAssumption
<1>2. IsFiniteSet(Servs) /\ IsFiniteSet(Socks)
  BY <1>1 DEF Laws, IntervalLaw, Servs, Socks
<1> QED BY <1>2, ServersAssumption DEF Servs, Socks, Objs

(* The record that stands for a server not yet made, or gone. *)
LEMMA NoServerLemma ==
  ASSUME NEW life \in Lives
  PROVE  LET d == NoServer(life)
         IN  /\ d \in SrvData /\ d.life = life /\ d.idx = 0 /\ d.st = "Unused"
             /\ d.cnt = 0 /\ d.left = 0 /\ d.list = {} /\ d.at = "" /\ d.timer = FALSE
<1> DEFINE f == Server(0, 0)
           d == NoServer(life)
<1>1. /\ f \in SrvData /\ f.idx = 0 /\ f.st = "Unused" /\ f.cnt = 0 /\ f.left = 0
      /\ f.list = {} /\ f.at = "" /\ f.timer = FALSE
  BY SMTT(30) DEF Server, SrvData, Lives
<1>2. d = [f EXCEPT !.life = life]
  BY DEF NoServer
<1> HIDE DEF f, d
<1> SUFFICES /\ d \in SrvData /\ d.life = life /\ d.idx = 0 /\ d.st = "Unused"
             /\ d.cnt = 0 /\ d.left = 0 /\ d.list = {} /\ d.at = "" /\ d.timer = FALSE
  BY Zenon DEF d
<1> QED BY <1>1, <1>2, Zenon DEF SrvData

-----------------------------------------------------------------------------
(* The initial state, and what the invariant implies.                      *)

(* Inv holds before the loop starts. *)
LEMMA InitInv ==
  ASSUME Laws, Init
  PROVE  Inv
<1>1. /\ srv = [v \in Servs |-> NoServer("none")]
      /\ con = [s \in Socks |-> Socket("none", 0, 0)]
      /\ tbl = Table(<<>>, 0, InitialCapacity, 0, 0)
      /\ queue = [listen |-> <<>>, sock |-> <<>>, accepted |-> <<>>, close |-> <<>>]
      /\ net = [waiting |-> {}, broken |-> {}, lost |-> {}]
      /\ loop = [pc |-> "timers", i |-> 0, left |-> 0, todo |-> <<>>, seen |-> 0,
                 cur |-> 0]
      /\ stray = FALSE /\ dropped = {}
  BY Zenon DEF Init, EmptyTable, Table
<1>2. ASSUME NEW S PROVE <<>> \in Seq(S) /\ Len(<<>>) = 0
  BY NoElements
<1>3. /\ NoServer("none") \in SrvData /\ NoServer("none").life = "none"
      /\ NoServer("none").idx = 0 /\ NoServer("none").st = "Unused"
      /\ NoServer("none").cnt = 0 /\ NoServer("none").left = 0
      /\ NoServer("none").list = {} /\ NoServer("none").at = ""
      /\ NoServer("none").timer = FALSE
  <2>1. "none" \in Lives
    BY DEF Lives
  <2> QED BY <2>1, NoServerLemma, Zenon
<1>4. /\ Socket("none", 0, 0) \in ConData /\ Socket("none", 0, 0).life = "none"
      /\ Socket("none", 0, 0).idx = 0
  BY ServersAssumption DEF Socket, ConData, Lives
<1>5. /\ srv \in [Servs -> SrvData] /\ con \in [Socks -> ConData]
      /\ \A v \in Servs : srv[v] = NoServer("none")
      /\ \A s \in Socks : con[s] = Socket("none", 0, 0)
  BY <1>1, <1>3, <1>4, Zenon
<1>6. /\ tbl \in Tables(Objs) /\ tbl.e = <<>> /\ tbl.main = 0 /\ tbl.cap = 2
  <2>1. <<>> \in Seq(Entries(Objs)) /\ 0 \in Nat /\ 2 \in Nat /\ 0 \in Int
    BY NoElements
  <2>2. tbl = Table(<<>>, 0, 2, 0, 0)
    BY <1>1 DEF InitialCapacity
  <2>3. Table(<<>>, 0, 2, 0, 0) \in Tables(Objs)
    BY <2>1, TableType, Zenon
  <2>4. tbl.e = <<>> /\ tbl.main = 0 /\ tbl.cap = 2
    BY <2>2 DEF Table
  <2> QED BY <2>2, <2>3, <2>4
<1>7. Fits(tbl) /\ Places(tbl) = {}
  BY <1>2, <1>6 DEF Fits, Places
<1>8. queue \in Queues /\ net \in Nets /\ net.waiting = {}
  BY <1>1, <1>2, Zenon DEF Queues, Nets
<1>9. /\ loop \in Loops(Nat) /\ loop.pc = "timers" /\ loop.i = 0 /\ loop.todo = <<>>
  BY <1>1, <1>2, Zenon DEF Loops, Pcs
<1>10. loop.pc \notin ClosePcs \cup ScanPcs \cup IndexPcs
  BY <1>9 DEF ClosePcs, ScanPcs, IndexPcs
<1>11. Typed
  BY <1>1, <1>5, <1>6, <1>7, <1>8, <1>9, <1>10, Zenon DEF Typed, LoopTyped
<1>12. LoopInv
  BY <1>6, <1>9, <1>10 DEF LoopInv
<1>13. \A o \in Objs : Life(srv, con, o) = "none" /\ Idx(srv, con, o) = 0
  BY <1>3, <1>4, <1>5, Zenon DEF Life, Idx, Objs
<1>14. OwnerInv
  BY <1>7, <1>13, ServersAssumption, SMTT(30) DEF OwnerInv
<1>15. ListInv
  <2>1. Cardinality({}) = 0
    BY DEF Laws, EmptyLaw
  <2>2. ASSUME NEW v \in Servs
        PROVE  /\ srv[v].cnt - srv[v].left = Cardinality(srv[v].list)
               /\ srv[v].timer = FALSE /\ srv[v].at = "" /\ srv[v].list = {}
    <3>1. srv[v] = NoServer("none")
      BY <1>5
    <3>2. srv[v].timer = FALSE /\ srv[v].at = "" /\ srv[v].list = {}
      BY <1>3, <3>1, Zenon
    <3>3. srv[v].cnt = 0 /\ srv[v].left = 0
      BY <1>3, <3>1, Zenon
    <3>4. Cardinality(srv[v].list) = 0
      BY <2>1, <3>2, Zenon
    <3>5. srv[v].cnt - srv[v].left = Cardinality(srv[v].list)
      BY <3>3, <3>4
    <3> QED BY <3>2, <3>5, Zenon
  <2>3. \A s \in Socks : con[s].life # "live"
    BY <1>4, <1>5
  <2> QED BY <2>2, <2>3, Zenon DEF ListInv
<1>16. WaitInv
  <2>1. IsFiniteSet(Fresh)
    BY ServsFinite, Zenon DEF Laws, SubsetLaw, Fresh
  <2>2. Cardinality(Fresh) \in Nat /\ Cardinality(net.waiting) = 0
    BY <1>8, <2>1 DEF Laws, CountLaw, EmptyLaw
  <2> QED BY <1>10, <2>2 DEF WaitInv
<1>17. ClosedInv /\ DueInv
  BY <1>3, <1>5, Zenon DEF ClosedInv, DueInv, Due
<1>18. OwnInv
  BY <1>9, <1>13 DEF OwnInv, NeedsEntry
<1> QED BY <1>11, <1>12, <1>14, <1>15, <1>16, <1>17, <1>18 DEF Inv

(* The bound on the calls of the user code is kept. *)
LEMMA CallsBounded == Spec => [](calls \in 0 .. MaxCalls)
<1> DEFINE Bounded == calls \in 0 .. MaxCalls
<1>1. Init => Bounded
  <2>1. Init => calls = 0
    BY Zenon DEF Init
  <2> QED BY <2>1, ServersAssumption
<1>2. Bounded /\ [Next]_vars => Bounded'
  <2> SUFFICES ASSUME Bounded, [Next]_vars PROVE Bounded'
    OBVIOUS
  <2>1. calls' = calls \/ (calls < MaxCalls /\ calls' = calls + 1)
    BY DEF Next, UserCode, Network, LoopStep, vars
  <2> QED BY <2>1, ServersAssumption
<1> HIDE DEF Bounded
<1>3. Spec => []Bounded
  BY <1>1, <1>2, PTL DEF Spec
<1> QED BY <1>3 DEF Bounded

(* No other assertion fails. *)
LEMMA FailedIsNamed == Spec => [](failed \in Assertions \cup {""})
<1> DEFINE Named == failed \in Assertions \cup {""}
           Names == failed' = failed \/ failed' \in Assertions
<1>1. Init => Named
  BY Zenon DEF Init
<1>2. Named /\ [Next]_vars => Named'
  <2> SUFFICES ASSUME Named, [Next]_vars PROVE Names
    BY Zenon
  <2>1. CASE UNCHANGED vars \/ Network
    BY <2>1, Zenon DEF vars, Network
  <2>2. CASE UserCode
    <3>1. CASE \E v \in Servs : createServer(v) \/ listen(v) \/ a_listen(v)
      BY <3>1, Zenon DEF createServer, listen, a_listen, Listen, Fail, Assertions
    <3>2. CASE \E v \in Servs : close(v) \/ a_close(v) \/ a_closeWithin(v)
      BY <3>2, Zenon DEF close, a_close, a_closeWithin, closingProcedure, Fail,
         Assertions
    <3>3. CASE \E v \in Servs : a_connection(v) \/ a_connectionWithin(v)
      BY <3>3, Zenon DEF a_connection, a_connectionWithin, AwaitConnection
    <3>4. CASE \E v \in Servs : dropServer(v)
      BY <3>4, Zenon DEF dropServer, Fail, Assertions
    <3>5. CASE \E s \in Socks : destroy(s)
      BY <3>5, Zenon DEF destroy
    <3> QED BY <2>2, <3>1, <3>2, <3>3, <3>4, <3>5, Zenon DEF UserCode
  <2>3. CASE LoopStep
    <3>1. CASE ListenBatch \/ ListenDone \/ ListeningHandled \/ AcceptedHandled \/ TimersDone
      BY <3>1, Zenon DEF ListenBatch, ListenDone, ListeningHandled,
         AcceptedHandled, TimersDone
    <3>2. CASE ListeningEvent
      BY <3>2, Zenon DEF ListeningEvent, rrOnListening, Fail, Assertions
    <3>3. CASE \E v \in Servs : ActionTimeout(v)
      BY <3>3, Zenon DEF ActionTimeout
    <3>4. CASE NothingToPoll \/ Poll \/ ConnectionHandled \/ ErrorHandled \/ Dispatched
      BY <3>4, Zenon DEF NothingToPoll, Poll, ConnectionHandled, ErrorHandled,
         Dispatched
    <3>5. CASE Dispatch
      <4>1. \/ UNCHANGED failed \/ failed' \in Assertions
            \/ \E o, rev, at : CheckServer(o, rev, at) \/ CheckSocket(o, at)
        BY <3>5, Zenon DEF Dispatch, Fail, Assertions
      <4> QED BY <4>1, Zenon DEF CheckServer, CheckSocket,
                 infraProcessAcceptEvent,
                consumeAcceptedSocket, Fail, Assertions
    <3>6. CASE ImmediatesDone \/ SockCloseDone \/ AcceptedDone \/ CloseHandled
      BY <3>6, Zenon DEF ImmediatesDone, SockCloseDone, AcceptedDone, CloseHandled
    <3>7. CASE SockCloseEvent \/ SockCloseHandled \/ AcceptedEvent
      BY <3>7, Zenon DEF SockCloseEvent, SockCloseHandled, AcceptedEvent, Fail,
         Assertions
    <3>8. CASE CloseEvent \/ EndIteration
      BY <3>8, Zenon DEF CloseEvent, rrOnClose, EndIteration, Fail, Assertions
    <3> QED BY <2>3, <3>1, <3>2, <3>3, <3>4, <3>5, <3>6, <3>7, <3>8, Zenon
               DEF LoopStep
  <2> QED BY <2>1, <2>2, <2>3, Zenon DEF Next
<1> HIDE DEF Named
<1>3. Spec => []Named
  BY <1>1, <1>2, PTL DEF Spec
<1> QED BY <1>3 DEF Named

(* No object remembers an index that the table does not reach. *)
LEMMA IndexInTable ==
  ASSUME Inv, NEW o \in Objs, Idx(srv, con, o) \in Nat
  PROVE  Idx(srv, con, o) \in Indices
<1>1. Idx(srv, con, o) <= NServers + NSocks
  BY Zenon DEF Inv, OwnerInv
<1> QED BY <1>1, ServersAssumption DEF Indices

(* The types that Inv gives. *)
LEMMA InvTypes ==
  ASSUME Laws, Inv, calls \in 0 .. MaxCalls, failed \in Assertions \cup {""}
  PROVE  TypeOK
<1>1. \A o \in Objs : Idx(srv, con, o) \in Nat => Idx(srv, con, o) \in Indices
  BY IndexInTable, Zenon
<1>2. ASSUME NEW v \in Servs
      PROVE  /\ srv[v].life \in {"none", "live", "gone"} /\ srv[v].idx \in Indices
             /\ srv[v].st \in {"Unused", "Listening", "BeingClosed", "Closed"}
             /\ srv[v].list \subseteq Socks
             /\ srv[v].cnt - srv[v].left = Cardinality(srv[v].list)
             /\ srv[v].ahd \subseteq Awaits /\ srv[v].at \in Awaits \cup {""}
             /\ srv[v].timer => srv[v].at # ""
  <2>1. srv[v] \in SrvData /\ v \in Objs
    BY Zenon DEF Inv, Typed, Objs
  <2>2. srv[v].idx \in Indices
    BY <1>1, <2>1, Zenon DEF Idx, SrvData
  <2> QED BY <2>1, <2>2, Zenon DEF SrvData, Lives, Inv, ListInv
<1>3. ASSUME NEW s \in Socks
      PROVE  /\ con[s].life \in {"none", "live", "gone"} /\ con[s].idx \in Indices
             /\ con[s].st \in {"Connected", "Closing", "ErrorClosing"}
             /\ con[s].server \in 0 .. NServers
  <2>1. con[s] \in ConData /\ s \in Objs /\ s \notin Servs
    BY ServsFinite, Zenon DEF Inv, Typed, Objs
  <2>2. con[s].idx \in Indices
    BY <1>1, <2>1, Zenon DEF Idx, ConData
  <2> QED BY <2>1, <2>2, Zenon DEF ConData, Lives
<1>4. net.waiting \subseteq Servs /\ net.broken \subseteq Servs /\ net.lost \subseteq Socks
  BY Zenon DEF Inv, Typed, Nets
<1>5. loop.todo = <<>> \/ loop.pc \in IndexPcs \cup ClosePcs
  BY Zenon DEF Inv, LoopInv
<1>6. stray \in BOOLEAN /\ dropped \subseteq Servs
  BY Zenon DEF Inv, Typed
<1> QED BY <1>2, <1>3, <1>4, <1>5, <1>6, Zenon DEF TypeOK, IndexPcs, ClosePcs

(* What Inv says of the entries of objects. *)
LEMMA InvOwns ==
  ASSUME Laws, Inv
  PROVE  OwnsItsEntry
<1> SUFFICES ASSUME ~stray
             PROVE  /\ \A s \in Socks : con[s].life = "live" =>
                         /\ srv[con[s].server].life = "live"
                         /\ s \in srv[con[s].server].list
                         /\ isUsed(tbl, con[s].idx) /\ tbl.e[con[s].idx].owner = s
                    /\ \A v \in Servs : (srv[v].life = "live" /\ srv[v].st # "Closed") =>
                         isUsed(tbl, srv[v].idx) /\ tbl.e[srv[v].idx].owner = v
  BY Zenon DEF OwnsItsEntry
<1>1. \A o \in Objs : NeedsEntry(srv, con, o) => HasEntry(tbl, Idx(srv, con, o), o)
  BY Zenon DEF Inv, OwnInv
<1>2. ASSUME NEW s \in Socks, con[s].life = "live"
      PROVE  /\ srv[con[s].server].life = "live" /\ s \in srv[con[s].server].list
             /\ isUsed(tbl, con[s].idx) /\ tbl.e[con[s].idx].owner = s
  <2>1. s \in Objs /\ s \notin Servs
    BY ServsFinite DEF Objs
  <2>2. NeedsEntry(srv, con, s) /\ Idx(srv, con, s) = con[s].idx
    BY <1>2, <2>1 DEF NeedsEntry, Life, Idx
  <2>3. HasEntry(tbl, con[s].idx, s)
    BY <1>1, <2>1, <2>2
  <2> QED BY <1>2, <2>3, Zenon DEF HasEntry, Inv, ListInv
<1>3. ASSUME NEW v \in Servs, srv[v].life = "live", srv[v].st # "Closed"
      PROVE  isUsed(tbl, srv[v].idx) /\ tbl.e[srv[v].idx].owner = v
  <2>1. v \in Objs /\ NeedsEntry(srv, con, v) /\ Idx(srv, con, v) = srv[v].idx
    BY <1>3 DEF NeedsEntry, Life, Idx, Objs
  <2>2. HasEntry(tbl, srv[v].idx, v)
    BY <1>1, <2>1
  <2> QED BY <2>2 DEF HasEntry
<1> QED BY <1>2, <1>3

-----------------------------------------------------------------------------
(* Steps under which the parts of Inv are kept.                            *)

(* An entry that was d and is f stays with its object and does not come    *)
(* into use. If it becomes associated, it was issued, and during the scan  *)
(* poll() has not looked at it.                                            *)
KeptEntry(d, f) ==
  /\ f.owner = d.owner /\ EntryOK(f)
  /\ Used(f) => Used(d)
  /\ \/ f.st \in {"Unused", "SockClosed"} \/ d.st = f.st
     \/ d.st = "SockIssued" /\ (loop.pc \in ScanPcs => d.rev = {})
  /\ loop.pc \in ScanPcs => f.rev \in {{}, d.rev}

Kept ==
  /\ tbl' \in Tables(Objs) /\ Fits(tbl')
  /\ Len(tbl'.e) = Len(tbl.e) /\ tbl'.main = tbl.main
  /\ \A j \in Places(tbl) : KeptEntry(tbl.e[j], tbl'.e[j])

(* None of them goes out of use. *)
UsesKept == \A j \in Places(tbl) : isUsed(tbl, j) => isUsed(tbl', j)

(* A server whose data was d and is f has the same entry and connections.  *)
SameServer(d, f) ==
  /\ f.life = d.life /\ f.idx = d.idx
  /\ f.cnt = d.cnt /\ f.left = d.left /\ f.list = d.list
  /\ f.timer => f.at # ""
  /\ f.at # "" => f.ahd # {}

SameSocket(d, f) == f.life = d.life /\ f.idx = d.idx /\ f.server = d.server

(* All objects keep their entry and their connections. *)
SameObjects ==
  /\ srv' \in [Servs -> SrvData] /\ con' \in [Socks -> ConData]
  /\ \A v \in Servs : SameServer(srv[v], srv'[v])
  /\ \A s \in Socks : SameSocket(con[s], con'[s])

(* A server changes its state without being closed, or opened again. *)
CalmServer(d, f) ==
  /\ f.st = "Closed" <=> d.st = "Closed"
  /\ f.st = "Closed" => f.at = d.at
  /\ f.st = "BeingClosed" => d.st = "BeingClosed"

(* The scan goes on, or is over, and no server with a connection that      *)
(* waits loses it before the scan gets there.                              *)
ScanKept ==
  /\ loop'.pc \in ScanPcs =>
       /\ loop.pc \in ScanPcs /\ loop.i <= loop'.i
       /\ \A j \in loop'.i + 1 .. tbl.main :
            (tbl'.e[j].st = "SockAssociated" /\ tbl.e[j].owner \in net.waiting) =>
               tbl.e[j].owner \in net'.waiting

(* The queue of close events only grows. *)
Grows ==
  /\ Len(queue.close) <= Len(queue'.close)
  /\ \A k \in 1 .. Len(queue.close) : queue'.close[k] = queue.close[k]

(* The queue of closing events grows when it stays as it is. *)
LEMMA SameClose ==
  ASSUME queue \in Queues, queue' \in Queues, queue'.close = queue.close
  PROVE  Grows
BY DEF Grows, Queues

LEMMA SameQueues ==
  ASSUME Inv, queue' = queue
  PROVE  queue' \in Queues /\ Grows
<1>1. queue \in Queues
  BY Zenon DEF Inv, Typed
<1> QED BY <1>1, SameClose, Zenon

(* What Inv says of one entry: it belongs to an object that has been made, *)
(* and while it is used the object lives and knows its place.              *)
LEMMA EntryOf ==
  ASSUME Inv, NEW j \in Places(tbl)
  PROVE  /\ tbl.e[j] \in Entries(Objs) /\ tbl.e[j].owner \in Objs
         /\ EntryOK(tbl.e[j]) /\ Life(srv, con, tbl.e[j].owner) # "none"
         /\ isUsed(tbl, j) => /\ Life(srv, con, tbl.e[j].owner) = "live"
                              /\ Idx(srv, con, tbl.e[j].owner) = j
<1>1. tbl.e[j] \in Entries(Objs)
  BY EntryFields, Zenon DEF Inv, Typed
<1>2. tbl.e[j].owner \in Objs
  BY <1>1 DEF Entries
<1> QED BY <1>1, <1>2 DEF Inv, OwnerInv

(* An index that passes the range assertions of the accessors is that of   *)
(* an entry.                                                               *)
LEMMA InRangeLemma ==
  ASSUME Inv, NEW i, InRange(tbl, i)
  PROVE  i \in Places(tbl)
<1>1. tbl.main \in Nat /\ Len(tbl.e) \in Nat /\ tbl.main <= Len(tbl.e)
  BY DEF Inv, Typed, Fits, Tables
<1> QED BY <1>1 DEF InRange, Places

(* Life and index of every object are those it had. *)
LEMMA SameObjectsLife ==
  ASSUME SameObjects, NEW o \in Objs
  PROVE  Life(srv', con', o) = Life(srv, con, o) /\ Idx(srv', con', o) = Idx(srv, con, o)
BY Zenon DEF SameObjects, SameServer, SameSocket, Life, Idx, Objs

(* Entries stay with objects that only lose them: OwnerInv is kept if      *)
(* every entry still used belongs to an object that lives and has the same *)
(* index.                                                                  *)
LEMMA KeptOwner ==
  ASSUME Inv, Kept,
         \A o \in Objs : /\ Life(srv, con, o) # "none" => Life(srv', con', o) # "none"
                         /\ Idx(srv', con', o) \in {Idx(srv, con, o), 0},
         \A j \in Places(tbl) : isUsed(tbl', j) =>
            /\ Life(srv', con', tbl.e[j].owner) = "live"
            /\ Idx(srv', con', tbl.e[j].owner) = Idx(srv, con, tbl.e[j].owner)
  PROVE  OwnerInv'
<1>1. Places(tbl') = Places(tbl)
  BY DEF Kept, Places
<1>2. ASSUME NEW j \in Places(tbl)
      PROVE  /\ EntryOK(tbl'.e[j])
             /\ Life(srv', con', tbl'.e[j].owner) # "none"
             /\ isUsed(tbl', j) => /\ Life(srv', con', tbl'.e[j].owner) = "live"
                                   /\ Idx(srv', con', tbl'.e[j].owner) = j
  <2>1. /\ tbl.e[j].owner \in Objs /\ Life(srv, con, tbl.e[j].owner) # "none"
        /\ isUsed(tbl, j) => Idx(srv, con, tbl.e[j].owner) = j
    BY EntryOf
  <2> QED BY <2>1 DEF Kept, KeptEntry, isUsed
<1>3. \A j, k \in Places(tbl) : tbl'.e[j].owner = tbl'.e[k].owner => j = k
  BY DEF Kept, Inv, OwnerInv, KeptEntry
<1>4. \A o \in Objs : Idx(srv', con', o) <= NServers + NSocks
  <2>1. \A o \in Objs : Idx(srv, con, o) <= NServers + NSocks
    BY DEF Inv, OwnerInv
  <2> QED BY <2>1, ServersAssumption
<1> QED BY <1>1, <1>2, <1>3, <1>4 DEF OwnerInv

(* OwnerInv is kept while the objects keep their entries. *)
LEMMA SameOwner ==
  ASSUME Inv, Kept, SameObjects
  PROVE  OwnerInv'
<1>1. \A o \in Objs : /\ Life(srv', con', o) = Life(srv, con, o)
                      /\ Idx(srv', con', o) = Idx(srv, con, o)
  BY SameObjectsLife
<1>2. \A o \in Objs : /\ Life(srv, con, o) # "none" => Life(srv', con', o) # "none"
                      /\ Idx(srv', con', o) \in {Idx(srv, con, o), 0}
  BY <1>1
<1>3. ASSUME NEW j \in Places(tbl), isUsed(tbl', j)
      PROVE  /\ Life(srv', con', tbl.e[j].owner) = "live"
             /\ Idx(srv', con', tbl.e[j].owner) = Idx(srv, con, tbl.e[j].owner)
  <2>1. isUsed(tbl, j)
    BY <1>3 DEF Kept, KeptEntry, isUsed
  <2>2. tbl.e[j].owner \in Objs /\ Life(srv, con, tbl.e[j].owner) = "live"
    BY <2>1, EntryOf
  <2> QED BY <1>1, <2>2
<1> QED BY <1>2, <1>3, KeptOwner

(* ListInv is kept while the objects keep their connections. *)
LEMMA SameList ==
  ASSUME Inv, SameObjects
  PROVE  ListInv'
<1>1. ListInv
  BY DEF Inv
<1>2. \A v \in Servs : SameServer(srv[v], srv'[v])
  BY DEF SameObjects
<1>3. \A s \in Socks : SameSocket(con[s], con'[s])
  BY DEF SameObjects
<1>4. ASSUME NEW v \in Servs
      PROVE  /\ srv'[v].cnt - srv'[v].left = Cardinality(srv'[v].list)
             /\ srv'[v].timer => srv'[v].at # ""
             /\ srv'[v].at # "" => srv'[v].ahd # {}
  BY <1>1, <1>2, Zenon DEF ListInv, SameServer
<1>5. ASSUME NEW v \in Servs, NEW s \in srv'[v].list
      PROVE  con'[s].life = "live" /\ con'[s].server = v
  <2>1. s \in srv[v].list /\ s \in Socks
    BY <1>2, Zenon DEF SameServer, Inv, Typed, SrvData
  <2> QED BY <1>1, <1>3, <2>1, Zenon DEF ListInv, SameSocket
<1>6. ASSUME NEW s \in Socks, con'[s].life = "live"
      PROVE  /\ con'[s].server \in Servs /\ srv'[con'[s].server].life = "live"
             /\ s \in srv'[con'[s].server].list
  <2>1. con[s].life = "live" /\ con'[s].server = con[s].server
    BY <1>3, <1>6 DEF SameSocket
  <2>2. /\ con[s].server \in Servs /\ srv[con[s].server].life = "live"
        /\ s \in srv[con[s].server].list
    BY <1>1, <2>1, Zenon DEF ListInv
  <2> QED BY <1>2, <2>1, <2>2, Zenon DEF SameServer
<1> QED BY <1>4, <1>5, <1>6, Zenon DEF ListInv

(* ClosedInv is kept if no server becomes Closed. *)
LEMMA KeptClosed ==
  ASSUME Inv, Kept,
         \A v \in Servs : srv'[v].st = "Closed" =>
            /\ srv[v].st = "Closed" /\ srv'[v].at = srv[v].at
            /\ srv'[v].left = srv[v].left /\ srv'[v].list \subseteq srv[v].list
  PROVE  ClosedInv'
<1>1. Places(tbl') = Places(tbl)
  BY DEF Kept, Places
<1>2. SUFFICES ASSUME NEW v \in Servs, srv'[v].st = "Closed"
               PROVE  /\ srv'[v].at = "" /\ (srv'[v].left = 0 => srv'[v].list = {})
                      /\ \A j \in Places(tbl) : tbl'.e[j].owner = v =>
                           tbl'.e[j].st \in {"SockClosed", "Unused"}
  BY <1>1, Zenon DEF ClosedInv
<1>3. /\ srv[v].at = "" /\ (srv[v].left = 0 => srv[v].list = {})
      /\ \A j \in Places(tbl) : tbl.e[j].owner = v =>
           tbl.e[j].st \in {"SockClosed", "Unused"}
  BY <1>2, Zenon DEF Inv, ClosedInv
<1>4. srv'[v].at = "" /\ (srv'[v].left = 0 => srv'[v].list = {})
  BY <1>2, <1>3, Zenon
<1>5. ASSUME NEW j \in Places(tbl), tbl'.e[j].owner = v
      PROVE  tbl'.e[j].st \in {"SockClosed", "Unused"}
  BY <1>3, <1>5, Zenon DEF Kept, KeptEntry
<1> QED BY <1>4, <1>5, Zenon

(* WaitInv is kept if no connection arrives and no socket is made, and the *)
(* scan goes on as ScanKept says.                                          *)
LEMMA KeptWait ==
  ASSUME Laws, Inv, Kept, ScanKept, loop'.i \in Nat, net' \in Nets,
         net'.waiting \subseteq net.waiting,
         \A s \in Socks : con'[s].life = "none" <=> con[s].life = "none"
  PROVE  WaitInv'
<1>1. Fresh' = Fresh
  BY DEF Fresh
<1>2. Cardinality(net'.waiting) <= Cardinality(Fresh')
  <2>1. IsFiniteSet(net.waiting) /\ IsFiniteSet(Fresh)
    <3>1. net.waiting \subseteq Servs /\ Fresh \subseteq Socks
      BY DEF Inv, Typed, Nets, Fresh
    <3> QED BY <3>1, ServsFinite, Zenon DEF Laws, SubsetLaw
  <2>2. Cardinality(net'.waiting) <= Cardinality(net.waiting)
    BY <2>1 DEF Laws, SubsetLaw
  <2>3. IsFiniteSet(net'.waiting)
    BY <2>1 DEF Laws, SubsetLaw
  <2>4. /\ Cardinality(net.waiting) \in Nat /\ Cardinality(Fresh) \in Nat
        /\ Cardinality(net'.waiting) \in Nat
    BY <2>1, <2>3 DEF Laws, CountLaw
  <2>5. Cardinality(net.waiting) <= Cardinality(Fresh)
    BY DEF Inv, WaitInv
  <2> QED BY <1>1, <2>2, <2>4, <2>5
<1>3. ASSUME loop'.pc \in ScanPcs, NEW j \in loop'.i + 1 .. tbl'.main,
             tbl'.e[j].st = "SockAssociated", "IN" \in tbl'.e[j].rev,
             tbl'.e[j].owner \in Servs
      PROVE  tbl'.e[j].owner \in net'.waiting
  <2>1. loop.i \in Nat /\ tbl.main \in Nat /\ tbl.main <= Len(tbl.e) /\ Len(tbl.e) \in Nat
    BY DEF Inv, Typed, LoopTyped, Loops, Tables, Fits
  <2>2. loop.pc \in ScanPcs /\ loop.i <= loop'.i /\ tbl'.main = tbl.main
    BY <1>3 DEF ScanKept, Kept
  <2>3. j \in Places(tbl) /\ j \in loop.i + 1 .. tbl.main /\ j \in loop'.i + 1 .. tbl.main
    BY <2>1, <2>2 DEF Places
  <2>4. tbl'.e[j].owner = tbl.e[j].owner /\ tbl.e[j].rev = tbl'.e[j].rev
        /\ tbl.e[j].st = "SockAssociated"
    BY <1>3, <2>2, <2>3 DEF Kept, KeptEntry
  <2>5. tbl.e[j].owner \in net.waiting
    BY <1>3, <2>2, <2>3, <2>4 DEF Inv, WaitInv
  <2> QED BY <1>3, <2>3, <2>4, <2>5 DEF ScanKept
<1> QED BY <1>2, <1>3 DEF WaitInv

(* An object has its entry as long as that stays in use. *)
LEMMA HasEntryKept ==
  ASSUME Inv, Kept, NEW o, NEW i, HasEntry(tbl, i, o), isUsed(tbl', i)
  PROVE  HasEntry(tbl', i, o)
BY DEF HasEntry, Kept, Places, KeptEntry, isUsed

(* OwnInv is kept while no entry goes out of use. A server may leave       *)
(* Closed, by a second close(), if it still has its entry.                 *)
LEMMA SameOwn ==
  ASSUME Inv, Kept, UsesKept, SameObjects, stray' = stray,
         \A v \in Servs : srv[v].st = "Closed" =>
            srv'[v].st = "Closed" \/ (loop'.pc # "inClose" /\ HasEntry(tbl, srv[v].idx, v)),
         loop'.pc = "inClose" => loop' = loop
  PROVE  OwnInv'
<1>1. SUFFICES ASSUME ~stray PROVE OwnInv'
  BY DEF OwnInv
<1>2. /\ \A o \in Objs : NeedsEntry(srv, con, o) => HasEntry(tbl, Idx(srv, con, o), o)
      /\ loop.pc = "inClose" =>
         /\ isUsed(tbl, Head(loop.todo).i)
         /\ tbl.e[Head(loop.todo).i].owner = loop.cur
         /\ loop.cur \in Servs /\ srv[loop.cur].st = "Closed"
  BY <1>1 DEF Inv, OwnInv
<1>3. ASSUME NEW o \in Objs, NeedsEntry(srv', con', o)
      PROVE  HasEntry(tbl', Idx(srv', con', o), o)
  <2>1. Idx(srv', con', o) = Idx(srv, con, o) /\ Life(srv', con', o) = Life(srv, con, o)
    BY SameObjectsLife
  <2>2. NeedsEntry(srv, con, o) \/ HasEntry(tbl, Idx(srv, con, o), o)
    BY <1>3, <2>1 DEF NeedsEntry, Idx
  <2>3. HasEntry(tbl, Idx(srv, con, o), o)
    BY <1>2, <2>2
  <2>4. isUsed(tbl', Idx(srv, con, o))
    BY <2>3, Zenon DEF HasEntry, UsesKept
  <2> QED BY <2>1, <2>3, <2>4, HasEntryKept
<1>4. ASSUME loop'.pc = "inClose"
      PROVE  /\ isUsed(tbl', Head(loop'.todo).i)
             /\ tbl'.e[Head(loop'.todo).i].owner = loop'.cur
             /\ loop'.cur \in Servs /\ srv'[loop'.cur].st = "Closed"
  <2>1. loop' = loop /\ Head(loop.todo).i \in Places(tbl)
    BY <1>4 DEF Inv, LoopInv
  <2> QED BY <1>2, <1>4, <2>1 DEF UsesKept, Kept, KeptEntry, isUsed
<1> QED BY <1>3, <1>4 DEF OwnInv

(* A close event that is posted stays posted, and stays ahead of the loop. *)
LEMMA GrowsPosted ==
  ASSUME Inv, queue' \in Queues, Grows, NEW v \in Servs, srv'[v].idx = srv[v].idx,
         Due(v), loop'.pc \in ClosePcs => loop' = loop
  PROVE  /\ Posted(v)'
         /\ loop'.pc \in ClosePcs =>
              \/ \E k \in 1 .. Len(loop'.todo) : loop'.todo[k].i = srv'[v].idx
              \/ \E k \in loop'.seen + 1 .. Len(queue'.close) :
                    queue'.close[k].i = srv'[v].idx
<1>1. Len(queue.close) \in Nat /\ Len(queue'.close) \in Nat
  BY DEF Inv, Typed, Queues
<1>2. Posted(v) /\ (loop.pc \in ClosePcs => InTodo(srv[v].idx) \/ InNew(srv[v].idx))
  BY DEF Inv, DueInv
<1>3. Posted(v)'
  <2>1. PICK k \in 1 .. Len(queue.close) : queue.close[k].i = srv[v].idx
    BY <1>2 DEF Posted
  <2>2. k \in 1 .. Len(queue'.close) /\ queue'.close[k].i = srv'[v].idx
    BY <1>1, <2>1 DEF Grows
  <2> QED BY <2>2 DEF Posted
<1>4. ASSUME loop'.pc \in ClosePcs
      PROVE  \/ \E k \in 1 .. Len(loop'.todo) : loop'.todo[k].i = srv'[v].idx
             \/ \E k \in loop'.seen + 1 .. Len(queue'.close) :
                   queue'.close[k].i = srv'[v].idx
  <2>1. loop' = loop /\ loop.seen \in Nat
    BY <1>4 DEF Inv, Typed, LoopTyped, Loops
  <2>2. CASE InTodo(srv[v].idx)
    BY <2>1, <2>2 DEF InTodo
  <2>3. CASE InNew(srv[v].idx)
    <3>1. PICK k \in loop.seen + 1 .. Len(queue.close) : queue.close[k].i = srv[v].idx
      BY <2>3 DEF InNew
    <3>2. k \in 1 .. Len(queue.close) /\ k \in loop.seen + 1 .. Len(queue'.close)
      BY <1>1, <2>1, <3>1 DEF Grows
    <3>3. queue'.close[k].i = srv'[v].idx
      BY <3>1, <3>2 DEF Grows
    <3> QED BY <2>1, <3>2, <3>3
  <2> QED BY <1>2, <1>4, <2>1, <2>2, <2>3
<1> QED BY <1>3, <1>4

(* DueInv is kept while no server comes to owe a close event. *)
LEMMA SameDue ==
  ASSUME Inv, queue' \in Queues, Grows, stray => stray', dropped \subseteq dropped',
         \A v \in Servs : Due(v)' => /\ srv'[v].idx = srv[v].idx
                                     /\ srv[v].life = "live" /\ srv[v].left = 0
                                     /\ srv[v].st = "BeingClosed" /\ srv[v].list = {},
         loop'.pc \in ClosePcs => loop' = loop
  PROVE  DueInv'
<1>1. SUFFICES ASSUME NEW v \in Servs, Due(v)'
               PROVE  /\ Posted(v)'
                      /\ loop'.pc \in ClosePcs =>
                           \/ \E k \in 1 .. Len(loop'.todo) : loop'.todo[k].i = srv'[v].idx
                           \/ \E k \in loop'.seen + 1 .. Len(queue'.close) :
                                queue'.close[k].i = srv'[v].idx
  BY DEF DueInv, InTodo, InNew
<1>2. ~stray' /\ v \notin dropped'
  BY <1>1 DEF Due
<1>3. Due(v) /\ srv'[v].idx = srv[v].idx
  BY <1>1, <1>2 DEF Due
<1> QED BY <1>3, GrowsPosted

(* All parts of Inv at once. *)
LEMMA Frame ==
  ASSUME Laws, Inv, Kept, UsesKept, SameObjects,
         \A v \in Servs : CalmServer(srv[v], srv'[v]),
         queue' \in Queues, Grows, net' \in Nets, net'.waiting \subseteq net.waiting,
         ScanKept, LoopTyped', LoopInv', loop'.pc \in ClosePcs => loop' = loop,
         stray' = stray, dropped' = dropped
  PROVE  Inv'
<1>1. Typed'
  BY DEF Inv, Typed, SameObjects, Kept
<1>2. OwnerInv' /\ ListInv'
  BY SameOwner, SameList
<1>3. loop'.i \in Nat
  BY DEF LoopTyped, Loops
<1>4. WaitInv'
  <2>1. \A s \in Socks : con'[s].life = con[s].life
    BY DEF SameObjects, SameSocket
  <2> QED BY <1>3, <2>1, KeptWait
<1>5. ClosedInv'
  <2>1. \A v \in Servs : srv'[v].st = "Closed" =>
            /\ srv[v].st = "Closed" /\ srv'[v].at = srv[v].at
            /\ srv'[v].left = srv[v].left /\ srv'[v].list = srv[v].list
    BY Zenon DEF SameObjects, SameServer, CalmServer
  <2> QED BY <2>1, KeptClosed
<1>6. OwnInv'
  <2>1. \A v \in Servs : srv[v].st = "Closed" => srv'[v].st = "Closed"
    BY DEF CalmServer
  <2>2. loop'.pc = "inClose" => loop' = loop
    BY DEF ClosePcs
  <2> QED BY <2>1, <2>2, SameOwn
<1>7. DueInv'
  <2>1. \A v \in Servs : Due(v)' => /\ srv'[v].idx = srv[v].idx
                                    /\ srv[v].life = "live" /\ srv[v].left = 0
                                    /\ srv[v].st = "BeingClosed" /\ srv[v].list = {}
    BY Zenon DEF Due, SameObjects, SameServer, CalmServer
  <2> QED BY <2>1, SameDue
<1> QED BY <1>1, <1>2, <1>4, <1>5, <1>6, <1>7 DEF Inv

-----------------------------------------------------------------------------
(* Steps that change little.                                               *)

(* A step that leaves the table alone keeps the entries and their use. *)
LEMMA SameTable ==
  ASSUME Inv, tbl' = tbl
  PROVE  Kept /\ UsesKept
<1>1. \A j \in Places(tbl) : EntryOK(tbl.e[j])
  BY EntryOf
<1>2. tbl \in Tables(Objs) /\ Fits(tbl)
  BY DEF Inv, Typed
<1>3. \A j \in Places(tbl) : KeptEntry(tbl.e[j], tbl.e[j])
  BY <1>1 DEF KeptEntry
<1> QED BY <1>2, <1>3 DEF Kept, UsesKept

(* A step that leaves the objects alone keeps their entries and states. *)
LEMMA UnmovedObjects ==
  ASSUME Inv, UNCHANGED <<srv, con>>
  PROVE  SameObjects /\ \A v \in Servs : CalmServer(srv[v], srv'[v])
BY Zenon DEF SameObjects, SameServer, SameSocket, CalmServer, Inv, Typed, ListInv

(* A server without its state or coroutine changed. *)
LEMMA SameServerRefl ==
  ASSUME Inv, NEW v \in Servs
  PROVE  srv[v] \in SrvData /\ SameServer(srv[v], srv[v])
BY Zenon DEF Inv, Typed, ListInv, SameServer

(* One server changes, and keeps its entry and its connections. *)
LEMMA OneServer ==
  ASSUME Inv, NEW v \in Servs, NEW d \in SrvData, SameServer(srv[v], d),
         srv' = [srv EXCEPT ![v] = d], con' = con
  PROVE  /\ SameObjects
         /\ CalmServer(srv[v], d) => \A w \in Servs : CalmServer(srv[w], srv'[w])
<1>1. srv \in [Servs -> SrvData] /\ con \in [Socks -> ConData]
  BY DEF Inv, Typed
<1>2. srv'[v] = d /\ \A w \in Servs : w # v => srv'[w] = srv[w]
  BY <1>1
<1>3. srv' \in [Servs -> SrvData]
  BY <1>1
<1>4. \A w \in Servs : SameServer(srv[w], srv'[w])
  BY <1>2, SameServerRefl
<1>5. CalmServer(srv[v], d) => \A w \in Servs : CalmServer(srv[w], srv'[w])
  BY <1>2, Zenon DEF CalmServer
<1> QED BY <1>1, <1>3, <1>4, <1>5 DEF SameObjects, SameSocket

(* The clauses on the loop are kept while the loop stays where it is. *)
LEMMA SameLoop ==
  ASSUME Inv, Kept, queue' \in Queues, Grows, loop' = loop
  PROVE  LoopTyped' /\ LoopInv'
<1>1. Len(queue.close) \in Nat /\ Len(queue'.close) \in Nat
  BY DEF Inv, Typed, Queues
<1>2. loop.pc \in ClosePcs => loop.seen \in Nat
  BY DEF Inv, Typed, LoopTyped, Loops
<1>3. Places(tbl') = Places(tbl) /\ tbl'.main = tbl.main
  BY DEF Kept, Places
<1>4. loop.pc \in ClosePcs => loop.seen <= Len(queue'.close)
  BY <1>1, <1>2 DEF Grows, Inv, LoopInv
<1> QED BY <1>3, <1>4 DEF Inv, Typed, LoopTyped, LoopInv

(* A call that adds to the queues, and changes a server little, or none. *)
LEMMA CalmCall ==
  ASSUME Laws, Inv, Kept, UsesKept, SameObjects,
         \A v \in Servs : CalmServer(srv[v], srv'[v]),
         queue' \in Queues, Grows, UNCHANGED <<net, loop, stray, dropped>>
  PROVE  Inv'
<1>1. LoopTyped' /\ LoopInv'
  BY SameLoop
<1>2. net' \in Nets /\ net'.waiting \subseteq net.waiting
  BY DEF Inv, Typed
<1>3. ScanKept
  <2>1. loop.i <= loop.i
    BY DEF Inv, Typed, LoopTyped, Loops
  <2> QED BY <2>1 DEF ScanKept
<1> QED BY <1>1, <1>2, <1>3, Frame

(* A step of the loop that leaves the table and the objects alone, outside *)
(* the close events of servers.                                            *)
LEMMA CalmLoop ==
  ASSUME Laws, Inv, UNCHANGED <<srv, con, tbl, stray, dropped>>, queue' \in Queues, Grows,
         net' \in Nets, net'.waiting \subseteq net.waiting, ScanKept,
         loop' \in Loops(Nat), loop'.pc \notin ClosePcs, LoopInv'
  PROVE  Inv'
<1>1. Kept /\ UsesKept
  BY SameTable
<1>2. SameObjects /\ \A v \in Servs : CalmServer(srv[v], srv'[v])
  BY UnmovedObjects
<1>3. LoopTyped'
  BY DEF LoopTyped
<1> QED BY <1>1, <1>2, <1>3, Frame

(* Inv is kept by a step that changes none of its variables, as a failing  *)
(* assertion that stops the program.                                       *)
LEMMA Stutters ==
  ASSUME Laws, Inv, UNCHANGED <<srv, con, tbl, queue, net, loop, stray, dropped>>
  PROVE  Inv'
<1>1. Kept /\ UsesKept
  BY SameTable
<1>2. SameObjects /\ \A v \in Servs : CalmServer(srv[v], srv'[v])
  BY UnmovedObjects
<1>3. queue' \in Queues /\ Grows
  BY SameQueues, Zenon
<1> QED BY <1>1, <1>2, <1>3, CalmCall

(* Resuming the coroutine of a server ends its wait and its timer. *)
LEMMA WokenLemma ==
  ASSUME NEW d \in SrvData, NEW kinds \in SUBSET Awaits
  PROVE  LET f == Woken(d, kinds)
         IN  /\ f \in SrvData /\ f.st = d.st /\ f.life = d.life /\ f.idx = d.idx
             /\ f.cnt = d.cnt /\ f.left = d.left /\ f.list = d.list
             /\ f.at = "" /\ f.timer = FALSE
<1> DEFINE f == Woken(d, kinds)
<1>1. f \in SrvData
  BY Zenon DEF Woken, SrvData
<1>2. /\ f.st = d.st /\ f.life = d.life /\ f.idx = d.idx
      /\ f.cnt = d.cnt /\ f.left = d.left /\ f.list = d.list
  BY Zenon DEF Woken, SrvData
<1>3. f.at = "" /\ f.timer = FALSE
  BY Zenon DEF Woken, SrvData
<1> QED BY <1>1, <1>2, <1>3, Zenon

(* A new state leaves the other members of a server alone. *)
LEMMA WithState ==
  ASSUME NEW d \in SrvData, NEW st \in {"Unused", "Listening", "BeingClosed", "Closed"}
  PROVE  LET f == [d EXCEPT !.st = st]
         IN  /\ f \in SrvData /\ f.st = st /\ f.life = d.life /\ f.idx = d.idx
             /\ f.cnt = d.cnt /\ f.left = d.left /\ f.list = d.list
             /\ f.at = d.at /\ f.timer = d.timer /\ f.ahd = d.ahd
BY Zenon DEF SrvData

(* Posting an event leaves the queues well-formed. *)
LEMMA QueueLemma ==
  ASSUME NEW q \in Queues
  PROVE  /\ \A i \in Nat :
              /\ [q EXCEPT !.listen = Append(@, i)] \in Queues
              /\ [q EXCEPT !.listen = Append(@, i)].close = q.close
              /\ [q EXCEPT !.sock = Append(@, i)] \in Queues
              /\ [q EXCEPT !.sock = Append(@, i)].close = q.close
              /\ [q EXCEPT !.accepted = Append(@, i)] \in Queues
              /\ [q EXCEPT !.accepted = Append(@, i)].close = q.close
         /\ \A p \in Posts :
              /\ [q EXCEPT !.close = Append(@, p)] \in Queues
              /\ [q EXCEPT !.close = Append(@, p)].close = Append(q.close, p)
<1>1. /\ q.listen \in Seq(Nat) /\ q.sock \in Seq(Nat) /\ q.accepted \in Seq(Nat)
      /\ q.close \in Seq(Posts)
  BY DEF Queues
<1>2. \A i \in Nat : /\ Append(q.listen, i) \in Seq(Nat) /\ Append(q.sock, i) \in Seq(Nat)
                     /\ Append(q.accepted, i) \in Seq(Nat)
  BY <1>1
<1>3. \A p \in Posts : Append(q.close, p) \in Seq(Posts)
  BY <1>1
<1> QED BY <1>2, <1>3, Zenon DEF Queues

(* One entry changes, as KeptEntry allows. *)
LEMMA ChangedKept ==
  ASSUME Inv, NEW i \in Places(tbl), NEW x, Changed(Objs, tbl, tbl', i, x),
         KeptEntry(tbl.e[i], x)
  PROVE  Kept /\ ((Used(tbl.e[i]) => Used(x)) => UsesKept)
<1>1. Fits(tbl') /\ tbl' \in Tables(Objs)
  BY DEF Inv, Typed, Fits, Changed
<1>2. Len(tbl'.e) = Len(tbl.e) /\ tbl'.main = tbl.main /\ tbl'.e[i] = x
  BY DEF Changed
<1>3. \A j \in Places(tbl) : j # i => tbl'.e[j] = tbl.e[j]
  BY Zenon DEF Changed
<1>4. \A j \in Places(tbl) : KeptEntry(tbl.e[j], tbl.e[j])
  BY EntryOf DEF KeptEntry
<1>5. \A j \in Places(tbl) : KeptEntry(tbl.e[j], tbl'.e[j])
  BY <1>2, <1>3, <1>4
<1>6. (Used(tbl.e[i]) => Used(x)) => UsesKept
  BY <1>2, <1>3 DEF UsesKept, isUsed
<1> QED BY <1>1, <1>2, <1>5, <1>6 DEF Kept

(* What setAssociated and the event after it do to an entry. *)
LEMMA AssociatedIn ==
  ASSUME NEW O, NEW t \in Tables(O), NEW i \in Places(t)
  PROVE  \E x \in Entries(O) :
            /\ Changed(O, t, setEvent(setAssociated(t, i), i, "IN"), i, x)
            /\ x.st = "SockAssociated" /\ x.fd = "positive"
            /\ x.owner = t.e[i].owner /\ x.rev = t.e[i].rev
<1> DEFINE a == setAssociated(t, i)
           y == [t.e[i] EXCEPT !.st = "SockAssociated", !.fd = "positive"]
           u == setEvent(a, i, "IN")
           x == [a.e[i] EXCEPT !.ev = a.e[i].ev \cup {"IN"}]
<1>1. y \in Entries(O) /\ Changed(O, t, a, i, y)
  BY SetAssociatedLemma, Zenon
<1>2. a \in Tables(O) /\ i \in Places(a) /\ a.e[i] = y
  BY <1>1 DEF Changed, Places
<1>3. x \in Entries(O) /\ Changed(O, a, u, i, x)
  BY <1>2, SetEventLemma, Zenon
<1>4. t.e[i] \in Entries(O)
  BY EntryFields, Zenon
<1>5. /\ y.st = "SockAssociated" /\ y.fd = "positive"
      /\ y.owner = t.e[i].owner /\ y.rev = t.e[i].rev
  BY <1>4 DEF Entries
<1>6. x.st = y.st /\ x.fd = y.fd /\ x.owner = y.owner /\ x.rev = y.rev
  BY <1>1, <1>2 DEF Entries
<1> HIDE DEF x, y, a, u
<1>7. Changed(O, t, u, i, x)
  BY <1>1, <1>3 DEF Changed, Places
<1> QED BY <1>3, <1>5, <1>6, <1>7 DEF u, a

(* A close event just posted is in the queue, and ahead of the loop when   *)
(* that is visiting close events.                                          *)
LEMMA NewPost ==
  ASSUME Inv, NEW p \in Posts, queue' \in Queues,
         queue'.close = Append(queue.close, p)
  PROVE  /\ Grows
         /\ \E k \in 1 .. Len(queue'.close) : queue'.close[k].i = p.i
         /\ loop.pc \in ClosePcs =>
              \E k \in loop.seen + 1 .. Len(queue'.close) : queue'.close[k].i = p.i
<1> DEFINE n == Len(queue.close)
<1>1. queue.close \in Seq(Posts) /\ n \in Nat
  BY DEF Inv, Typed, Queues
<1>2. /\ Len(queue'.close) = n + 1 /\ queue'.close[n + 1] = p
      /\ \A k \in 1 .. n : queue'.close[k] = queue.close[k]
  BY <1>1
<1>3. loop.pc \in ClosePcs => loop.seen \in Nat /\ loop.seen <= n
  BY DEF Inv, Typed, LoopTyped, Loops, LoopInv
<1> HIDE DEF n
<1>4. loop.pc \in ClosePcs => n + 1 \in loop.seen + 1 .. Len(queue'.close)
  BY <1>1, <1>2, <1>3
<1>5. n + 1 \in 1 .. Len(queue'.close) /\ n <= n + 1
  BY <1>1, <1>2
<1> QED BY <1>2, <1>4, <1>5 DEF Grows, n

(* The calls on a server that exists keep Inv: listen and close, with and  *)
(* without a coroutine that awaits the event, and awaiting a connection.   *)
LEMMA CallsInv ==
  Laws /\ Inv /\ (\E v \in Servs : \/ listen(v) \/ a_listen(v) \/ close(v) \/ a_close(v)
                          \/ a_closeWithin(v) \/ a_connection(v)
                          \/ a_connectionWithin(v)) => Inv'
  (* The types of what the code does to a server. *)
<1>WaitsLemma.
  ASSUME NEW d \in SrvData, NEW kind \in Awaits, NEW timed \in BOOLEAN
  PROVE  LET f == Waits(d, kind, timed)
         IN  /\ f \in SrvData /\ f.st = d.st /\ f.life = d.life /\ f.idx = d.idx
             /\ f.cnt = d.cnt /\ f.left = d.left /\ f.list = d.list
             /\ f.at # "" /\ f.ahd # {}
  <2> USE <1>WaitsLemma
  <2> DEFINE f == Waits(d, kind, timed)
  <2>1. f \in SrvData
    BY Zenon DEF Waits, SrvData
  <2>2. /\ f.st = d.st /\ f.life = d.life /\ f.idx = d.idx
        /\ f.cnt = d.cnt /\ f.left = d.left /\ f.list = d.list
    BY Zenon DEF Waits, SrvData
  <2>3. f.at = kind /\ kind \in f.ahd
    BY Zenon DEF Waits, SrvData
  <2> HIDE DEF f
  <2>4. f.at # "" /\ f.ahd # {}
    BY <2>3, Zenon DEF Awaits
  <2> QED BY <2>1, <2>2, <2>4, Zenon DEF f
  (* internal_usage_only_set_listening and what the two calls of listen do *)
  (* with it: the entry becomes associated, the listening event is posted. *)
<1>ListenInv.
  ASSUME Laws, Inv, NEW v \in Servs, NEW d \in SrvData, SameServer(srv[v], d),
         d.st = srv[v].st, Listen(v, d)
  PROVE  Inv'
  <2> USE <1>ListenInv
  <2> DEFINE i == d.idx
  <2>1. CASE CanAssociate(tbl, i)
    <3>1. /\ d.st = "Unused" /\ tbl' = setEvent(setAssociated(tbl, i), i, "IN")
          /\ queue' = [queue EXCEPT !.listen = Append(@, i)]
          /\ srv' = [srv EXCEPT ![v] = d]
          /\ UNCHANGED <<con, net, loop, stray, dropped>>
      BY <2>1 DEF Listen
    <3>2. i \in Places(tbl)
      BY <2>1, InRangeLemma DEF CanAssociate
    <3>3. tbl \in Tables(Objs) /\ queue \in Queues /\ i \in Nat
      BY Zenon DEF Inv, Typed, SrvData
    <3>4. PICK x \in Entries(Objs) :
              /\ Changed(Objs, tbl, tbl', i, x)
              /\ x.st = "SockAssociated" /\ x.fd = "positive"
              /\ x.owner = tbl.e[i].owner /\ x.rev = tbl.e[i].rev
      BY <3>1, <3>2, <3>3, AssociatedIn, Zenon
    <3>5. KeptEntry(tbl.e[i], x) /\ Used(x)
      BY <2>1, <3>4, Zenon DEF KeptEntry, EntryOK, Used, CanAssociate
    <3>6. Kept /\ UsesKept
      BY <3>2, <3>4, <3>5, ChangedKept
    <3>7. SameObjects /\ \A w \in Servs : CalmServer(srv[w], srv'[w])
      BY <3>1, OneServer, Zenon DEF CalmServer
    <3>8. queue' \in Queues /\ queue'.close = queue.close
      BY <3>1, <3>3, QueueLemma, Zenon
    <3>9. Grows
      BY <3>3, <3>8 DEF Grows, Queues
    <3> QED BY <3>1, <3>6, <3>7, <3>8, <3>9, CalmCall
  <2>2. CASE ~CanAssociate(tbl, i)
    BY <2>2, Stutters DEF Listen, Fail
  <2> QED BY <2>1, <2>2
  (* listen() and a_listen() keep Inv. *)
<1>ListenCallsInv.
  ASSUME Laws, Inv, NEW v \in Servs, listen(v) \/ a_listen(v)
  PROVE  Inv'
  <2> USE <1>ListenCallsInv
  <2>1. srv[v] \in SrvData /\ SameServer(srv[v], srv[v])
    BY SameServerRefl
  <2>2. CASE listen(v)
    BY <2>1, <2>2, <1>ListenInv DEF listen
  <2>3. CASE a_listen(v)
    <3> DEFINE d == Waits(srv[v], "listen", FALSE)
    <3>1. "listen" \in Awaits
      BY DEF Awaits
    <3>2. d \in SrvData /\ SameServer(srv[v], d) /\ d.st = srv[v].st
      BY <2>1, <3>1, <1>WaitsLemma, Zenon DEF SameServer
    <3>3. Listen(v, d)
      BY <2>3, Zenon DEF a_listen
    <3> HIDE DEF d
    <3> QED BY <3>2, <3>3, <1>ListenInv
  <2> QED BY <2>2, <2>3
  (* a_connection(), with a timeout or without, keeps Inv. *)
<1>AwaitInv.
  ASSUME Laws, Inv, NEW v \in Servs, NEW timed \in BOOLEAN, AwaitConnection(v, timed)
  PROVE  Inv'
  <2> USE <1>AwaitInv
  <2> DEFINE d == Waits(srv[v], "connection", timed)
  <2>1. "connection" \in Awaits /\ srv[v] \in SrvData
    BY SameServerRefl DEF Awaits
  <2>2. d \in SrvData /\ SameServer(srv[v], d) /\ d.st = srv[v].st
    BY <2>1, <1>WaitsLemma, Zenon DEF SameServer
  <2>3. /\ srv' = [srv EXCEPT ![v] = d] /\ srv[v].st # "Closed"
        /\ UNCHANGED <<con, tbl, queue, net, loop, stray, dropped>>
    BY Zenon DEF AwaitConnection, Calls
  <2> HIDE DEF d
  <2>4. SameObjects /\ \A w \in Servs : CalmServer(srv[w], srv'[w])
    BY <2>2, <2>3, OneServer, Zenon DEF CalmServer
  <2>5. Kept /\ UsesKept
    BY <2>3, SameTable
  <2>6. queue' \in Queues /\ Grows
    BY <2>3, SameQueues, Zenon
  <2> QED BY <2>3, <2>4, <2>5, <2>6, CalmCall
  (* A server is told to close: closingProcedure, of a server that then is d. *)
<1>ClosingInv.
  ASSUME Laws, Inv, NEW v \in Servs, NEW d \in SrvData, SameServer(srv[v], d),
         d.st = srv[v].st, closingProcedure(v, d)
  PROVE  Inv'
  <2> USE <1>ClosingInv
  <2> DEFINE i == d.idx
             f == [d EXCEPT !.st = "BeingClosed"]
             x == [tbl.e[i] EXCEPT !.st = "SockClosed", !.fd = "invalid"]
             p == [i |-> i, err |-> FALSE]
  <2>1. CASE ~Found(i)
    BY <2>1, Stutters DEF closingProcedure, Fail
  <2>2. CASE Found(i)
    <3>1. /\ srv[v].st # "Closed" /\ tbl' = setSocketClosed(tbl, i)
          /\ srv' = [srv EXCEPT ![v] = f]
          /\ queue' = IF d.cnt = 0 THEN CloseReported(queue, d) ELSE queue
          /\ net' = [net EXCEPT !.waiting = @ \ {v}, !.broken = @ \ {v}]
          /\ UNCHANGED <<con, loop, stray, dropped>>
      BY <2>2 DEF closingProcedure, Calls
    <3>2. i \in Places(tbl)
      BY <2>2, InRangeLemma DEF Found
    <3>3. tbl \in Tables(Objs) /\ queue \in Queues /\ i \in Nat /\ net \in Nets
      BY Zenon DEF Inv, Typed, SrvData
    <3>4. Changed(Objs, tbl, tbl', i, x)
      BY <3>1, <3>2, <3>3, SetSocketClosedLemma, Zenon
    <3>5. x.owner = tbl.e[i].owner /\ x.st = "SockClosed" /\ x.rev = tbl.e[i].rev
      BY <3>2, EntryOf DEF Entries
    <3>6. /\ f \in SrvData /\ f.st = "BeingClosed" /\ SameServer(srv[v], f)
      BY WithState, Zenon DEF SameServer
    <3>7. /\ net' \in Nets /\ net'.waiting = net.waiting \ {v}
      BY <3>1, <3>3, Zenon DEF Nets
    <3>8. p \in Posts /\ p.i = i
      BY <3>3 DEF Posts
    <3>9. d.cnt = 0 => queue' = [queue EXCEPT !.close = Append(@, p)]
      BY <3>1 DEF CloseReported
    <3>10. srv[v].idx = i /\ d.cnt = srv[v].cnt
      BY Zenon DEF SameServer
    <3> HIDE DEF x, f, p, i
    <3>11. KeptEntry(tbl.e[i], x) /\ Used(x)
      BY <2>2, <3>5, Zenon DEF KeptEntry, EntryOK, Used, Found, isUsed
    <3>12. Kept /\ UsesKept
      BY <3>2, <3>4, <3>11, ChangedKept
    <3>13. SameObjects /\ srv'[v] = f /\ \A w \in Servs : w # v => srv'[w] = srv[w]
      BY <3>1, <3>6, OneServer, Zenon DEF Inv, Typed
    <3>14. queue' \in Queues /\ Grows
      <4>1. CASE d.cnt = 0
        BY <3>3, <3>8, <3>9, <4>1, QueueLemma, NewPost, ZenonT(60)
      <4>2. CASE d.cnt # 0
        BY <3>1, <3>3, <4>2 DEF Grows, Queues
      <4> QED BY <4>1, <4>2
    <3>15. LoopTyped' /\ LoopInv'
      BY <3>1, <3>12, <3>14, SameLoop
    <3>16. Typed'
      BY SMTT(30), <3>1, <3>7, <3>12, <3>13, <3>14, <3>15 DEF Inv, Typed, SameObjects, Kept
    <3>17. OwnerInv' /\ ListInv'
      BY <3>12, <3>13, SameOwner, SameList
    <3>18. ScanKept
      <4>1. loop.i \in Nat /\ tbl.main \in Nat /\ tbl.main <= Len(tbl.e) /\ Len(tbl.e) \in Nat
        BY DEF Inv, Typed, LoopTyped, Loops, Tables, Fits
      <4>2. ASSUME NEW j \in loop.i + 1 .. tbl.main, tbl'.e[j].st = "SockAssociated",
                   tbl.e[j].owner \in net.waiting
            PROVE  tbl.e[j].owner \in net'.waiting
        <5>1. j \in Places(tbl)
          BY <4>1 DEF Places
        <5>2. isUsed(tbl, j)
          BY <3>12, <4>2, <5>1, Zenon DEF Kept, KeptEntry, isUsed, Used
        <5>3. j # i
          BY <3>4, <3>5, <4>2, Zenon DEF Changed
        <5>4. tbl.e[j].owner # v
          BY <3>10, <5>1, <5>2, <5>3, EntryOf DEF Idx
        <5> QED BY <3>7, <4>2, <5>4
      <4>3. loop.i <= loop.i
        BY <4>1
      <4> QED BY <3>1, <4>2, <4>3 DEF ScanKept
    <3>19. WaitInv'
      <4>1. \A s \in Socks : con'[s].life = con[s].life
        BY <3>1
      <4>2. loop'.i \in Nat
        BY <3>15 DEF LoopTyped, Loops
      <4> QED BY <3>7, <3>12, <3>18, <4>1, <4>2, KeptWait
    <3>20. ClosedInv'
      <4>1. \A w \in Servs : srv'[w].st = "Closed" => srv'[w] = srv[w]
        BY <3>6, <3>13
      <4> QED BY <3>12, <4>1, KeptClosed
    <3>21. OwnInv'
      <4>1. \A w \in Servs : srv[w].st = "Closed" => srv'[w].st = "Closed"
        BY <3>1, <3>13
      <4> QED BY <3>1, <3>12, <3>13, <4>1, SameOwn
    <3>22. DueInv'
      <4>1. SUFFICES ASSUME NEW w \in Servs, Due(w)'
                     PROVE  /\ Posted(w)'
                            /\ loop'.pc \in ClosePcs =>
                                 \/ \E k \in 1 .. Len(loop'.todo) : loop'.todo[k].i = srv'[w].idx
                                 \/ \E k \in loop'.seen + 1 .. Len(queue'.close) :
                                      queue'.close[k].i = srv'[w].idx
        BY DEF DueInv, InTodo, InNew
      <4>2. CASE w # v
        <5>1. Due(w) /\ srv'[w].idx = srv[w].idx
          BY <3>1, <3>13, <4>1, <4>2 DEF Due
        <5> QED BY <3>1, <3>14, <5>1, GrowsPosted
      <4>3. CASE w = v
        <5>1. d.left = 0 /\ d.list = {} /\ srv'[v].idx = i
          BY <3>6, <3>10, <3>13, <4>1, <4>3, Zenon DEF Due, SameServer
        <5>2. srv[v].cnt - srv[v].left = Cardinality(srv[v].list) /\ srv[v].cnt \in Int
              /\ srv[v].left = d.left /\ srv[v].list = d.list
          BY Zenon DEF Inv, Typed, ListInv, SrvData, SameServer
        <5>3. Cardinality({}) = 0
          BY DEF Laws, EmptyLaw
        <5>4. d.cnt = 0
          BY <3>10, <5>1, <5>2, <5>3
        <5>5. queue'.close = Append(queue.close, p)
          BY <3>3, <3>8, <3>9, <5>4, QueueLemma, ZenonT(60)
        <5>6. /\ \E k \in 1 .. Len(queue'.close) : queue'.close[k].i = i
              /\ loop.pc \in ClosePcs =>
                   \E k \in loop.seen + 1 .. Len(queue'.close) : queue'.close[k].i = i
          BY <3>8, <3>14, <5>5, NewPost, Zenon
        <5> QED BY <3>1, <4>3, <5>1, <5>6 DEF Posted
      <4> QED BY <4>2, <4>3
    <3> QED BY <3>15, <3>16, <3>17, <3>19, <3>20, <3>21, <3>22, Zenon DEF Inv
  <2> QED BY <2>1, <2>2
  (* close() and both forms of a_close() keep Inv: the close event is posted *)
  (* in the same step in which the server comes to owe it. *)
<1>CloseCallsInv.
  ASSUME Laws, Inv, NEW v \in Servs, close(v) \/ a_close(v) \/ a_closeWithin(v)
  PROVE  Inv'
  <2> USE <1>CloseCallsInv
  <2>1. srv[v] \in SrvData /\ SameServer(srv[v], srv[v])
    BY SameServerRefl
  <2>2. CASE close(v)
    BY SMTT(30), <2>1, <2>2, <1>ClosingInv DEF close
  <2>3. ASSUME NEW timed \in BOOLEAN, closingProcedure(v, Waits(srv[v], "close", timed))
        PROVE  Inv'
    <3> DEFINE d == Waits(srv[v], "close", timed)
    <3>1. "close" \in Awaits
      BY DEF Awaits
    <3>2. d \in SrvData /\ SameServer(srv[v], d) /\ d.st = srv[v].st
      BY <2>1, <3>1, <1>WaitsLemma, ZenonT(60) DEF SameServer
    <3>3. closingProcedure(v, d)
      BY <2>3
    <3> HIDE DEF d
    <3> QED BY <3>2, <3>3, <1>ClosingInv
  <2> QED BY <2>2, <2>3, Zenon DEF a_close, a_closeWithin
<1> QED BY <1>ListenCallsInv, <1>AwaitInv, <1>CloseCallsInv, Zenon
            DEF a_connection, a_connectionWithin

-----------------------------------------------------------------------------
(* Closing a socket changes its state and posts an event; the servers and  *)
(* the close events of servers stay.                                       *)
LEMMA SocketState ==
  ASSUME Inv, NEW s \in Socks, NEW how \in {"Closing", "ErrorClosing"},
         CloseSocket(s, how), srv' = srv
  PROVE  /\ SameObjects /\ \A v \in Servs : CalmServer(srv[v], srv'[v])
         /\ queue' \in Queues /\ Grows
<1> DEFINE d == [con[s] EXCEPT !.st = how]
<1>1. con \in [Socks -> ConData] /\ con[s] \in ConData /\ queue \in Queues
      /\ con[s].idx \in Nat
  BY DEF Inv, Typed, ConData
<1>2. d \in ConData /\ SameSocket(con[s], d)
  BY <1>1 DEF ConData, SameSocket
<1>3. con' = [con EXCEPT ![s] = d]
  BY DEF CloseSocket
<1> HIDE DEF d
<1>4. con' \in [Socks -> ConData] /\ \A r \in Socks : SameSocket(con[r], con'[r])
  BY <1>1, <1>2, <1>3 DEF SameSocket
<1>5. \A v \in Servs : SameServer(srv[v], srv'[v]) /\ CalmServer(srv[v], srv'[v])
  BY SameServerRefl DEF CalmServer
<1>6. queue' \in Queues /\ queue'.close = queue.close
  BY <1>1, QueueLemma, Zenon DEF CloseSocket
<1>7. Grows
  BY <1>1, <1>6 DEF Grows, Queues
<1> QED BY <1>4, <1>5, <1>6, <1>7 DEF SameObjects, Inv, Typed

(* destroy() of a connection by its owner keeps Inv. *)
LEMMA DestroyInv ==
  ASSUME Laws, Inv, NEW s \in Socks, destroy(s)
  PROVE  Inv'
<1>1. CloseSocket(s, "Closing") /\ UNCHANGED <<srv, tbl, net, loop, stray, dropped>>
  BY DEF destroy
<1>2. /\ SameObjects /\ \A v \in Servs : CalmServer(srv[v], srv'[v])
      /\ queue' \in Queues /\ Grows
  BY <1>1, SocketState
<1>3. Kept /\ UsesKept
  BY <1>1, SameTable
<1> QED BY <1>1, <1>2, <1>3, CalmCall

(* The sockets in S have an index of the table. *)
Placed(S) == \A s \in S : con[s].idx \in Places(tbl)

(* ~ServerBase: v and the sockets it owns are gone, their entries free.    *)
Dropped(v) ==
  LET i == srv[v].idx
      at == {con[s].idx : s \in srv[v].list}
  IN  /\ tbl' \in Tables(Objs) /\ Fits(tbl')
      /\ Len(tbl'.e) = Len(tbl.e) /\ tbl'.main = tbl.main
      /\ \A j \in Places(tbl) :
           /\ tbl'.e[j].owner = tbl.e[j].owner /\ tbl'.e[j].rev = tbl.e[j].rev
           /\ j \in at \cup {i} => tbl'.e[j].st = "Unused"
           /\ j \notin at \cup {i} => tbl'.e[j] = tbl.e[j]
      /\ stray => stray'
      /\ i \in Places(tbl) \ at /\ isUsed(tbl, i) /\ tbl.e[i].owner # v => stray'

(* What becomes of the objects. *)
Gone(v) ==
  /\ srv' \in [Servs -> SrvData] /\ con' \in [Socks -> ConData]
  /\ srv'[v].life = "gone" /\ srv'[v].idx = 0 /\ srv'[v].st = "Unused"
  /\ srv'[v].cnt = 0 /\ srv'[v].left = 0 /\ srv'[v].list = {} /\ srv'[v].at = ""
  /\ srv'[v].timer = FALSE
  /\ \A w \in Servs : w # v => srv'[w] = srv[w]
  /\ \A s \in srv[v].list : con'[s].life = "gone" /\ con'[s].idx = 0
  /\ \A s \in Socks : s \notin srv[v].list => con'[s] = con[s]

(* Dropping the last pointer to a server keeps Inv: the destructors close  *)
(* and free its connections, one after the other, and its entry.           *)
LEMMA DropServerInv ==
  Laws /\ Inv /\ (\E v \in Servs : dropServer(v)) => Inv'
  (* The entries that the destructors of sockets in S free. *)
<1>FreedLemma.
  ASSUME Laws, Inv, NEW S \in SUBSET Socks, Placed(S)
  PROVE  LET at == {con[s].idx : s \in S}
         IN  /\ Freed(S) \in Tables(Objs) /\ Len(Freed(S).e) = Len(tbl.e)
             /\ Freed(S).main = tbl.main /\ Freed(S).cap = tbl.cap
             /\ \A j \in Places(tbl) :
                  /\ Freed(S).e[j].owner = tbl.e[j].owner
                  /\ Freed(S).e[j].rev = tbl.e[j].rev
                  /\ j \in at => Freed(S).e[j].st = "Unused"
                  /\ j \notin at => Freed(S).e[j] = tbl.e[j]
  <2> USE <1>FreedLemma
  <2> DEFINE at == {con[s].idx : s \in S}
             q == [i \in 1 .. Len(tbl.e) |->
                      IF i \in at THEN [tbl.e[i] EXCEPT !.st = "Unused", !.index = 0,
                                                        !.fd = "invalid"]
                                  ELSE tbl.e[i]]
             C == {i \in at : tbl.e[i].fd # "invalid"}
             a == tbl.assoc - Cardinality(C)
             n == tbl.used - Cardinality(S)
  <2>1. tbl \in Tables(Objs)
    BY DEF Inv, Typed
  <2>2. Len(tbl.e) \in Nat
    BY <2>1 DEF Tables
  <2>3. tbl.main \in Nat /\ tbl.cap \in Nat /\ tbl.assoc \in Int /\ tbl.used \in Int
    BY <2>1 DEF Tables
  <2>4. Cardinality(S) \in Nat
    <3>1. IsFiniteSet(S)
      BY ServsFinite DEF Laws, SubsetLaw
    <3> QED BY <3>1 DEF Laws, CountLaw
  <2>5. Cardinality(C) \in Nat
    <3>1. IsFiniteSet(1 .. Len(tbl.e))
      BY <2>2 DEF Laws, IntervalLaw
    <3>2. C \subseteq 1 .. Len(tbl.e)
      BY DEF Places, Placed
    <3> HIDE DEF C
    <3>3. IsFiniteSet(C)
      BY <3>1, <3>2, Zenon DEF Laws, SubsetLaw
    <3> QED BY <3>3 DEF Laws, CountLaw
  <2>6. a \in Int /\ n \in Int
    <3> HIDE DEF C
    <3> QED BY <2>3, <2>4, <2>5
  <2>7. ASSUME NEW j \in Places(tbl)
        PROVE  /\ q[j] \in Entries(Objs)
               /\ q[j].owner = tbl.e[j].owner /\ q[j].rev = tbl.e[j].rev
               /\ j \in at => q[j].st = "Unused"
               /\ j \notin at => q[j] = tbl.e[j]
    <3>1. tbl.e[j] \in Entries(Objs)
      BY EntryOf
    <3>2. CASE j \in at
      <4> DEFINE x == [tbl.e[j] EXCEPT !.st = "Unused", !.index = 0, !.fd = "invalid"]
      <4>1. q[j] = x
        BY <3>2, Zenon DEF Places
      <4> HIDE DEF q, at
      <4>2. x \in Entries(Objs)
        BY <2>1, SetUnusedLemma, Zenon
      <4> QED BY <3>1, <3>2, <4>1, <4>2 DEF Entries
    <3>3. CASE j \notin at
      <4>1. q[j] = tbl.e[j]
        BY <3>3, Zenon DEF Places
      <4> HIDE DEF q, at
      <4> QED BY <3>1, <3>3, <4>1
    <3> QED BY <3>2, <3>3, Zenon
  <2>8. q \in Seq(Entries(Objs)) /\ Len(q) = Len(tbl.e)
    <3>1. \A i \in 1 .. Len(tbl.e) : q[i] \in Entries(Objs)
      BY <2>7, Zenon DEF Places
    <3>2. q \in [1 .. Len(tbl.e) -> Entries(Objs)]
      BY <3>1, Zenon
    <3> HIDE DEF q
    <3> QED BY <2>2, <3>2, SeqOfLength
  <2>9. Freed(S) = Recounted(tbl, q, a, n)
    BY DEF Freed, Recounted
  <2> HIDE DEF q, a, n, C
  <2>10. Freed(S) = Table(q, tbl.main, tbl.cap, a, n)
    BY <2>1, <2>9, UpdatedEntriesCounts, Zenon
  <2>11. /\ Freed(S) \in Tables(Objs) /\ Freed(S).e = q
         /\ Freed(S).main = tbl.main /\ Freed(S).cap = tbl.cap
    BY <2>3, <2>6, <2>8, <2>10, TableType
  <2> QED BY <2>7, <2>8, <2>11
  (* dropServer frees the entries of the server and of its connections, and *)
  (* notes when one of them was not theirs. *)
<1>DroppedTable.
  ASSUME Laws, Inv, NEW v \in Servs,
         \A s \in srv[v].list : InRange(tbl, con[s].idx),
         InRange(Freed(srv[v].list), srv[v].idx),
         tbl' = setUnused(Freed(srv[v].list), srv[v].idx),
         stray' = (stray \/ (/\ isUsed(Freed(srv[v].list), srv[v].idx)
                             /\ Freed(srv[v].list).e[srv[v].idx].owner # v))
  PROVE  Dropped(v)
  <2> USE <1>DroppedTable
  <2> DEFINE S == srv[v].list
             i == srv[v].idx
             at == {con[s].idx : s \in S}
             t == Freed(S)
             x == [t.e[i] EXCEPT !.st = "Unused", !.index = 0, !.fd = "invalid"]
  <2>1. S \in SUBSET Socks
    BY Zenon DEF Inv, Typed, SrvData
  <2>2. Placed(S)
    BY InRangeLemma, Zenon DEF Placed
  <2>3. tbl' = setUnused(t, i) /\ InRange(t, i)
    BY Zenon
  <2>4. stray' = (stray \/ (isUsed(t, i) /\ t.e[i].owner # v))
    OBVIOUS
  <2>5. /\ t \in Tables(Objs) /\ Len(t.e) = Len(tbl.e)
        /\ t.main = tbl.main /\ t.cap = tbl.cap
        /\ \A j \in Places(tbl) :
             /\ t.e[j].owner = tbl.e[j].owner
             /\ t.e[j].rev = tbl.e[j].rev
             /\ j \in at => t.e[j].st = "Unused"
             /\ j \notin at => t.e[j] = tbl.e[j]
    <3> HIDE DEF S
    <3> QED BY <2>1, <2>2, <1>FreedLemma, ZenonT(60)
  <2> HIDE DEF t, S, at, i
  <2>6. Places(t) = Places(tbl) /\ i \in Places(tbl)
    <3>1. InRange(tbl, i)
      BY <2>3, <2>5, Zenon DEF InRange
    <3> QED BY <2>5, <3>1, InRangeLemma DEF Places
  <2>7. Changed(Objs, t, tbl', i, x)
    <3>1. t \in Tables(Objs) /\ i \in Places(t)
      BY <2>5, <2>6, Zenon
    <3>2. Changed(Objs, t, setUnused(t, i), i, x)
      BY <3>1, SetUnusedLemma, Zenon
    <3> QED BY <2>3, <3>2
  <2>8. x.st = "Unused" /\ x.owner = t.e[i].owner /\ x.rev = t.e[i].rev
    <3>1. t.e[i] \in Entries(Objs)
      BY <2>5, <2>6, EntryFields, Zenon
    <3> QED BY <3>1 DEF Entries
  <2> HIDE DEF x
  <2>9. /\ tbl' \in Tables(Objs) /\ Len(tbl'.e) = Len(tbl.e) /\ tbl'.main = tbl.main
        /\ tbl'.cap = tbl.cap /\ tbl'.e[i] = x
        /\ \A j \in Places(tbl) : j # i => tbl'.e[j] = t.e[j]
    BY <2>5, <2>6, <2>7, Zenon DEF Changed
  <2>10. Fits(tbl')
    BY Zenon, <2>9 DEF Inv, Typed, Fits
  <2>11. \A j \in Places(tbl) :
             /\ tbl'.e[j].owner = tbl.e[j].owner /\ tbl'.e[j].rev = tbl.e[j].rev
             /\ j \in at \cup {i} => tbl'.e[j].st = "Unused"
             /\ j \notin at \cup {i} => tbl'.e[j] = tbl.e[j]
    BY <2>5, <2>8, <2>9, Zenon
  <2>12. i \in Places(tbl) \ at /\ isUsed(tbl, i) /\ tbl.e[i].owner # v => stray'
    BY <2>4, <2>5, Zenon DEF isUsed
  <2> QED BY <2>4, <2>9, <2>10, <2>11, <2>12, Zenon DEF Dropped, at, S, i
  (* After dropServer the server and its connections are gone. *)
<1>GoneObjects.
  ASSUME Inv, NEW v \in Servs,
         srv' = [srv EXCEPT ![v] = NoServer("gone")],
         con' = [s \in Socks |-> IF s \in srv[v].list THEN Socket("gone", 0, 0) ELSE con[s]]
  PROVE  Gone(v)
  <2> USE <1>GoneObjects
  <2> DEFINE d == NoServer("gone")
             f == Socket("gone", 0, 0)
  <2>1. /\ d \in SrvData /\ d.life = "gone" /\ d.idx = 0 /\ d.st = "Unused"
        /\ d.cnt = 0 /\ d.left = 0 /\ d.list = {} /\ d.at = "" /\ d.timer = FALSE
    BY NoServerLemma, Zenon DEF Lives
  <2>2. f \in ConData /\ f.life = "gone" /\ f.idx = 0
    BY ServersAssumption DEF Socket, ConData, Lives
  <2> HIDE DEF d, f
  <2>3. srv \in [Servs -> SrvData] /\ con \in [Socks -> ConData] /\ srv[v].list \subseteq Socks
    BY Zenon DEF Inv, Typed, SrvData
  <2>4. srv' \in [Servs -> SrvData] /\ srv'[v] = d /\ \A w \in Servs : w # v => srv'[w] = srv[w]
    BY <2>1, <2>3, Zenon DEF d
  <2>5. /\ con' \in [Socks -> ConData] /\ \A s \in srv[v].list : con'[s] = f
        /\ \A s \in Socks : s \notin srv[v].list => con'[s] = con[s]
    BY <2>2, <2>3, Zenon DEF f
  <2> QED BY <2>1, <2>2, <2>4, <2>5, Zenon DEF Gone
  (* The destructors only take entries out of use. *)
<1>DroppedKept.
  ASSUME Inv, NEW v \in Servs, Dropped(v)
  PROVE  Kept
  <2> USE <1>DroppedKept
  <2>1. ASSUME NEW j \in Places(tbl)
        PROVE  KeptEntry(tbl.e[j], tbl'.e[j])
    <3>1. EntryOK(tbl.e[j])
      BY EntryOf, Zenon
    <3>2. tbl'.e[j].owner = tbl.e[j].owner /\ tbl'.e[j].rev = tbl.e[j].rev
          /\ (tbl'.e[j].st = "Unused" \/ tbl'.e[j] = tbl.e[j])
      BY Zenon DEF Dropped
    <3> QED BY <3>1, <3>2 DEF KeptEntry, EntryOK, Used
  <2> QED BY <2>1, Zenon DEF Kept, Dropped
  (* An entry that is used afterwards belongs to neither of them. *)
<1>DroppedUsed.
  ASSUME Laws, Inv, NEW v \in Servs, Dropped(v), Gone(v), NEW j \in Places(tbl),
         isUsed(tbl', j)
  PROVE  LET o == tbl.e[j].owner
         IN  /\ o \in Objs /\ o # v /\ o \notin srv[v].list /\ isUsed(tbl, j)
             /\ Life(srv', con', o) = "live" /\ Idx(srv', con', o) = Idx(srv, con, o)
  <2> USE <1>DroppedUsed
  <2> DEFINE o == tbl.e[j].owner
             at == {con[s].idx : s \in srv[v].list}
  <2>1. j \notin at \cup {srv[v].idx} /\ tbl'.e[j] = tbl.e[j]
    BY Zenon DEF Dropped, isUsed, Used
  <2>2. isUsed(tbl, j)
    BY <2>1 DEF isUsed
  <2>3. o \in Objs /\ Life(srv, con, o) = "live" /\ Idx(srv, con, o) = j
    BY <2>2, EntryOf, Zenon
  <2>4. o # v
    BY <2>1, <2>3, Zenon DEF Idx
  <2>5. o \notin srv[v].list
    <3>1. srv[v].list \subseteq Socks
      BY Zenon DEF Inv, Typed, SrvData
    <3>2. o \in srv[v].list => con[o].idx = j
      BY <2>3, <3>1, ServsFinite DEF Idx
    <3> QED BY <2>1, <3>2
  <2>6. (o \in Servs => srv'[o] = srv[o]) /\ (o \in Socks => con'[o] = con[o])
    BY <2>4, <2>5, Zenon DEF Gone
  <2>7. Life(srv', con', o) = "live" /\ Idx(srv', con', o) = Idx(srv, con, o)
    BY <2>3, <2>6, Zenon DEF Life, Idx, Objs
  <2> QED BY <2>2, <2>3, <2>4, <2>5, <2>7, Zenon
  (* Unless it was a stray one, an entry of another object stays in use. *)
<1>DroppedNotStray.
  ASSUME Laws, Inv, NEW v \in Servs, Dropped(v), ~stray', NEW k \in Places(tbl),
         isUsed(tbl, k), tbl.e[k].owner # v, tbl.e[k].owner \notin srv[v].list
  PROVE  isUsed(tbl', k)
  <2> USE <1>DroppedNotStray
  <2> DEFINE i == srv[v].idx
             at == {con[s].idx : s \in srv[v].list}
  <2>1. ~stray
    BY DEF Dropped
  <2>2. k \notin at
    <3>1. SUFFICES ASSUME NEW s \in srv[v].list, con[s].idx = k PROVE FALSE
      OBVIOUS
    <3>2. s \in Socks /\ s \notin Servs /\ con[s].life = "live"
      BY ServsFinite, Zenon DEF Inv, Typed, SrvData, ListInv
    <3>3. s \in Objs /\ NeedsEntry(srv, con, s) /\ Idx(srv, con, s) = k
      BY <3>1, <3>2, Zenon DEF NeedsEntry, Life, Idx, Objs
    <3>4. HasEntry(tbl, k, s)
      BY <2>1, <3>3, Zenon DEF Inv, OwnInv
    <3> QED BY <3>4 DEF HasEntry
  <2>3. k # i
    BY <2>2, Zenon DEF Dropped
  <2>4. tbl'.e[k] = tbl.e[k]
    BY <2>2, <2>3, Zenon DEF Dropped
  <2> QED BY <2>4, Zenon DEF isUsed
  (* OwnInv is kept: an entry they took from another object is noted in *)
  (* stray. *)
<1>DroppedOwn.
  ASSUME Laws, Inv, NEW v \in Servs, Dropped(v), Gone(v), loop' = loop,
         loop.pc = "inClose" => loop.cur # v
  PROVE  OwnInv'
  <2> USE <1>DroppedOwn
  <2>1. SUFFICES ASSUME ~stray' PROVE OwnInv'
    BY Zenon DEF OwnInv
  <2>2. ~stray
    BY <2>1 DEF Dropped
  <2>3. srv[v].list \subseteq Socks
    BY Zenon DEF Inv, Typed, SrvData
  <2>4. ASSUME NEW o \in Objs, NeedsEntry(srv', con', o)
        PROVE  HasEntry(tbl', Idx(srv', con', o), o)
    <3>1. o # v /\ o \notin srv[v].list
      <4>1. Life(srv', con', o) # "gone"
        BY <2>4 DEF NeedsEntry
      <4>2. o = v => Life(srv', con', o) = "gone"
        BY Zenon DEF Gone, Life
      <4>3. o \in srv[v].list => Life(srv', con', o) = "gone"
        BY <2>3, ServsFinite, Zenon DEF Gone, Life
      <4> QED BY <4>1, <4>2, <4>3, Zenon
    <3>2. (o \in Servs => srv'[o] = srv[o]) /\ (o \in Socks => con'[o] = con[o])
      BY <3>1, Zenon DEF Gone
    <3>3. NeedsEntry(srv, con, o) /\ Idx(srv', con', o) = Idx(srv, con, o)
      BY <2>4, <3>2 DEF NeedsEntry, Life, Idx, Objs
    <3>4. HasEntry(tbl, Idx(srv, con, o), o)
      BY <2>2, <3>3, Zenon DEF Inv, OwnInv
    <3>5. isUsed(tbl', Idx(srv, con, o))
      BY <2>1, <3>1, <3>4, <1>DroppedNotStray, Zenon DEF HasEntry
    <3> QED BY <3>3, <3>4, <3>5, HasEntryKept, <1>DroppedKept, Zenon
  <2>5. ASSUME loop'.pc = "inClose"
        PROVE  /\ isUsed(tbl', Head(loop'.todo).i)
               /\ tbl'.e[Head(loop'.todo).i].owner = loop'.cur
               /\ loop'.cur \in Servs /\ srv'[loop'.cur].st = "Closed"
    <3> DEFINE k == Head(loop.todo).i
    <3>1. k \in Places(tbl)
      BY <2>5, ZenonT(60) DEF Inv, LoopInv
    <3>2. isUsed(tbl, k) /\ tbl.e[k].owner = loop.cur /\ loop.cur \in Servs
          /\ srv[loop.cur].st = "Closed" /\ loop.cur # v
      BY <2>2, <2>5 DEF Inv, OwnInv
    <3> HIDE DEF k
    <3>3. loop.cur \notin srv[v].list
      BY <2>3, <3>2, ServsFinite
    <3>4. isUsed(tbl', k)
      BY <2>1, <3>1, <3>2, <3>3, <1>DroppedNotStray
    <3>5. tbl'.e[k].owner = loop.cur /\ srv'[loop.cur] = srv[loop.cur]
      BY <3>1, <3>2, Zenon DEF Dropped, Gone
    <3> QED BY Zenon, <3>2, <3>4, <3>5 DEF k
  <2> QED BY <2>4, <2>5, Zenon DEF OwnInv
  (* The lists of the other servers hold none of the sockets that are gone. *)
<1>GoneList.
  ASSUME Laws, Inv, NEW v \in Servs, Gone(v)
  PROVE  ListInv'
  <2> USE <1>GoneList
  <2>1. ASSUME NEW w \in Servs
        PROVE  /\ srv'[w].cnt - srv'[w].left = Cardinality(srv'[w].list)
               /\ srv'[w].timer => srv'[w].at # ""
               /\ srv'[w].at # "" => srv'[w].ahd # {}
               /\ \A s \in srv'[w].list : con'[s].life = "live" /\ con'[s].server = w
    <3>1. CASE w = v
      <4>1. Cardinality({}) = 0 /\ 0 - 0 = 0
        BY DEF Laws, EmptyLaw
      <4> QED BY <3>1, <4>1, Zenon DEF Gone
    <3>2. CASE w # v
      <4>1. srv'[w] = srv[w]
        BY <3>2, Zenon DEF Gone
      <4>2. /\ srv[w].cnt - srv[w].left = Cardinality(srv[w].list)
            /\ srv[w].timer => srv[w].at # ""
            /\ srv[w].at # "" => srv[w].ahd # {}
        BY Zenon DEF Inv, ListInv
      <4>3. ASSUME NEW s \in srv[w].list
            PROVE  con'[s].life = "live" /\ con'[s].server = w
        <5>1. s \in Socks /\ con[s].life = "live" /\ con[s].server = w
          BY Zenon DEF Inv, Typed, SrvData, ListInv
        <5>2. s \notin srv[v].list
          BY <3>2, <5>1, Zenon DEF Inv, ListInv
        <5> QED BY <5>1, <5>2, Zenon DEF Gone
      <4> QED BY <4>1, <4>2, <4>3, Zenon
    <3> QED BY <3>1, <3>2, Zenon
  <2>2. ASSUME NEW s \in Socks, con'[s].life = "live"
        PROVE  /\ con'[s].server \in Servs /\ srv'[con'[s].server].life = "live"
               /\ s \in srv'[con'[s].server].list
    <3>1. s \notin srv[v].list /\ con'[s] = con[s]
      BY <2>2, Zenon DEF Gone
    <3>2. /\ con[s].server \in Servs /\ srv[con[s].server].life = "live"
          /\ s \in srv[con[s].server].list
      BY <2>2, <3>1, Zenon DEF Inv, ListInv
    <3>3. srv'[con[s].server] = srv[con[s].server]
      BY <3>1, <3>2, Zenon DEF Gone
    <3> QED BY <3>1, <3>2, <3>3
  <2> QED BY <2>1, <2>2, Zenon DEF ListInv
  (* Posting the close events of several sockets leaves the queues well- *)
  (* formed. *)
<1>MoreSocks.
  ASSUME NEW q \in Queues, NEW r \in Seq(Nat)
  PROVE  /\ [q EXCEPT !.sock = @ \o r] \in Queues
         /\ [q EXCEPT !.sock = @ \o r].close = q.close
  <2> USE <1>MoreSocks
  <2>1. q.sock \in Seq(Nat)
    BY DEF Queues
  <2>2. q.sock \o r \in Seq(Nat)
    BY <2>1
  <2> QED BY <2>2, Zenon DEF Queues
  (* The user code letting go of a server keeps Inv. *)
<1>DropInv.
  ASSUME Laws, Inv, NEW v \in Servs, dropServer(v)
  PROVE  Inv'
  <2> USE <1>DropInv
  <2> DEFINE owned == srv[v].list
             open == {s \in owned : con[s].st = "Connected"}
             ok == (\A s \in owned : InRange(tbl, con[s].idx)) /\ InRange(Freed(owned), srv[v].idx)
  <2>1. CASE ~ok
    BY <2>1, Stutters DEF dropServer, Fail
  <2>2. CASE ok
    <3>1. /\ tbl' = setUnused(Freed(owned), srv[v].idx) /\ loop.cur # v
          /\ stray' = (stray \/ (/\ isUsed(Freed(owned), srv[v].idx)
                                 /\ Freed(owned).e[srv[v].idx].owner # v))
          /\ srv' = [srv EXCEPT ![v] = NoServer("gone")]
          /\ con' = [s \in Socks |-> IF s \in owned THEN Socket("gone", 0, 0) ELSE con[s]]
          /\ \E q \in Bijection(1 .. Cardinality(open), open) :
               queue' = [queue EXCEPT !.sock = @ \o [k \in DOMAIN q |-> con[q[k]].idx]]
          /\ net' = [net EXCEPT !.waiting = @ \ {v}, !.broken = @ \ {v}, !.lost = @ \ owned]
          /\ UNCHANGED <<loop, dropped>>
      BY <2>2, Zenon DEF dropServer
    <3>2. Dropped(v)
      BY <2>2, <3>1, <1>DroppedTable, Zenon
    <3>3. Gone(v)
      BY <3>1, <1>GoneObjects, Zenon
    <3>4. Kept
      BY <3>2, <1>DroppedKept
    <3>5. owned \subseteq Socks /\ queue \in Queues /\ net \in Nets
      BY Zenon DEF Inv, Typed, SrvData
    <3>6. queue' \in Queues /\ queue'.close = queue.close
      <4>1. PICK q \in Bijection(1 .. Cardinality(open), open) :
               queue' = [queue EXCEPT !.sock = @ \o [k \in DOMAIN q |-> con[q[k]].idx]]
        BY <3>1, Zenon
      <4> DEFINE n == Cardinality(open)
                 r == [k \in DOMAIN q |-> con[q[k]].idx]
      <4>2. n \in Nat
        <5>1. open \subseteq Socks
          BY <3>5
        <5> HIDE DEF open
        <5>2. IsFiniteSet(open)
          BY <5>1, ServsFinite, Zenon DEF Laws, SubsetLaw
        <5> QED BY <5>2, Zenon DEF Laws, CountLaw
      <4>3. DOMAIN q = 1 .. n /\ \A k \in 1 .. n : q[k] \in Socks
        BY <3>5, Zenon DEF Bijection, Injection
      <4>4. \A s \in Socks : con[s].idx \in Nat
        BY Zenon DEF Inv, Typed, ConData
      <4>5. r \in [1 .. n -> Nat]
        BY <4>3, <4>4
      <4>6. queue' = [queue EXCEPT !.sock = @ \o r]
        BY <4>1
      <4> HIDE DEF r, n
      <4>7. r \in Seq(Nat)
        BY <4>2, <4>5, SeqOfLength
      <4> QED BY <3>5, <4>6, <4>7, <1>MoreSocks, Zenon
    <3>7. Grows
      BY <3>5, <3>6, SameClose, Zenon
    <3>8. LoopTyped' /\ LoopInv'
      BY <3>1, <3>4, <3>6, <3>7, SameLoop
    <3>9. net' \in Nets /\ net'.waiting = net.waiting \ {v}
      BY <3>1, <3>5, Zenon DEF Nets
    <3>10. stray' \in BOOLEAN /\ (stray => stray')
      BY <3>1 DEF Inv, Typed
    <3> HIDE DEF owned, open, ok
    <3>11. Typed'
      BY <3>1, <3>3, <3>4, <3>6, <3>8, <3>9, <3>10, Zenon DEF Inv, Typed, Kept,
         Gone
    <3>12. OwnerInv'
      <4>1. ASSUME NEW o \in Objs
            PROVE  /\ Life(srv, con, o) # "none" => Life(srv', con', o) # "none"
                   /\ Idx(srv', con', o) \in {Idx(srv, con, o), 0}
        <5>1. CASE o \in Servs
          BY <3>3, <5>1, Zenon DEF Gone, Life, Idx
        <5>2. CASE o \notin Servs
          <6>1. o \in Socks
            BY <5>2, Zenon DEF Objs
          <6> QED BY <3>3, <5>2, <6>1, Zenon DEF Gone, Life, Idx
        <5> QED BY <5>1, <5>2
      <4>2. ASSUME NEW j \in Places(tbl), isUsed(tbl', j)
            PROVE  /\ Life(srv', con', tbl.e[j].owner) = "live"
                   /\ Idx(srv', con', tbl.e[j].owner) = Idx(srv, con, tbl.e[j].owner)
        BY Zenon, <3>2, <3>3, <4>2, <1>DroppedUsed
      <4> QED BY <3>4, <4>1, <4>2, KeptOwner, Zenon
    <3>13. ListInv'
      BY <3>3, <1>GoneList
    <3>14. WaitInv'
      <4>1. loop.i \in Nat /\ tbl.main \in Nat /\ tbl.main <= Len(tbl.e) /\ Len(tbl.e) \in Nat
        BY DEF Inv, Typed, LoopTyped, Loops, Tables, Fits
      <4>2. ASSUME NEW j \in loop.i + 1 .. tbl.main, tbl'.e[j].st = "SockAssociated",
                   tbl.e[j].owner \in net.waiting
            PROVE  tbl.e[j].owner \in net'.waiting
        <5>1. j \in Places(tbl)
          BY <4>1 DEF Places
        <5>2. tbl.e[j].owner # v
          BY <3>2, <3>3, <4>2, <5>1, <1>DroppedUsed DEF isUsed, Used
        <5> QED BY <3>9, <4>2, <5>2
      <4>3. loop.i <= loop.i
        BY SMTT(30), <4>1
      <4>4. ScanKept
        BY <3>1, <4>2, <4>3 DEF ScanKept
      <4>5. \A s \in Socks : con'[s].life = "none" <=> con[s].life = "none"
        <5>1. \A s \in srv[v].list : con[s].life = "live"
          BY Zenon DEF Inv, ListInv
        <5> QED BY <3>3, <5>1, Zenon DEF Gone
      <4>6. loop'.i \in Nat /\ net'.waiting \subseteq net.waiting
        BY <3>1, <3>9, <4>1, ZenonT(60)
      <4> QED BY <3>4, <3>9, <4>4, <4>5, <4>6, KeptWait, ZenonT(60)
    <3>15. ClosedInv'
      <4>1. \A w \in Servs : srv'[w].st = "Closed" => srv'[w] = srv[w]
        BY <3>3, Zenon DEF Gone
      <4> QED BY <3>4, <4>1, KeptClosed
    <3>16. OwnInv'
      BY <3>1, <3>2, <3>3, <1>DroppedOwn, ZenonT(60)
    <3>17. DueInv'
      <4>1. \A w \in Servs : Due(w)' => srv'[w] = srv[w]
        BY <3>3, Zenon DEF Due, Gone
      <4>2. \A w \in Servs : Due(w)' => /\ srv'[w].idx = srv[w].idx
                                        /\ srv[w].life = "live" /\ srv[w].left = 0
                                        /\ srv[w].st = "BeingClosed" /\ srv[w].list = {}
        BY <4>1 DEF Due
      <4> QED BY <3>1, <3>6, <3>7, <3>10, <4>2, SameDue
    <3> QED BY <3>8, <3>11, <3>12, <3>13, <3>14, <3>15, <3>16, <3>17, Zenon DEF Inv
  <2> QED BY <2>1, <2>2
<1> QED BY <1>DropInv

-----------------------------------------------------------------------------
(* What the network does keeps Inv. *)
LEMMA NetworkInv ==
  Laws /\ Inv /\ Network => Inv'
  (* A step of the network alone keeps Inv if it keeps WaitInv. *)
<1>NetOnly.
  ASSUME Inv, UNCHANGED <<srv, con, tbl, queue, loop, stray, dropped>>,
         net' \in Nets, WaitInv'
  PROVE  Inv'
  <2> USE <1>NetOnly
  <2>1. Kept /\ UsesKept
    BY SameTable
  <2>2. SameObjects
    BY UnmovedObjects, Zenon
  <2>3. Typed' /\ LoopInv'
    BY DEF Inv, Typed, LoopTyped, LoopInv
  <2>4. OwnerInv' /\ ListInv'
    BY <2>1, <2>2, SameOwner, SameList
  <2>5. ClosedInv' /\ OwnInv' /\ DueInv'
    BY Zenon DEF Inv, ClosedInv, OwnInv, DueInv, Due, Posted, InTodo, InNew
  <2> QED BY <2>3, <2>4, <2>5 DEF Inv
  (* A connection that arrives, one that breaks and an error of a listening *)
  (* socket keep Inv. *)
<1>NetworkStepInv.
  ASSUME Laws, Inv, Network
  PROVE  Inv'
  <2> USE <1>NetworkStepInv
  <2>1. /\ UNCHANGED <<srv, con, tbl, queue, loop, stray, dropped>>
        /\ loop.pc = "poll" /\ net \in Nets
    BY Zenon DEF Network, Arrive, Breaks, Lose, At, Inv, Typed
  <2>2. "poll" \notin ScanPcs
    BY Zenon DEF ScanPcs
  <2>3. /\ net' \in Nets
        /\ \/ net'.waiting = net.waiting
           \/ \E v \in Servs : /\ net'.waiting = net.waiting \cup {v} /\ v \notin net.waiting
                               /\ Cardinality(net.waiting) < Cardinality(Fresh)
    <3>1. ASSUME NEW v \in Servs, Arrive(v)
          PROVE  /\ net' \in Nets /\ net'.waiting = net.waiting \cup {v}
                 /\ v \notin net.waiting /\ Cardinality(net.waiting) < Cardinality(Fresh)
      BY <2>1, <3>1 DEF Arrive, Nets, Fresh
    <3>2. ASSUME NEW v \in Servs, Breaks(v)
          PROVE  net' \in Nets /\ net'.waiting = net.waiting
      BY <2>1, <3>2 DEF Breaks, Nets
    <3>3. ASSUME NEW s \in Socks, Lose(s)
          PROVE  net' \in Nets /\ net'.waiting = net.waiting
      BY <2>1, <3>3 DEF Lose, Nets
    <3> QED BY <3>1, <3>2, <3>3 DEF Network
  <2>4. Cardinality(net'.waiting) <= Cardinality(Fresh)
    <3>1. CASE net'.waiting = net.waiting
      BY <3>1 DEF Inv, WaitInv
    <3>2. ASSUME NEW v \in Servs, net'.waiting = net.waiting \cup {v}, v \notin net.waiting,
                 Cardinality(net.waiting) < Cardinality(Fresh)
          PROVE  Cardinality(net'.waiting) <= Cardinality(Fresh)
      <4>1. IsFiniteSet(net.waiting) /\ IsFiniteSet(Fresh)
        <5>1. net.waiting \subseteq Servs /\ Fresh \subseteq Socks
          BY <2>1 DEF Nets, Fresh
        <5> QED BY <5>1, ServsFinite, Zenon DEF Laws, SubsetLaw
      <4>2. Cardinality(net.waiting) \in Nat /\ Cardinality(Fresh) \in Nat
        BY <4>1 DEF Laws, CountLaw
      <4>3. Cardinality(net'.waiting) = Cardinality(net.waiting) + 1
        BY <3>2, <4>1, Zenon DEF Laws, AddLaw
      <4> QED BY <3>2, <4>2, <4>3
    <3> QED BY <2>3, <3>1, <3>2, Zenon
  <2>5. WaitInv'
    BY <2>1, <2>2, <2>4 DEF WaitInv, Fresh
  <2> QED BY <2>1, <2>3, <2>5, <1>NetOnly
<1> QED BY <1>NetworkStepInv

-----------------------------------------------------------------------------
(* Steps of the loop.                                                      *)

(* The loop goes to another place in its code. *)
LEMMA GotoLemma ==
  ASSUME NEW Q, NEW l \in Loops(Q), NEW pc \in Pcs
  PROVE  LET m == [l EXCEPT !.pc = pc]
         IN  /\ m \in Loops(Q) /\ m.pc = pc /\ m.i = l.i /\ m.todo = l.todo
             /\ m.seen = l.seen /\ m.cur = l.cur
BY DEF Loops

(* What Next1 makes of the loop l. *)
Advanced(l, pc) == [l EXCEPT !.pc = pc, !.todo = Tail(@), !.cur = 0]

(* The loop goes on to the next index of those it visits. *)
LEMMA Next1Lemma ==
  ASSUME NEW Q, NEW l \in Loops(Q), l.todo # <<>>, NEW pc \in Pcs
  PROVE  LET m == Advanced(l, pc)
         IN  /\ m \in Loops(Q) /\ m.pc = pc /\ m.i = l.i /\ m.todo = Tail(l.todo)
             /\ m.seen = l.seen
<1>1. l.todo \in Seq(Q)
  BY DEF Loops
<1>2. Tail(l.todo) \in Seq(Q)
  BY <1>1
<1> QED BY <1>2, Zenon DEF Loops, Advanced

(* Outside infraGetCloseEvents the loop visits indices. *)
LEMMA LoopNat ==
  ASSUME Inv, loop.pc \notin ClosePcs
  PROVE  loop \in Loops(Nat) /\ (loop.pc \notin ScanPcs => loop.i = 0)
BY Zenon DEF Inv, Typed, LoopTyped, LoopInv

(* The loop goes on outside the scan and the close events of servers. *)
LEMMA QuietLoop ==
  ASSUME Laws, Inv, UNCHANGED <<srv, con, tbl, net, stray, dropped>>,
         queue' \in Queues, queue'.close = queue.close,
         loop' \in Loops(Nat), loop'.pc \notin ScanPcs \cup ClosePcs \cup {"inSockClose"},
         loop'.i = 0, loop'.pc \in {"inListening", "inAccepted"} => loop'.todo # <<>>,
         loop'.pc \notin IndexPcs => loop'.todo = <<>>
  PROVE  Inv'
<1>1. tbl.main \in Nat
  BY DEF Inv, Typed, Tables
<1>2. Grows
  BY SameClose, Zenon DEF Inv, Typed
<1>3. net' \in Nets /\ net'.waiting \subseteq net.waiting
  BY Zenon DEF Inv, Typed
<1>4. ScanKept
  BY Zenon DEF ScanKept
<1>5. LoopInv'
  <2>1. 0 <= tbl.main
    BY <1>1
  <2>2. loop'.pc \notin ClosePcs /\ loop'.pc # "inClose" /\ loop'.pc # "inError"
    BY DEF ClosePcs, ScanPcs
  <2> QED BY <2>1, <2>2, Zenon DEF LoopInv
<1> QED BY <1>2, <1>3, <1>4, <1>5, CalmLoop, ZenonT(60)

(* Taking all events of one queue leaves the queues well-formed. *)
LEMMA QueueTaken ==
  ASSUME NEW q \in Queues
  PROVE  /\ [q EXCEPT !.listen = <<>>] \in Queues
         /\ [q EXCEPT !.listen = <<>>].close = q.close
         /\ [q EXCEPT !.sock = <<>>] \in Queues
         /\ [q EXCEPT !.sock = <<>>].close = q.close
         /\ [q EXCEPT !.accepted = <<>>] \in Queues
         /\ [q EXCEPT !.accepted = <<>>].close = q.close
         /\ [q EXCEPT !.close = <<>>] \in Queues
         /\ [q EXCEPT !.close = <<>>].close = <<>>
<1>1. <<>> \in Seq(Nat) /\ <<>> \in Seq(Posts)
  BY NoElements
<1> HIDE <1>1
<1>2. [q EXCEPT !.listen = <<>>] \in Queues /\ [q EXCEPT !.listen = <<>>].close = q.close
  BY <1>1, Zenon DEF Queues
<1>3. [q EXCEPT !.sock = <<>>] \in Queues /\ [q EXCEPT !.sock = <<>>].close = q.close
  BY <1>1, Zenon DEF Queues
<1>4. [q EXCEPT !.accepted = <<>>] \in Queues /\ [q EXCEPT !.accepted = <<>>].close = q.close
  BY <1>1, Zenon DEF Queues
<1>5. [q EXCEPT !.close = <<>>] \in Queues /\ [q EXCEPT !.close = <<>>].close = <<>>
  BY <1>1, Zenon DEF Queues
<1> QED BY <1>2, <1>3, <1>4, <1>5

(* Steps that only move the loop on. *)
LEMMA MovesOn ==
  ASSUME Laws, Inv, NEW pc \in Pcs, UNCHANGED <<srv, con, tbl, queue, net, stray, dropped>>,
         loop.pc \notin ScanPcs \cup ClosePcs,
         pc \notin ScanPcs \cup ClosePcs \cup {"inSockClose"},
         \/ Goto(pc) /\ (pc \in IndexPcs => loop.todo # <<>>)
                     /\ (pc \notin IndexPcs => loop.todo = <<>>)
         \/ Next1(pc) /\ loop.todo # <<>> /\ pc \in {"listening", "sockClosing", "accepted"}
  PROVE  Inv'
<1>1. loop \in Loops(Nat) /\ loop.i = 0
  BY LoopNat, Zenon
<1>2. queue' \in Queues /\ queue'.close = queue.close
  BY Zenon DEF Inv, Typed
<1>3. CASE Goto(pc) /\ (pc \in IndexPcs => loop.todo # <<>>)
                    /\ (pc \notin IndexPcs => loop.todo = <<>>)
  <2>1. loop' \in Loops(Nat) /\ loop'.pc = pc /\ loop'.i = 0 /\ loop'.todo = loop.todo
    BY <1>1, <1>3, GotoLemma DEF Goto
  <2> QED BY <1>2, <1>3, <2>1, QuietLoop DEF IndexPcs
<1>4. CASE Next1(pc) /\ loop.todo # <<>> /\ pc \in {"listening", "sockClosing", "accepted"}
  <2>1. loop' = Advanced(loop, pc)
    BY <1>4, Zenon DEF Next1, Advanced
  <2>2. loop' \in Loops(Nat) /\ loop'.pc = pc /\ loop'.i = 0
    BY <1>1, <1>4, <2>1, Next1Lemma
  <2> QED BY <1>2, <1>4, <2>2, QuietLoop DEF IndexPcs
<1> QED BY <1>3, <1>4, Zenon

(* The listening events and the timers of the waiting coroutines keep Inv. *)
LEMMA ListeningInv ==
  Laws /\ Inv /\ (\/ ListenBatch \/ ListenDone \/ ListeningEvent \/ ListeningHandled
          \/ (\E v \in Servs : ActionTimeout(v)) \/ TimersDone \/ AcceptedHandled
          \/ NothingToPoll) => Inv'
  (* infraEmitListeningEvents taking the posted indices keeps Inv. *)
<1>ListenBatchInv.
  ASSUME Laws, Inv, ListenBatch
  PROVE  Inv'
  <2> USE <1>ListenBatchInv
  <2>1. /\ loop.pc = "listening" /\ loop' = [loop EXCEPT !.todo = queue.listen]
        /\ queue' = [queue EXCEPT !.listen = <<>>] /\ queue \in Queues
        /\ UNCHANGED <<srv, con, tbl, net, stray, dropped>>
    BY Zenon DEF ListenBatch, At, Inv, Typed
  <2>2. loop \in Loops(Nat) /\ loop.i = 0
    BY <2>1, LoopNat DEF ClosePcs, ScanPcs
  <2>3. queue.listen \in Seq(Nat)
    BY <2>1 DEF Queues
  <2>4. loop' \in Loops(Nat) /\ loop'.pc = "listening" /\ loop'.i = 0
    BY <2>1, <2>2, <2>3 DEF Loops
  <2>5. queue' \in Queues /\ queue'.close = queue.close
    BY <2>1, QueueTaken, Zenon
  <2> QED BY <2>1, <2>4, <2>5, QuietLoop, Zenon DEF ClosePcs, ScanPcs, IndexPcs
  (* Its end keeps Inv. *)
<1>ListenDoneInv.
  ASSUME Laws, Inv, ListenDone
  PROVE  Inv'
  <2> USE <1>ListenDoneInv
  <2>1. "timers" \in Pcs /\ "timers" \notin IndexPcs \cup ScanPcs \cup ClosePcs
    BY DEF Pcs, ScanPcs, ClosePcs, IndexPcs
  <2>2. loop.pc \notin ScanPcs \cup ClosePcs
    BY Zenon DEF ListenDone, At, ScanPcs, ClosePcs
  <2> QED BY <2>1, <2>2, MovesOn DEF ListenDone
  (* The return of the handlers of listening and accepted events, and the *)
  (* end of the timers, keep Inv. *)
<1>HandledInv.
  ASSUME Laws, Inv, ListeningHandled \/ AcceptedHandled \/ TimersDone
  PROVE  Inv'
  <2> USE <1>HandledInv
  <2>1. {"listening", "accepted", "poll"} \subseteq Pcs
    BY DEF Pcs, IndexPcs
  <2>2. CASE ListeningHandled
    <3>1. loop.pc = "inListening" /\ Next1("listening")
          /\ UNCHANGED <<srv, con, tbl, queue, net, stray, dropped>>
      BY <2>2, Zenon DEF ListeningHandled, At
    <3>2. loop.todo # <<>>
      BY <3>1 DEF Inv, LoopInv
    <3> QED BY <2>1, <3>1, <3>2, MovesOn DEF ScanPcs, ClosePcs
  <2>3. CASE AcceptedHandled
    <3>1. loop.pc = "inAccepted" /\ Next1("accepted")
          /\ UNCHANGED <<srv, con, tbl, queue, net, stray, dropped>>
      BY <2>3, Zenon DEF AcceptedHandled, At
    <3>2. loop.todo # <<>>
      BY <3>1, Zenon DEF Inv, LoopInv
    <3> QED BY <2>1, <3>1, <3>2, MovesOn DEF ScanPcs, ClosePcs
  <2>4. CASE TimersDone
    <3>1. loop.pc = "timers" /\ Goto("poll")
          /\ UNCHANGED <<srv, con, tbl, queue, net, stray, dropped>>
      BY <2>4, Zenon DEF TimersDone, At
    <3>2. loop.todo = <<>>
      BY <3>1, Zenon DEF Inv, LoopInv, IndexPcs, ClosePcs
    <3> QED BY <2>1, <3>1, <3>2, MovesOn DEF ScanPcs, ClosePcs, IndexPcs
  <2> QED BY <2>2, <2>3, <2>4
  (* Leaving the loop with nothing to poll keeps Inv. *)
<1>NothingToPollInv.
  ASSUME Laws, Inv, NothingToPoll
  PROVE  Inv'
  <2> USE <1>NothingToPollInv
  <2>1. PICK pc \in {"exit", "immediate"} : Goto(pc)
    BY DEF NothingToPoll
  <2>2. pc \in Pcs /\ pc \notin IndexPcs \cup ScanPcs \cup ClosePcs \cup {"inSockClose"}
    BY <2>1 DEF Pcs, ScanPcs, ClosePcs, IndexPcs
  <2>3. loop.pc = "poll" /\ UNCHANGED <<srv, con, tbl, queue, net, stray, dropped>>
    BY Zenon DEF NothingToPoll, At
  <2>4. loop.pc \notin ScanPcs \cup ClosePcs /\ loop.todo = <<>>
    BY <2>3 DEF ScanPcs, ClosePcs, IndexPcs, Inv, LoopInv
  <2> QED BY <2>1, <2>2, <2>3, <2>4, MovesOn, Zenon
  (* The timer of a wait that fires keeps Inv. *)
<1>ActionTimeoutInv.
  ASSUME Laws, Inv, NEW v \in Servs, ActionTimeout(v)
  PROVE  Inv'
  <2> USE <1>ActionTimeoutInv
  <2> DEFINE d == Woken(srv[v], {})
  <2>1. srv[v].timer /\ srv' = [srv EXCEPT ![v] = d]
        /\ UNCHANGED <<con, tbl, queue, net, loop, stray, dropped>>
    BY DEF ActionTimeout
  <2>2. srv[v] \in SrvData
    BY SameServerRefl
  <2>3. d \in SrvData /\ SameServer(srv[v], d) /\ d.st = srv[v].st
    BY <2>2, WokenLemma, Zenon DEF SameServer
  <2>4. srv[v].st # "Closed"
    BY <2>1, Zenon DEF Inv, ListInv, ClosedInv
  <2> HIDE DEF d
  <2>5. SameObjects /\ \A w \in Servs : CalmServer(srv[w], srv'[w])
    BY <2>1, <2>3, <2>4, OneServer, Zenon DEF CalmServer
  <2>6. Kept /\ UsesKept
    BY <2>1, SameTable, Zenon
  <2>7. queue' \in Queues /\ Grows
    BY <2>1, SameQueues, Zenon
  <2> QED BY <2>1, <2>5, <2>6, <2>7, CalmCall, Zenon
  (* The server in the entry at i starts to listen, or listens again. *)
<1>RrOnListeningInv.
  ASSUME Laws, Inv, loop.pc = "listening", loop.todo # <<>>, NEW i, Found(i),
         tbl.e[i].owner \in Servs, rrOnListening(tbl.e[i].owner, i)
  PROVE  Inv'
  <2> USE <1>RrOnListeningInv
  <2> DEFINE v == tbl.e[i].owner
             d == [srv[v] EXCEPT !.st = "Listening"]
             f == IF "listen" \in d.ahd THEN Woken(d, {"listen"}) ELSE [d EXCEPT !.idx = i]
  <2>1. CASE ~Resumable(d, {"listen"})
    BY <2>1, Stutters DEF rrOnListening, Fail
  <2>2. CASE Resumable(d, {"listen"})
    <3>1. /\ srv' = [srv EXCEPT ![v] = f]
          /\ loop' = [loop EXCEPT !.pc = "inListening", !.cur = v]
          /\ UNCHANGED <<con, tbl, queue, net, stray, dropped>>
      BY <2>2, Zenon DEF rrOnListening
    <3>2. i \in Places(tbl) /\ isUsed(tbl, i)
      BY InRangeLemma DEF Found
    <3>3. v \in Servs /\ srv[v].idx = i /\ srv[v] \in SrvData /\ SameServer(srv[v], srv[v])
      BY <3>2, EntryOf, SameServerRefl, Zenon DEF Idx
    <3>4. d \in SrvData /\ d.st = "Listening" /\ SameServer(srv[v], d)
      BY <3>3, WithState, Zenon DEF SameServer
    <3>5. HasEntry(tbl, srv[v].idx, v)
      BY <3>2, <3>3, Zenon DEF HasEntry
    <3>6. f \in SrvData /\ f.st = "Listening" /\ SameServer(srv[v], f)
      <4> HIDE DEF v, d
      <4>1. CASE "listen" \in d.ahd
        <5>1. {"listen"} \in SUBSET Awaits
          BY DEF Awaits
        <5> QED BY <3>4, <4>1, <5>1, WokenLemma, Zenon DEF SameServer
      <4>2. CASE "listen" \notin d.ahd
        <5>1. d.idx = i
          BY <3>3, <3>4, Zenon DEF SameServer
        <5>2. [d EXCEPT !.idx = i] = d
          BY <3>4, <5>1, Zenon DEF SrvData
        <5> QED BY <3>4, <4>2, <5>2
      <4> QED BY <4>1, <4>2
    <3> HIDE DEF f, d, v
    <3>7. SameObjects /\ srv'[v] = f /\ \A w \in Servs : w # v => srv'[w] = srv[w]
      BY <3>1, <3>3, <3>6, OneServer, Zenon DEF Inv, Typed
    <3>8. loop \in Loops(Nat) /\ loop.i = 0 /\ v \in Nat
      BY <3>3, LoopNat, ServersAssumption DEF ClosePcs, ScanPcs, Servs
    <3>9. /\ loop' \in Loops(Nat) /\ loop'.pc = "inListening" /\ loop'.i = 0
          /\ loop'.todo = loop.todo
      BY <3>1, <3>8, Zenon DEF Loops, Pcs, IndexPcs
    <3>10. Kept /\ UsesKept
      BY <3>1, SameTable
    <3>11. queue' \in Queues /\ Grows
      BY <3>1, SameQueues, Zenon
    <3>12. /\ loop'.pc \notin ClosePcs \cup ScanPcs /\ loop'.pc \in IndexPcs
           /\ loop'.pc \notin {"inSockClose", "inClose", "inError"}
      BY <3>9, Zenon DEF ClosePcs, ScanPcs, IndexPcs
    <3>13. tbl.main \in Nat
      BY DEF Inv, Typed, Tables
    <3>14. LoopTyped' /\ LoopInv'
      BY <3>1, <3>9, <3>12, <3>13 DEF LoopTyped, LoopInv
    <3>15. Typed'
      BY <3>1, <3>7, <3>10, <3>11, <3>14, Zenon DEF Inv, Typed, SameObjects, Kept
    <3>16. OwnerInv' /\ ListInv'
      BY <3>7, <3>10, SameOwner, SameList, Zenon
    <3>17. WaitInv'
      <4>1. ScanKept
        BY <3>12 DEF ScanKept
      <4>2. net' \in Nets /\ net'.waiting \subseteq net.waiting
        BY <3>1 DEF Inv, Typed
      <4>3. loop'.i \in Nat /\ \A s \in Socks : con'[s].life = con[s].life
        BY <3>1, <3>9
      <4> QED BY <3>10, <4>1, <4>2, <4>3, KeptWait, Zenon
    <3>18. ClosedInv'
      <4>1. \A w \in Servs : srv'[w].st = "Closed" => srv'[w] = srv[w]
        BY <3>6, <3>7
      <4> QED BY <3>10, <4>1, KeptClosed, Zenon
    <3>19. OwnInv'
      <4>1. \A w \in Servs : srv[w].st = "Closed" =>
               srv'[w].st = "Closed" \/ (loop'.pc # "inClose" /\ HasEntry(tbl, srv[w].idx, w))
        BY <3>5, <3>7, <3>12
      <4> QED BY <3>1, <3>7, <3>10, <3>12, <4>1, SameOwn, Zenon
    <3>20. DueInv'
      <4>1. \A w \in Servs : Due(w)' => srv'[w] = srv[w]
        BY <3>6, <3>7, Zenon DEF Due
      <4>2. \A w \in Servs : Due(w)' => /\ srv'[w].idx = srv[w].idx
                                        /\ srv[w].life = "live" /\ srv[w].left = 0
                                        /\ srv[w].st = "BeingClosed" /\ srv[w].list = {}
        BY <4>1 DEF Due
      <4> QED BY <3>1, <3>11, <3>12, <4>2, SameDue, Zenon
    <3> QED BY <3>14, <3>15, <3>16, <3>17, <3>18, <3>19, <3>20, Zenon DEF Inv
  <2> QED BY <2>1, <2>2
  (* One listening event keeps Inv. *)
<1>ListeningEventInv.
  ASSUME Laws, Inv, ListeningEvent
  PROVE  Inv'
  <2> USE <1>ListeningEventInv
  <2> DEFINE i == Head(loop.todo)
  <2>1. loop.pc = "listening" /\ loop.todo # <<>>
    BY Zenon DEF ListeningEvent, At
  <2>2. CASE ~isValidId(tbl, i)
    <3>1. Next1("listening") /\ UNCHANGED <<srv, con, tbl, queue, net, stray, dropped>>
      BY <2>2, Zenon DEF ListeningEvent
    <3>2. "listening" \in Pcs /\ "listening" \notin ScanPcs \cup ClosePcs
      BY Zenon DEF Pcs, IndexPcs, ScanPcs, ClosePcs
    <3> QED BY <2>1, <3>1, <3>2, MovesOn
  <2>3. CASE isValidId(tbl, i) /\ (~Found(i) \/ tbl.e[i].owner \notin Servs)
    BY <2>3, Stutters, Zenon DEF ListeningEvent, Fail
  <2>4. CASE isValidId(tbl, i) /\ Found(i) /\ tbl.e[i].owner \in Servs
    <3>1. rrOnListening(tbl.e[i].owner, i)
      BY <2>4 DEF ListeningEvent
    <3> HIDE DEF i
    <3> QED BY <2>1, <2>4, <3>1, <1>RrOnListeningInv, ZenonT(60)
  <2> QED BY <2>2, <2>3, <2>4
<1> QED BY <1>ListenBatchInv, <1>ListenDoneInv, <1>HandledInv,
           <1>NothingToPollInv,
            <1>ActionTimeoutInv, <1>ListeningEventInv

(* The steps between the parts of an iteration, and the close events of    *)
(* connections up to their handlers, keep Inv.                             *)
LEMMA BetweenInv ==
  Laws /\ Inv /\ (\/ ImmediatesDone \/ SockCloseDone \/ AcceptedEvent \/ SockCloseEvent
          \/ Dispatched \/ Poll) => Inv'
  (* The end of the immediates, where the socket close events are taken, *)
  (* keeps Inv. *)
<1>ImmediatesDoneInv.
  ASSUME Laws, Inv, ImmediatesDone
  PROVE  Inv'
  <2> USE <1>ImmediatesDoneInv
  <2>1. /\ loop.pc = "immediate"
        /\ loop' = [loop EXCEPT !.pc = "sockClosing", !.todo = queue.sock]
        /\ UNCHANGED <<srv, con, tbl, queue, net, stray, dropped>>
    BY Zenon DEF ImmediatesDone, At
  <2>2. loop \in Loops(Nat) /\ loop.i = 0
    BY <2>1, LoopNat DEF ClosePcs, ScanPcs
  <2>3. queue \in Queues /\ queue.sock \in Seq(Nat)
    BY DEF Inv, Typed, Queues
  <2>4. loop' \in Loops(Nat) /\ loop'.pc = "sockClosing" /\ loop'.i = 0
    BY <2>1, <2>2, <2>3, Zenon DEF Loops, Pcs, IndexPcs
  <2> QED BY <2>1, <2>3, <2>4, QuietLoop DEF ClosePcs, ScanPcs, IndexPcs
  (* The end of the socket close events, where the accepted ones are taken, *)
  (* keeps Inv. *)
<1>SockCloseDoneInv.
  ASSUME Laws, Inv, SockCloseDone
  PROVE  Inv'
  <2> USE <1>SockCloseDoneInv
  <2>1. /\ loop.pc = "sockClosing" /\ queue' = [queue EXCEPT !.sock = <<>>]
        /\ loop' = [loop EXCEPT !.pc = "accepted", !.todo = queue.accepted]
        /\ UNCHANGED <<srv, con, tbl, net, stray, dropped>>
    BY Zenon DEF SockCloseDone, At
  <2>2. loop \in Loops(Nat) /\ loop.i = 0
    BY <2>1, LoopNat DEF ClosePcs, ScanPcs
  <2>3. queue \in Queues /\ queue.accepted \in Seq(Nat)
    BY DEF Inv, Typed, Queues
  <2>4. loop' \in Loops(Nat) /\ loop'.pc = "accepted" /\ loop'.i = 0
    BY <2>1, <2>2, <2>3, Zenon DEF Loops, Pcs, IndexPcs
  <2>5. queue' \in Queues /\ queue'.close = queue.close
    BY <2>1, <2>3, QueueTaken, Zenon
  <2> QED BY <2>1, <2>4, <2>5, QuietLoop DEF ClosePcs, ScanPcs, IndexPcs
  (* One event of an accepted connection keeps Inv. *)
<1>AcceptedEventInv.
  ASSUME Laws, Inv, AcceptedEvent
  PROVE  Inv'
  <2> USE <1>AcceptedEventInv
  <2> DEFINE i == Head(loop.todo)
  <2>1. loop.pc = "accepted" /\ loop.todo # <<>>
    BY Zenon DEF AcceptedEvent, At
  <2>2. /\ {"accepted", "inAccepted"} \subseteq Pcs \cap IndexPcs
        /\ {"accepted", "inAccepted"} \cap (ScanPcs \cup ClosePcs \cup {"inSockClose"}) = {}
    BY DEF Pcs, IndexPcs, ScanPcs, ClosePcs
  <2>3. CASE ~BelowSize(i)
    <3>1. Next1("accepted") /\ UNCHANGED <<srv, con, tbl, queue, net, stray, dropped>>
      BY <2>3, Zenon DEF AcceptedEvent
    <3> QED BY <2>1, <2>2, <3>1, MovesOn
  <2>4. CASE BelowSize(i) /\ (~Found(i) \/ tbl.e[i].owner \notin Socks)
    BY <2>4, Stutters, Zenon DEF AcceptedEvent, Fail
  <2>5. CASE BelowSize(i) /\ Found(i) /\ tbl.e[i].owner \in Socks
    <3>1. Goto("inAccepted") /\ UNCHANGED <<srv, con, tbl, queue, net, stray, dropped>>
      BY <2>5, Zenon DEF AcceptedEvent
    <3> QED BY <2>1, <2>2, <3>1, MovesOn
  <2> QED BY <2>3, <2>4, <2>5
  (* One close event of a connection, up to its handlers, keeps Inv. *)
<1>SockCloseEventInv.
  ASSUME Laws, Inv, SockCloseEvent
  PROVE  Inv'
  <2> USE <1>SockCloseEventInv
  <2> DEFINE i == Head(loop.todo)
             s == tbl.e[i].owner
             x == [tbl.e[i] EXCEPT !.st = "SockClosed", !.fd = "invalid"]
  <2>1. loop.pc = "sockClosing" /\ loop.todo # <<>>
    BY Zenon DEF SockCloseEvent, At
  <2>2. CASE ~isValidId(tbl, i) \/ ~isUsed(tbl, i)
    <3>1. Next1("sockClosing") /\ UNCHANGED <<srv, con, tbl, queue, net, stray, dropped>>
      BY <2>2 DEF SockCloseEvent
    <3>2. "sockClosing" \in Pcs /\ "sockClosing" \notin ScanPcs \cup ClosePcs
      BY DEF Pcs, IndexPcs, ScanPcs, ClosePcs
    <3> QED BY <2>1, <3>1, <3>2, MovesOn
  <2>3. CASE isValidId(tbl, i) /\ isUsed(tbl, i) /\ s \notin Socks
    BY <2>3, Stutters DEF SockCloseEvent, Fail
  <2>4. CASE isValidId(tbl, i) /\ isUsed(tbl, i) /\ s \in Socks
    <3>1. /\ tbl' = setSocketClosed(tbl, i) /\ net' = [net EXCEPT !.lost = @ \ {s}]
          /\ Goto("inSockClose") /\ UNCHANGED <<srv, con, queue, stray, dropped>>
      BY <2>4 DEF SockCloseEvent
    <3>2. i \in Places(tbl)
      BY <2>4 DEF isValidId, Places
    <3>3. tbl \in Tables(Objs) /\ net \in Nets
      BY DEF Inv, Typed
    <3>4. Changed(Objs, tbl, tbl', i, x)
      BY <3>1, <3>2, <3>3, SetSocketClosedLemma, Zenon
    <3>5. x.owner = tbl.e[i].owner /\ x.st = "SockClosed" /\ x.rev = tbl.e[i].rev
      BY <3>2, EntryOf DEF Entries
    <3>6. net' \in Nets /\ net'.waiting \subseteq net.waiting
      BY <3>1, <3>3 DEF Nets
    <3>7. Head(loop.todo) = i
      OBVIOUS
    <3> HIDE DEF x, i
    <3>8. KeptEntry(tbl.e[i], x) /\ Used(x)
      BY <2>4, <3>5 DEF KeptEntry, EntryOK, Used, isUsed
    <3>9. Kept /\ UsesKept
      BY <3>2, <3>4, <3>8, ChangedKept
    <3>10. SameObjects /\ \A v \in Servs : CalmServer(srv[v], srv'[v])
      BY <3>1, UnmovedObjects, Zenon
    <3>11. loop \in Loops(Nat) /\ loop.i = 0 /\ "inSockClose" \in Pcs
      BY <2>1, LoopNat DEF ClosePcs, ScanPcs, Pcs, IndexPcs
    <3>12. /\ loop' \in Loops(Nat) /\ loop'.pc = "inSockClose" /\ loop'.i = 0
           /\ loop'.todo = loop.todo
      BY <3>1, <3>11, GotoLemma DEF Goto
    <3>13. loop'.pc \notin ScanPcs \cup ClosePcs /\ loop'.pc \in IndexPcs
      BY <3>12 DEF ScanPcs, ClosePcs, IndexPcs
    <3>14. tbl'.main \in Nat /\ Places(tbl') = Places(tbl)
      BY <3>9, Zenon DEF Kept, Tables, Places
    <3>15. LoopTyped' /\ LoopInv'
      BY SMTT(30), <2>1, <3>2, <3>7, <3>12, <3>13, <3>14 DEF LoopTyped, LoopInv
    <3>16. queue' \in Queues /\ Grows
      BY <3>1, SameQueues, Zenon
    <3>17. ScanKept
      BY <3>13 DEF ScanKept
    <3> QED BY <3>1, <3>6, <3>9, <3>10, <3>13, <3>15, <3>16, <3>17, Frame, Zenon
  <2> QED BY <2>2, <2>3, <2>4
  (* The end of the scan keeps Inv. *)
<1>DispatchedInv.
  ASSUME Laws, Inv, Dispatched
  PROVE  Inv'
  <2> USE <1>DispatchedInv
  <2> DEFINE n == Len(tbl.e)
             q == [i \in 1 .. n |-> [tbl.e[i] EXCEPT !.rev = {}]]
  <2>1. /\ loop.pc = "dispatch" /\ loop' = [loop EXCEPT !.pc = "immediate", !.i = 0]
        /\ tbl' = WithEntries(tbl, q) /\ UNCHANGED <<srv, con, queue, net, stray, dropped>>
    BY Zenon DEF Dispatched, At, WithEntries
  <2>2. tbl \in Tables(Objs) /\ n \in Nat
    BY DEF Inv, Typed, Tables
  <2>3. ASSUME NEW j \in Places(tbl)
        PROVE  q[j] \in Entries(Objs) /\ KeptEntry(tbl.e[j], q[j]) /\ q[j].st = tbl.e[j].st
    <3>1. tbl.e[j] \in Entries(Objs) /\ EntryOK(tbl.e[j])
      BY EntryOf
    <3> DEFINE y == [tbl.e[j] EXCEPT !.rev = {}]
    <3>2. q[j] = y
      BY DEF Places
    <3>3. /\ y \in Entries(Objs) /\ y.owner = tbl.e[j].owner /\ y.st = tbl.e[j].st
          /\ y.fd = tbl.e[j].fd /\ y.rev = {}
      BY <3>1, Zenon DEF Entries
    <3> HIDE DEF y, q
    <3>4. KeptEntry(tbl.e[j], y)
      BY <3>1, <3>3 DEF KeptEntry, EntryOK, Used
    <3> QED BY <3>2, <3>3, <3>4
  <2>4. q \in Seq(Entries(Objs)) /\ Len(q) = n
    <3>1. q \in [1 .. n -> Entries(Objs)]
      BY <2>3, Zenon DEF Places
    <3> HIDE DEF q
    <3> QED BY <2>2, <3>1, SeqOfLength
  <2> HIDE DEF q, n
  <2>5. /\ tbl' \in Tables(Objs) /\ tbl'.e = q /\ tbl'.main = tbl.main /\ tbl'.cap = tbl.cap
    BY <2>1, <2>2, <2>4, UpdatedEntries, ZenonT(60)
  <2>6. Kept /\ UsesKept
    BY <2>3, <2>4, <2>5 DEF Kept, UsesKept, Inv, Typed, Fits, isUsed, Used, n
  <2>7. SameObjects /\ \A v \in Servs : CalmServer(srv[v], srv'[v])
    BY <2>1, UnmovedObjects
  <2>8. loop \in Loops(Nat) /\ loop.todo = <<>>
    BY <2>1, LoopNat DEF ClosePcs, IndexPcs, Inv, LoopInv
  <2>9. loop' \in Loops(Nat) /\ loop'.pc = "immediate" /\ loop'.i = 0 /\ loop'.todo = <<>>
    BY <2>1, <2>8, Zenon DEF Loops, Pcs
  <2>10. /\ loop'.pc \notin ClosePcs \cup ScanPcs \cup IndexPcs
         /\ loop'.pc \notin {"inListening", "inSockClose", "inAccepted", "inClose", "inError"}
    BY <2>9 DEF ClosePcs, ScanPcs, IndexPcs
  <2>11. tbl'.main \in Nat
    BY <2>5, Zenon DEF Tables
  <2>12. LoopTyped' /\ LoopInv'
    <3>1. 0 <= tbl'.main
      BY <2>11
    <3> QED BY <2>9, <2>10, <3>1, Zenon DEF LoopTyped, LoopInv
  <2>13. queue' \in Queues /\ Grows /\ net' \in Nets /\ net'.waiting \subseteq net.waiting
    BY <2>1, SameQueues, Zenon DEF Inv, Typed
  <2>14. ScanKept
    BY <2>10 DEF ScanKept
  <2> QED BY <2>1, <2>6, <2>7, <2>10, <2>12, <2>13, <2>14, Frame, Zenon
  (* poll() finds a connection only at a server that has one waiting, which *)
  (* the scan relies on when it calls accept(). *)
<1>PollInv.
  ASSUME Laws, Inv, Poll
  PROVE  Inv'
  <2> USE <1>PollInv
  <2> DEFINE n == Len(tbl.e)
             q == [i \in 1 .. n |-> IF i <= tbl.main THEN [tbl.e[i] EXCEPT !.rev = Revents(i)]
                                                     ELSE tbl.e[i]]
             c == Cardinality(Ready)
  <2>1. /\ loop.pc = "poll" /\ tbl' = WithEntries(tbl, q)
        /\ loop' = IF Ready = {} THEN [loop EXCEPT !.pc = "immediate"]
                   ELSE [loop EXCEPT !.pc = "dispatch", !.i = 0, !.left = c]
        /\ UNCHANGED <<srv, con, queue, net, stray, dropped>>
    BY Zenon DEF Poll, At, WithEntries
  <2>2. tbl \in Tables(Objs) /\ n \in Nat /\ tbl.main \in Nat /\ tbl.main <= n
    BY DEF Inv, Typed, Tables, Fits
  <2>3. \A i : /\ Revents(i) \in SUBSET {"IN", "OUT", "HUP", "ERR"}
               /\ "IN" \in Revents(i) => tbl.e[i].owner \in net.waiting
    BY DEF Revents
  <2>4. loop.pc \notin ScanPcs
    BY <2>1 DEF ScanPcs
  <2>5. ASSUME NEW j \in Places(tbl)
        PROVE  /\ q[j] \in Entries(Objs) /\ KeptEntry(tbl.e[j], q[j])
               /\ q[j].st = tbl.e[j].st /\ q[j].owner = tbl.e[j].owner
               /\ j <= tbl.main => q[j].rev = Revents(j)
    <3>1. tbl.e[j] \in Entries(Objs) /\ EntryOK(tbl.e[j])
      BY EntryOf
    <3>2. CASE j <= tbl.main
      <4> DEFINE y == [tbl.e[j] EXCEPT !.rev = Revents(j)]
      <4>1. q[j] = y
        BY <3>2 DEF Places
      <4> HIDE DEF q
      <4>2. /\ y \in Entries(Objs) /\ y.owner = tbl.e[j].owner /\ y.st = tbl.e[j].st
            /\ y.fd = tbl.e[j].fd /\ y.rev = Revents(j)
        BY <2>3, <3>1, Zenon DEF Entries
      <4> HIDE DEF y
      <4>3. KeptEntry(tbl.e[j], y)
        BY <2>4, <3>1, <4>2, Zenon DEF KeptEntry, EntryOK, Used
      <4> QED BY <4>1, <4>2, <4>3
    <3>3. CASE ~(j <= tbl.main)
      <4>1. q[j] = tbl.e[j]
        BY <3>3, Zenon DEF Places
      <4> HIDE DEF q
      <4>2. KeptEntry(tbl.e[j], tbl.e[j])
        BY <3>1 DEF KeptEntry
      <4> QED BY <3>1, <3>3, <4>1, <4>2
    <3> QED BY <3>2, <3>3, Zenon
  <2>6. q \in Seq(Entries(Objs)) /\ Len(q) = n
    <3>1. \A j \in 1 .. n : q[j] \in Entries(Objs)
      BY <2>5, Zenon DEF Places
    <3>2. q \in [1 .. n -> Entries(Objs)]
      BY <3>1, Zenon
    <3> HIDE DEF q
    <3> QED BY <2>2, <3>2, SeqOfLength
  <2>7. c \in Nat
    <3>1. Ready \subseteq 1 .. n
      BY <2>2 DEF Ready
    <3>2. IsFiniteSet(1 .. n)
      <4> HIDE DEF n
      <4> QED BY <2>2 DEF Laws, IntervalLaw
    <3>3. IsFiniteSet(Ready)
      BY <3>1, <3>2, Zenon DEF Laws, SubsetLaw
    <3> QED BY <3>3 DEF Laws, CountLaw
  <2> HIDE DEF q, n, c
  <2>8. tbl' \in Tables(Objs) /\ tbl'.e = q /\ tbl'.main = tbl.main /\ tbl'.cap = tbl.cap
    BY <2>1, <2>2, <2>6, UpdatedEntries
  <2>9. Kept /\ UsesKept
    BY <2>5, <2>6, <2>8, Zenon DEF Kept, UsesKept, Inv, Typed, Fits, isUsed,
       Used, n
  <2>10. SameObjects
    BY <2>1, UnmovedObjects
  <2>11. loop \in Loops(Nat) /\ loop.i = 0 /\ loop.todo = <<>>
    BY <2>1, LoopNat DEF ClosePcs, ScanPcs, IndexPcs, Inv, LoopInv
  <2>12. /\ loop' \in Loops(Nat) /\ loop'.pc \in {"immediate", "dispatch"} /\ loop'.i = 0
         /\ loop'.todo = <<>>
    <3>1. CASE Ready = {}
      BY <2>1, <2>11, <3>1 DEF Loops, Pcs
    <3>2. CASE Ready # {}
      BY <2>1, <2>7, <2>11, <3>2, Zenon DEF Loops, Pcs, ScanPcs
    <3> QED BY <3>1, <3>2
  <2>13. /\ loop'.pc \notin ClosePcs \cup IndexPcs
         /\ loop'.pc \notin {"inListening", "inSockClose", "inAccepted", "inClose", "inError"}
    BY <2>12, Zenon DEF ClosePcs, IndexPcs
  <2>14. LoopTyped' /\ LoopInv'
    <3>1. 0 <= tbl.main
      BY <2>2
    <3> QED BY <2>8, <2>12, <2>13, <3>1, Zenon DEF LoopTyped, LoopInv
  <2>15. queue' \in Queues /\ Grows /\ net' \in Nets
    BY <2>1, SameQueues, Zenon DEF Inv, Typed
  <2>16. Typed'
    BY <2>1, <2>9, <2>10, <2>14, <2>15, Zenon DEF Inv, Typed, SameObjects, Kept
  <2>17. OwnerInv' /\ ListInv'
    BY <2>9, <2>10, SameOwner, SameList, Zenon
  <2>18. WaitInv'
    <3>1. Cardinality(net'.waiting) <= Cardinality(Fresh')
      BY <2>1 DEF Inv, WaitInv, Fresh
    <3>2. ASSUME NEW j \in loop'.i + 1 .. tbl'.main, "IN" \in tbl'.e[j].rev
          PROVE  tbl'.e[j].owner \in net'.waiting
      <4>1. j \in 1 .. tbl.main
        BY <2>2, <2>8, <2>12
      <4>2. j \in Places(tbl) /\ j <= tbl.main
        BY <2>2, <4>1 DEF Places, n
      <4>3. tbl'.e[j].rev = Revents(j) /\ tbl'.e[j].owner = tbl.e[j].owner
        BY <2>5, <2>8, <4>2
      <4> QED BY <2>1, <2>3, <3>2, <4>3, Zenon
    <3> QED BY <3>1, <3>2 DEF WaitInv
  <2>19. ClosedInv'
    BY <2>1, <2>9, KeptClosed
  <2>20. OwnInv'
    <3>1. \A v \in Servs : srv[v].st = "Closed" => srv'[v].st = "Closed"
      BY <2>1
    <3> QED BY <2>1, <2>9, <2>10, <2>13, <3>1, SameOwn, Zenon
  <2>21. DueInv'
    <3>1. \A v \in Servs : Due(v)' => /\ srv'[v].idx = srv[v].idx
                                      /\ srv[v].life = "live" /\ srv[v].left = 0
                                      /\ srv[v].st = "BeingClosed" /\ srv[v].list = {}
      BY <2>1 DEF Due
    <3> QED BY <2>1, <2>13, <2>15, <3>1, SameDue, Zenon
  <2> QED BY <2>14, <2>16, <2>17, <2>18, <2>19, <2>20, <2>21, Zenon DEF Inv
<1> QED BY <1>ImmediatesDoneInv, <1>SockCloseDoneInv, <1>AcceptedEventInv,
            <1>SockCloseEventInv, <1>DispatchedInv, <1>PollInv

-----------------------------------------------------------------------------
(* An object is made and gets an entry.                                    *)

(* There are no more entries than objects. *)
LEMMA DistinctOwners ==
  ASSUME Laws, NEW t \in Tables(Objs),
         \A j, k \in Places(t) : t.e[j].owner = t.e[k].owner => j = k
  PROVE  Len(t.e) <= NServers + NSocks
<1> DEFINE n == Len(t.e)
           m == NServers + NSocks
           f == [j \in 1 .. n |-> t.e[j].owner]
<1>1. n \in Nat /\ m \in Nat
  BY ServersAssumption DEF Tables
<1>2. \A j \in 1 .. n : t.e[j].owner \in Objs
  BY EntryFields, Zenon DEF Places, Entries
<1>3. f \in Injection(1 .. n, Objs)
  BY <1>2 DEF Injection, IsInjective, Places
<1> HIDE DEF f, n, m
<1>4. Objs = 1 .. m
  BY ServsFinite DEF m
<1>5. /\ IsFiniteSet(1 .. m) /\ Cardinality(1 .. m) = m
      /\ Cardinality(1 .. n) = n
  BY <1>1 DEF Laws, IntervalLaw
<1>6. Cardinality(1 .. n) <= Cardinality(1 .. m)
  BY <1>3, <1>4, <1>5, Zenon DEF Laws, InjectionLaw
<1> QED BY <1>5, <1>6 DEF n, m

(* Object o, which had no entry, has the used entry i in the next table. *)
Added(o, i) ==
  /\ tbl' \in Tables(Objs) /\ Fits(tbl') /\ TakesEntry(tbl, tbl', i, o)
  /\ EntryOK(tbl'.e[i]) /\ tbl'.e[i].rev = {}

(* The new entry of o is its only one, and no used entry is lost. *)
OnlyEntry(o, i) ==
  /\ Places(tbl) \subseteq Places(tbl') /\ i \in Nat /\ i <= NServers + NSocks
  /\ \A j \in Places(tbl') : j # i => j \in Places(tbl) /\ tbl'.e[j] = tbl.e[j]
  /\ \A j \in Places(tbl) : tbl.e[j].owner # o
  /\ \A j \in Places(tbl) : isUsed(tbl, j) => j # i /\ isUsed(tbl', j)
  /\ \A j, k \in Places(tbl') : tbl'.e[j].owner = tbl'.e[k].owner => j = k

LEMMA AddedPlaces ==
  ASSUME Laws, Inv, NEW o \in Objs, NEW i, Added(o, i), Life(srv, con, o) = "none"
  PROVE  OnlyEntry(o, i)
<1>1. /\ tbl \in Tables(Objs) /\ tbl' \in Tables(Objs) /\ Fits(tbl) /\ Fits(tbl')
      /\ TakesEntry(tbl, tbl', i, o)
  BY Zenon DEF Inv, Typed, Added
<1>2. EntryTaken(tbl, tbl', i, o)
  BY <1>1, TakesEntryLemma
<1>3. /\ Places(tbl) \subseteq Places(tbl')
      /\ i \in Nat /\ i <= Len(tbl'.e) /\ Len(tbl'.e) \in Nat
      /\ \A j \in Places(tbl') : j # i => j \in Places(tbl) /\ tbl'.e[j] = tbl.e[j]
      /\ \A j \in Places(tbl) : isUsed(tbl, j) => j # i /\ isUsed(tbl', j)
  BY <1>2, Zenon DEF EntryTaken
<1>4. \A j \in Places(tbl) : tbl.e[j].owner # o
  BY EntryOf
<1>5. \A j, k \in Places(tbl) : tbl.e[j].owner = tbl.e[k].owner => j = k
  BY Zenon DEF Inv, OwnerInv
<1>6. \A j, k \in Places(tbl') : tbl'.e[j].owner = tbl'.e[k].owner => j = k
  BY <1>2, <1>4, <1>5, Zenon DEF EntryTaken
<1>7. Len(tbl'.e) <= NServers + NSocks
  BY <1>1, <1>6, DistinctOwners
<1>8. NServers + NSocks \in Nat
  BY ServersAssumption
<1>9. i <= NServers + NSocks
  <2> DEFINE n == Len(tbl'.e)
             m == NServers + NSocks
  <2>1. i \in Nat /\ n \in Nat /\ m \in Nat /\ i <= n /\ n <= m
    BY <1>3, <1>7, <1>8, Zenon
  <2> HIDE DEF n, m
  <2>2. i <= m
    BY <2>1
  <2> QED BY <2>2, Zenon DEF m
<1> QED BY <1>3, <1>4, <1>6, <1>9, Zenon DEF OnlyEntry

(* The others stay as they are. *)
OthersSame(o) ==
  \A r \in Objs : r # o => /\ Life(srv', con', r) = Life(srv, con, r)
                           /\ Idx(srv', con', r) = Idx(srv, con, r)

(* OwnerInv is kept when an object comes to life with an entry of its own. *)
LEMMA AddedOwner ==
  ASSUME Laws, Inv, NEW o \in Objs, NEW i, Added(o, i), Life(srv, con, o) = "none",
         Life(srv', con', o) = "live", Idx(srv', con', o) = i, OthersSame(o)
  PROVE  OwnerInv'
<1>1. OnlyEntry(o, i)
  BY AddedPlaces
<1>2. \A j \in Places(tbl') : j # i => j \in Places(tbl) /\ tbl'.e[j] = tbl.e[j]
  BY <1>1, Zenon DEF OnlyEntry
<1>3. /\ i <= NServers + NSocks
      /\ \A j, k \in Places(tbl') : tbl'.e[j].owner = tbl'.e[k].owner => j = k
      /\ \A j \in Places(tbl) : tbl.e[j].owner # o
  BY <1>1, Zenon DEF OnlyEntry
<1>4. ASSUME NEW j \in Places(tbl')
      PROVE  /\ EntryOK(tbl'.e[j])
             /\ Life(srv', con', tbl'.e[j].owner) # "none"
             /\ isUsed(tbl', j) => /\ Life(srv', con', tbl'.e[j].owner) = "live"
                                   /\ Idx(srv', con', tbl'.e[j].owner) = j
  <2>1. CASE j = i
    BY <2>1, Zenon DEF Added, TakesEntry
  <2>2. CASE j # i
    <3>1. j \in Places(tbl) /\ tbl'.e[j] = tbl.e[j]
      BY <1>2, <2>2, Zenon
    <3> DEFINE r == tbl.e[j].owner
    <3>2. /\ r \in Objs /\ r # o /\ EntryOK(tbl.e[j]) /\ Life(srv, con, r) # "none"
          /\ isUsed(tbl, j) => Life(srv, con, r) = "live" /\ Idx(srv, con, r) = j
      BY <1>3, <3>1, EntryOf, Zenon
    <3> HIDE DEF r
    <3>3. Life(srv', con', r) = Life(srv, con, r) /\ Idx(srv', con', r) = Idx(srv, con, r)
      BY <3>2 DEF OthersSame
    <3>4. tbl'.e[j].owner = r /\ EntryOK(tbl'.e[j]) /\ (isUsed(tbl', j) => isUsed(tbl, j))
      BY <3>1, <3>2, ZenonT(60) DEF r, isUsed
    <3> QED BY <3>2, <3>3, <3>4, Zenon
  <2> QED BY <2>1, <2>2, Zenon
<1>5. \A r \in Objs : Idx(srv', con', r) <= NServers + NSocks
  BY <1>3 DEF OthersSame, Inv, OwnerInv
<1> QED BY <1>3, <1>4, <1>5, Zenon DEF OwnerInv

(* OwnInv is kept as well: the new entry took the place of none in use. *)
LEMMA AddedOwn ==
  ASSUME Laws, Inv, NEW o \in Objs, NEW i, Added(o, i), Life(srv, con, o) = "none",
         Idx(srv', con', o) = i, OthersSame(o), stray' = stray,
         \A v \in Servs : v # o /\ srv[v].st = "Closed" => srv'[v].st = "Closed",
         loop'.pc = "inClose" => loop' = loop
  PROVE  OwnInv'
<1>1. SUFFICES ASSUME ~stray PROVE OwnInv'
  BY Zenon DEF OwnInv
<1>2. /\ \A r \in Objs : NeedsEntry(srv, con, r) => HasEntry(tbl, Idx(srv, con, r), r)
      /\ loop.pc = "inClose" =>
         /\ isUsed(tbl, Head(loop.todo).i)
         /\ tbl.e[Head(loop.todo).i].owner = loop.cur
         /\ loop.cur \in Servs /\ srv[loop.cur].st = "Closed"
  BY <1>1, ZenonT(60) DEF Inv, OwnInv
<1>3. OnlyEntry(o, i)
  BY AddedPlaces
<1>4. /\ Places(tbl) \subseteq Places(tbl')
      /\ \A j \in Places(tbl') : j # i => tbl'.e[j] = tbl.e[j]
      /\ \A j \in Places(tbl) : isUsed(tbl, j) => j # i /\ isUsed(tbl', j)
      /\ \A j \in Places(tbl) : tbl.e[j].owner # o
  BY <1>3, Zenon DEF OnlyEntry
<1>5. ASSUME NEW r \in Objs, NeedsEntry(srv', con', r)
      PROVE  HasEntry(tbl', Idx(srv', con', r), r)
  <2>1. CASE r = o
    BY <2>1, Zenon DEF Added, TakesEntry, HasEntry, isUsed
  <2>2. CASE r # o
    <3>1. Life(srv', con', r) = Life(srv, con, r) /\ Idx(srv', con', r) = Idx(srv, con, r)
      BY <2>2 DEF OthersSame
    <3>2. NeedsEntry(srv, con, r)
      BY <1>5, <2>2, <3>1, Zenon DEF NeedsEntry
    <3>3. HasEntry(tbl, Idx(srv, con, r), r)
      BY <1>2, <3>2, Zenon
    <3> QED BY <1>4, <3>1, <3>3, ZenonT(60) DEF HasEntry
  <2> QED BY <2>1, <2>2, Zenon
<1>6. ASSUME loop'.pc = "inClose"
      PROVE  /\ isUsed(tbl', Head(loop'.todo).i)
             /\ tbl'.e[Head(loop'.todo).i].owner = loop'.cur
             /\ loop'.cur \in Servs /\ srv'[loop'.cur].st = "Closed"
  <2>1. loop' = loop /\ Head(loop.todo).i \in Places(tbl)
    BY <1>6, Zenon DEF Inv, LoopInv
  <2>2. isUsed(tbl, Head(loop.todo).i) /\ tbl.e[Head(loop.todo).i].owner = loop.cur
        /\ loop.cur \in Servs /\ srv[loop.cur].st = "Closed"
    BY <1>2, <1>6, <2>1, Zenon
  <2>3. isUsed(tbl', Head(loop.todo).i) /\ tbl'.e[Head(loop.todo).i].owner = loop.cur
    BY <1>4, <2>1, <2>2, ZenonT(60)
  <2>4. loop.cur # o
    BY <1>4, <2>1, <2>2
  <2> QED BY <2>1, <2>2, <2>3, <2>4, Zenon
<1> QED BY <1>5, <1>6, Zenon DEF OwnInv

(* ClosedInv is kept, since the new entry is not that of a server that is  *)
(* closed.                                                                 *)
LEMMA AddedClosed ==
  ASSUME Laws, Inv, NEW o \in Objs, NEW i, Added(o, i), Life(srv, con, o) = "none",
         \A v \in Servs : srv'[v].st = "Closed" =>
            /\ v # o /\ srv[v].st = "Closed" /\ srv'[v].at = srv[v].at
            /\ srv'[v].left = srv[v].left /\ srv'[v].list = srv[v].list
  PROVE  ClosedInv'
<1>1. SUFFICES ASSUME NEW v \in Servs, srv'[v].st = "Closed"
               PROVE  /\ srv'[v].at = "" /\ (srv'[v].left = 0 => srv'[v].list = {})
                      /\ \A j \in Places(tbl') : tbl'.e[j].owner = v =>
                           tbl'.e[j].st \in {"SockClosed", "Unused"}
  BY Zenon DEF ClosedInv
<1>2. /\ srv[v].at = "" /\ (srv[v].left = 0 => srv[v].list = {})
      /\ \A j \in Places(tbl) : tbl.e[j].owner = v =>
           tbl.e[j].st \in {"SockClosed", "Unused"}
  BY <1>1, Zenon DEF Inv, ClosedInv
<1>3. srv'[v].at = "" /\ (srv'[v].left = 0 => srv'[v].list = {}) /\ v # o
  BY <1>1, <1>2, Zenon
<1>4. OnlyEntry(o, i)
  BY AddedPlaces
<1>5. \A j \in Places(tbl') : j # i => j \in Places(tbl) /\ tbl'.e[j] = tbl.e[j]
  BY <1>4, Zenon DEF OnlyEntry
<1>6. tbl'.e[i].owner # v
  BY <1>3, Zenon DEF Added, TakesEntry
<1> QED BY <1>2, <1>3, <1>5, <1>6, Zenon

(* An entry added during the scan has nothing that poll() found. *)
LEMMA AddedScan ==
  ASSUME Laws, Inv, NEW o \in Objs, NEW i, Added(o, i), Life(srv, con, o) = "none",
         loop'.i \in Nat, loop'.pc \in ScanPcs, loop.pc \in ScanPcs, loop.i <= loop'.i,
         \A j \in loop'.i + 1 .. tbl.main :
            (isUsed(tbl, j) /\ tbl.e[j].owner \in net.waiting) =>
               tbl.e[j].owner \in net'.waiting,
         NEW j \in loop'.i + 1 .. tbl'.main, tbl'.e[j].st = "SockAssociated",
         "IN" \in tbl'.e[j].rev, tbl'.e[j].owner \in Servs
  PROVE  tbl'.e[j].owner \in net'.waiting
<1>1. /\ tbl \in Tables(Objs) /\ tbl' \in Tables(Objs) /\ Fits(tbl) /\ Fits(tbl')
      /\ TakesEntry(tbl, tbl', i, o) /\ tbl'.e[i].rev = {} /\ loop.i \in Nat
  BY Zenon DEF Inv, Typed, LoopTyped, Loops, Added
<1>2. EntryTaken(tbl, tbl', i, o)
  BY <1>1, TakesEntryLemma
<1>3. j # i
  BY <1>1, Zenon
<1>4. j \in Places(tbl) /\ tbl'.e[j] = tbl.e[j] /\ j \in loop'.i + 1 .. tbl.main
  BY <1>2, <1>3, Zenon DEF EntryTaken
<1>5. j \in loop.i + 1 .. tbl.main
  <2> DEFINE m == loop.i
             n == loop'.i
             k == tbl.main
  <2>1. k \in Nat
    BY <1>2, Zenon DEF EntryTaken
  <2>2. m \in Nat /\ n \in Nat /\ m <= n /\ j \in n + 1 .. k
    BY <1>1, <1>4, Zenon
  <2> HIDE DEF m, n, k
  <2>3. j \in m + 1 .. k
    BY <2>1, <2>2
  <2> QED BY <2>3, Zenon DEF m, k
<1>6. tbl.e[j].owner \in net.waiting
  BY <1>4, <1>5, Zenon DEF Inv, WaitInv
<1>7. isUsed(tbl, j)
  BY <1>4, Zenon DEF isUsed, Used
<1> QED BY <1>4, <1>6, <1>7, Zenon

(* createServer keeps Inv: the new server finds a place in the table or on *)
(* the list of entries to join it.                                         *)
LEMMA CreateServerInv ==
  Laws /\ Inv /\ (\E v \in Servs : createServer(v)) => Inv'
  (* The table only grows, so the loop stays inside it. *)
<1>AddedLoop.
  ASSUME Inv, NEW o \in Objs, NEW i, Added(o, i), loop' = loop,
         queue'.close = queue.close
  PROVE  LoopTyped' /\ LoopInv'
  <2> USE <1>AddedLoop
  <2>1. /\ tbl \in Tables(Objs) /\ tbl' \in Tables(Objs) /\ Fits(tbl) /\ Fits(tbl')
        /\ TakesEntry(tbl, tbl', i, o) /\ tbl.main <= tbl'.main
        /\ loop.i \in Nat /\ loop.i <= tbl.main
    BY Zenon DEF Inv, Typed, LoopTyped, LoopInv, Loops, Added, TakesEntry
  <2>2. EntryTaken(tbl, tbl', i, o)
    BY <2>1, TakesEntryLemma
  <2>3. /\ Places(tbl) \subseteq Places(tbl')
        /\ tbl.main \in Nat /\ tbl'.main \in Nat
    BY <2>2, Zenon DEF EntryTaken
  <2>4. loop.i <= tbl'.main
    <3> DEFINE m == loop.i
               n == tbl.main
               k == tbl'.main
    <3>1. m \in Nat /\ n \in Nat /\ k \in Nat /\ m <= n /\ n <= k
      BY <2>1, <2>3, Zenon
    <3> HIDE DEF m, n, k
    <3>2. m <= k
      BY <3>1
    <3> QED BY <3>2, Zenon DEF m, k
  <2> QED BY <2>3, <2>4, Zenon DEF Inv, Typed, LoopTyped, LoopInv
  (* addEntry for a new object. *)
<1>NewEntry.
  ASSUME Laws, Inv, NEW o \in Objs, tbl' = addEntry(tbl, o)
  PROVE  Added(o, NewIndex(tbl))
  <2> USE <1>NewEntry
  <2> DEFINE i == NewIndex(tbl)
  <2>1. /\ tbl' \in Tables(Objs) /\ Fits(tbl') /\ TakesEntry(tbl, tbl', i, o)
        /\ tbl'.e[i] = Entry(o, i)
    BY AddEntryTakes, Zenon DEF Inv, Typed
  <2> HIDE DEF i
  <2>2. EntryOK(Entry(o, i)) /\ Entry(o, i).rev = {}
    BY DEF Entry, EntryOK
  <2> QED BY <2>1, <2>2, Zenon DEF Added, i
  (* createServer(), whatever the memory of the counter held, keeps Inv. *)
<1>CreateInv.
  ASSUME Laws, Inv, NEW v \in Servs, createServer(v)
  PROVE  Inv'
  <2> USE <1>CreateInv
  <2> DEFINE i == NewIndex(tbl)
  <2>1. PICK left \in Leftovers :
           /\ srv' = [srv EXCEPT ![v] = Server(i, left)]
           /\ srv[v].life = "none" /\ tbl' = addEntry(tbl, v)
           /\ UNCHANGED <<con, queue, net, loop, stray, dropped>>
    BY Zenon DEF createServer
  <2>2. v \in Objs /\ v \notin Socks
    BY ServsFinite DEF Objs
  <2>3. Added(v, i)
    BY <2>1, <2>2, <1>NewEntry, Zenon
  <2>4. Life(srv, con, v) = "none"
    BY <2>1, Zenon DEF Life
  <2> HIDE DEF i
  <2>5. i \in Nat
    <3>1. OnlyEntry(v, i)
      BY <2>2, <2>3, <2>4, AddedPlaces, Zenon
    <3> QED BY <3>1, Zenon DEF OnlyEntry
  <2> DEFINE d == Server(i, left)
  <2>6. /\ d \in SrvData /\ d.life = "live" /\ d.idx = i /\ d.st = "Unused"
        /\ d.cnt = left /\ d.left = left /\ d.list = {} /\ d.at = "" /\ d.timer = FALSE
        /\ left \in Int
    <3>1. left \in Int
      BY ServersAssumption
    <3> QED BY <2>5, <3>1, Zenon DEF Server, SrvData, Lives
  <2> HIDE DEF d
  <2>7. /\ srv' \in [Servs -> SrvData] /\ srv'[v] = d
        /\ \A w \in Servs : w # v => srv'[w] = srv[w]
    BY <2>1, <2>6, Zenon DEF Inv, Typed, d
  <2>8. /\ Life(srv', con', v) = "live" /\ Idx(srv', con', v) = i
        /\ OthersSame(v)
    BY <2>1, <2>6, <2>7, Zenon DEF Life, Idx, OthersSame
  <2>9. LoopTyped' /\ LoopInv'
    BY <2>1, <2>2, <2>3, <1>AddedLoop, Zenon
  <2>10. Typed'
    BY <2>1, <2>3, <2>7, <2>9, Zenon DEF Inv, Typed, Added
  <2>11. OwnerInv'
    BY <2>2, <2>3, <2>4, <2>8, AddedOwner, Zenon
  <2>12. ListInv'
    <3>1. d.cnt - d.left = Cardinality(d.list)
      <4>1. Cardinality({}) = 0
        BY DEF Laws, EmptyLaw
      <4>2. left \in Int
        BY <2>6, Zenon
      <4>3. left - left = 0
        BY <4>2
      <4> QED BY <2>6, <4>1, <4>3, Zenon
    <3>2. ASSUME NEW w \in Servs
          PROVE  /\ srv'[w].cnt - srv'[w].left = Cardinality(srv'[w].list)
                 /\ srv'[w].timer => srv'[w].at # ""
                 /\ srv'[w].at # "" => srv'[w].ahd # {}
                 /\ \A s \in srv'[w].list : con'[s].life = "live" /\ con'[s].server = w
      <4>1. CASE w = v
        BY <2>6, <2>7, <3>1, <4>1, Zenon
      <4>2. CASE w # v
        <5>1. srv'[w] = srv[w] /\ con' = con
          BY <2>1, <2>7, <4>2, Zenon
        <5>2. /\ srv[w].cnt - srv[w].left = Cardinality(srv[w].list)
              /\ srv[w].timer => srv[w].at # ""
              /\ srv[w].at # "" => srv[w].ahd # {}
              /\ \A s \in srv[w].list : con[s].life = "live" /\ con[s].server = w
          BY Zenon DEF Inv, ListInv
        <5> QED BY <5>1, <5>2, ZenonT(30)
      <4> QED BY <4>1, <4>2, Zenon
    <3>3. ASSUME NEW s \in Socks, con'[s].life = "live"
          PROVE  /\ con'[s].server \in Servs /\ srv'[con'[s].server].life = "live"
                 /\ s \in srv'[con'[s].server].list
      <4>1. /\ con[s].server \in Servs /\ srv[con[s].server].life = "live"
            /\ s \in srv[con[s].server].list
        BY <2>1, <3>3, Zenon DEF Inv, ListInv
      <4>2. con[s].server # v
        BY <2>1, <4>1, Zenon
      <4> QED BY <2>1, <2>7, <4>1, <4>2, Zenon
    <3> QED BY <3>2, <3>3, Zenon DEF ListInv
  <2>13. WaitInv'
    <3>1. Cardinality(net'.waiting) <= Cardinality(Fresh')
      BY <2>1, Zenon DEF Inv, WaitInv, Fresh
    <3>2. loop.i \in Nat /\ loop.i <= loop.i
      <4>1. loop.i \in Nat
        BY Zenon DEF Inv, Typed, LoopTyped, Loops
      <4>2. \A n \in Nat : n <= n
        OBVIOUS
      <4> QED BY <4>1, <4>2, Zenon
    <3>3. ASSUME loop'.pc \in ScanPcs, NEW j \in loop'.i + 1 .. tbl'.main,
                 tbl'.e[j].st = "SockAssociated", "IN" \in tbl'.e[j].rev,
                 tbl'.e[j].owner \in Servs
          PROVE  tbl'.e[j].owner \in net'.waiting
      BY <2>1, <2>2, <2>3, <2>4, <3>2, <3>3, AddedScan, Zenon
    <3> QED BY <3>1, <3>3, Zenon DEF WaitInv
  <2>14. ClosedInv'
    <3>1. \A w \in Servs : srv'[w].st = "Closed" => w # v /\ srv'[w] = srv[w]
      BY <2>6, <2>7, Zenon
    <3> QED BY <2>2, <2>3, <2>4, <3>1, AddedClosed, Zenon
  <2>15. OwnInv'
    <3>1. \A w \in Servs : w # v /\ srv[w].st = "Closed" => srv'[w].st = "Closed"
      BY <2>7, Zenon
    <3> QED BY <2>1, <2>2, <2>3, <2>4, <2>8, <3>1, AddedOwn, Zenon
  <2>16. DueInv'
    <3>1. queue' \in Queues /\ Grows
      BY <2>1, SameQueues, Zenon
    <3>2. \A w \in Servs : Due(w)' => w # v /\ srv'[w] = srv[w]
      BY <2>6, <2>7, Zenon DEF Due
    <3>3. \A w \in Servs : Due(w)' => /\ srv'[w].idx = srv[w].idx
                                      /\ srv[w].life = "live" /\ srv[w].left = 0
                                      /\ srv[w].st = "BeingClosed" /\ srv[w].list = {}
      BY <3>2 DEF Due
    <3> QED BY <2>1, <3>1, <3>3, SameDue, Zenon
  <2> QED BY <2>9, <2>10, <2>11, <2>12, <2>13, <2>14, <2>15, <2>16, Zenon DEF Inv
<1> QED BY <1>CreateInv, Zenon

=============================================================================
