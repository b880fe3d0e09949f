---------------------------- MODULE ServersProofs ----------------------------
(***************************************************************************)
(* Every step of the loop of Servers keeps the invariant. So the safety    *)
(* properties hold for any number of servers and connections, whatever the *)
(* memory of the counters held.                                            *)
(***************************************************************************)
EXTENDS ServersCallsProofs

-----------------------------------------------------------------------------
(* The scan of what poll() found.                                          *)

(* What becomes of the objects: v has the new connection s at entry i.     *)
Accepts(v, s, i) ==
  /\ srv' \in [Servs -> SrvData] /\ con' \in [Socks -> ConData]
  /\ srv'[v].life = srv[v].life /\ srv'[v].idx = srv[v].idx /\ srv'[v].st = srv[v].st
  /\ srv'[v].cnt = srv[v].cnt + 1 /\ srv'[v].left = srv[v].left
  /\ srv'[v].list = srv[v].list \cup {s}
  /\ (srv'[v].timer => srv'[v].at # "") /\ (srv'[v].at # "" => srv'[v].ahd # {})
  /\ \A w \in Servs : w # v => srv'[w] = srv[w]
  /\ con'[s].life = "live" /\ con'[s].idx = i /\ con'[s].server = v
  /\ \A r \in Socks : r # s => con'[r] = con[r]

(* Dispatching what poll() reported keeps Inv: accepting connections,      *)
(* noticing that one has failed, and the handlers called meanwhile.        *)
LEMMA DispatchStepsInv ==
  Laws /\ Inv /\ (ConnectionHandled \/ ErrorHandled \/ Dispatch) => Inv'
  (* Steps within the scan of what poll() found. *)
<1>ScanStep.
  ASSUME Inv, tbl' = tbl, loop.pc \in ScanPcs, loop' \in Loops(Nat), loop'.pc \in ScanPcs,
         loop.i <= loop'.i, loop'.i <= tbl.main, loop'.todo = loop.todo,
         loop'.pc = "inError" => loop'.i # 0,
         \A j \in loop'.i + 1 .. tbl.main :
            (isUsed(tbl, j) /\ tbl.e[j].owner \in net.waiting) =>
               tbl.e[j].owner \in net'.waiting
  PROVE  ScanKept /\ LoopTyped' /\ LoopInv' /\ loop'.pc \notin ClosePcs
  <2> USE <1>ScanStep
  <2>1. /\ loop.pc \notin ClosePcs \cup IndexPcs /\ loop'.pc \notin ClosePcs \cup IndexPcs
        /\ loop'.pc \notin {"inListening", "inSockClose", "inAccepted", "inClose"}
    BY DEF ScanPcs, ClosePcs, IndexPcs
  <2>2. loop.todo = <<>>
    BY <2>1 DEF Inv, LoopInv
  <2>3. ScanKept
    BY DEF ScanKept, isUsed, Used
  <2> QED BY <2>1, <2>2, <2>3 DEF LoopTyped, LoopInv
  (* The return of the connection handlers keeps Inv. *)
<1>ConnectionHandledInv.
  ASSUME Laws, Inv, ConnectionHandled
  PROVE  Inv'
  <2> USE <1>ConnectionHandledInv
  <2>1. /\ loop.pc = "inConnection" /\ loop' = [loop EXCEPT !.pc = "dispatch", !.cur = 0]
        /\ UNCHANGED <<srv, con, tbl, queue, net, stray, dropped>>
    BY Zenon DEF ConnectionHandled, At
  <2>2. loop \in Loops(Nat) /\ loop.pc \in ScanPcs
    BY <2>1, LoopNat DEF ClosePcs, ScanPcs
  <2>3. /\ loop' \in Loops(Nat) /\ loop'.pc = "dispatch" /\ loop'.i = loop.i
        /\ loop'.todo = loop.todo
    BY <2>1, <2>2, Zenon DEF Loops, Pcs, ScanPcs
  <2>4. loop.i <= loop.i /\ loop.i <= tbl.main
    BY <2>2 DEF Loops, Inv, LoopInv
  <2>5. ScanKept /\ LoopInv' /\ loop'.pc \notin ClosePcs
    BY <2>1, <2>2, <2>3, <2>4, <1>ScanStep DEF ScanPcs
  <2>6. queue' \in Queues /\ Grows /\ net' \in Nets /\ net'.waiting \subseteq net.waiting
    BY <2>1, SameQueues, Zenon DEF Inv, Typed
  <2> QED BY <2>1, <2>3, <2>5, <2>6, CalmLoop
  (* The return of the error handlers keeps Inv. *)
<1>ErrorHandledInv.
  ASSUME Laws, Inv, ErrorHandled
  PROVE  Inv'
  <2> USE <1>ErrorHandledInv
  <2> DEFINE p == [i |-> tbl.e[loop.i].index, err |-> TRUE]
  <2>1. /\ loop.pc = "inError" /\ loop' = [loop EXCEPT !.pc = "dispatch", !.cur = 0]
        /\ queue' = [queue EXCEPT !.close = Append(@, p)]
        /\ UNCHANGED <<srv, con, tbl, net, stray, dropped>>
    BY Zenon DEF ErrorHandled, At
  <2>2. loop \in Loops(Nat) /\ loop.pc \in ScanPcs
    BY <2>1, LoopNat DEF ClosePcs, ScanPcs
  <2>3. /\ loop' \in Loops(Nat) /\ loop'.pc = "dispatch" /\ loop'.i = loop.i
        /\ loop'.todo = loop.todo
    BY <2>1, <2>2, Zenon DEF Loops, Pcs, ScanPcs
  <2>4. loop.i <= loop.i /\ loop.i <= tbl.main
    BY <2>2 DEF Loops, Inv, LoopInv
  <2>5. ScanKept /\ LoopInv' /\ loop'.pc \notin ClosePcs
    BY <2>1, <2>2, <2>3, <2>4, <1>ScanStep DEF ScanPcs
  <2>6. p \in Posts
    <3>1. loop.i \in Nat /\ loop.i # 0
      BY <2>1, <2>2 DEF Loops, Inv, LoopInv
    <3>2. tbl.main \in Nat /\ Len(tbl.e) \in Nat /\ tbl.main <= Len(tbl.e)
      BY DEF Inv, Typed, Tables, Fits
    <3>3. loop.i \in Places(tbl)
      BY <2>4, <3>1, <3>2 DEF Places
    <3>4. tbl.e[loop.i].index \in Nat
      BY <3>3, EntryOf DEF Entries
    <3> QED BY <3>4 DEF Posts
  <2> HIDE DEF p
  <2>7. queue \in Queues
    BY DEF Inv, Typed
  <2>8. queue' \in Queues /\ queue'.close = Append(queue.close, p)
    BY <2>1, <2>6, <2>7, QueueLemma
  <2>9. Grows
    BY <2>6, <2>8, NewPost
  <2>10. net' \in Nets /\ net'.waiting \subseteq net.waiting
    BY <2>1 DEF Inv, Typed
  <2> QED BY SMTT(30), <2>1, <2>3, <2>5, <2>8, <2>9, <2>10, CalmLoop
  (* The entry that the scan goes to next, and the loop there. *)
<1>NextReady.
  ASSUME Laws, Inv, loop.pc = "dispatch", loop.left > 0, Ahead # {}
  PROVE  LET i == Min(Ahead)
             at == [loop EXCEPT !.i = i, !.left = @ - 1]
         IN  /\ i \in Places(tbl) /\ i \in loop.i + 1 .. tbl.main /\ loop.i <= i
             /\ at \in Loops(Nat) /\ at.pc = "dispatch" /\ at.i = i /\ at.todo = loop.todo
  <2> USE <1>NextReady
  <2> DEFINE i == Min(Ahead)
             at == [loop EXCEPT !.i = i, !.left = @ - 1]
  <2>1. loop \in Loops(Nat) /\ loop.i \in Nat /\ loop.left \in Nat
    BY LoopNat DEF ClosePcs, Loops
  <2>2. tbl.main \in Nat /\ Len(tbl.e) \in Nat /\ tbl.main <= Len(tbl.e)
    BY DEF Inv, Typed, Tables, Fits
  <2>3. Ahead \subseteq loop.i + 1 .. tbl.main /\ Ahead \subseteq Nat
    BY <2>1, <2>2 DEF Ahead
  <2>4. i \in Ahead
    BY <2>3 DEF Laws, LeastLaw
  <2> HIDE DEF i
  <2>5. i \in loop.i + 1 .. tbl.main
    BY <2>3, <2>4
  <2>6. i \in Nat /\ i \in Places(tbl) /\ loop.i <= i
    BY <2>1, <2>2, <2>5 DEF Places
  <2>7. loop.left - 1 \in Nat
    BY <2>1
  <2>8. at \in Loops(Nat) /\ at.pc = "dispatch" /\ at.i = i /\ at.todo = loop.todo
    BY <2>1, <2>6, <2>7, Zenon DEF Loops
  <2> QED BY <2>5, <2>6, <2>8 DEF i
  (* A step at entry i, of object o, that leaves the table and the servers *)
  (* alone: nobody else loses a connection that waits. *)
<1>ScanAt.
  ASSUME Inv, NEW i \in Places(tbl), i \in loop.i + 1 .. tbl.main, isUsed(tbl, i),
         loop.pc = "dispatch", tbl' = tbl,
         loop' \in Loops(Nat), loop'.pc \in ScanPcs, loop'.i = i, loop'.todo = loop.todo,
         net \in Nets, net.waiting \ {tbl.e[i].owner} \subseteq net'.waiting
  PROVE  ScanKept /\ LoopTyped' /\ LoopInv' /\ loop'.pc \notin ClosePcs
  <2> USE <1>ScanAt
  <2>1. loop \in Loops(Nat) /\ loop.i \in Nat
    BY LoopNat DEF ClosePcs, Loops
  <2>2. tbl.main \in Nat /\ Len(tbl.e) \in Nat /\ tbl.main <= Len(tbl.e)
    BY DEF Inv, Typed, Tables, Fits
  <2>3. loop.i <= i /\ i <= tbl.main /\ i # 0 /\ i \in Nat
    BY <2>1, <2>2
  <2>4. ASSUME NEW j \in i + 1 .. tbl.main, isUsed(tbl, j), tbl.e[j].owner \in net.waiting
        PROVE  tbl.e[j].owner \in net'.waiting
    <3>1. j \in Places(tbl) /\ j # i
      BY <2>2, <2>3 DEF Places
    <3>2. tbl.e[j].owner # tbl.e[i].owner
      BY <2>4, <3>1, EntryOf, Zenon
    <3> QED BY <2>4, <3>2
  <2>5. loop.pc \in ScanPcs
    BY DEF ScanPcs
  <2> QED BY <2>3, <2>4, <2>5, <1>ScanStep
  (* What the scan does at the entry of a connection keeps Inv. *)
<1>CheckSocketInv.
  ASSUME Laws, Inv, NEW i \in Places(tbl), i \in loop.i + 1 .. tbl.main, isUsed(tbl, i),
         loop.pc = "dispatch", tbl.e[i].owner \notin Servs,
         NEW at \in Loops(Nat), at.pc = "dispatch", at.i = i, at.todo = loop.todo,
         CheckSocket(tbl.e[i].owner, at)
  PROVE  Inv'
  <2> USE <1>CheckSocketInv
  <2> DEFINE s == tbl.e[i].owner
  <2>1. s \in Socks
    BY EntryOf, Zenon DEF Objs
  <2>2. /\ loop' = at /\ net' = [net EXCEPT !.lost = @ \ {s}] /\ net \in Nets
        /\ UNCHANGED <<srv, tbl, stray, dropped>>
    BY DEF CheckSocket, Inv, Typed
  <2>3. net' \in Nets /\ net'.waiting = net.waiting
    BY <2>2 DEF Nets
  <2>4. ScanKept /\ LoopTyped' /\ LoopInv' /\ loop'.pc \notin ClosePcs
    BY <2>2, <2>3, <1>ScanAt DEF ScanPcs
  <2>5. Kept /\ UsesKept
    BY <2>2, SameTable
  <2>6. /\ SameObjects /\ \A v \in Servs : CalmServer(srv[v], srv'[v])
        /\ queue' \in Queues /\ Grows
    <3>1. CASE con[s].st = "Connected"
      <4>1. CloseSocket(s, "ErrorClosing")
        BY <3>1 DEF CheckSocket
      <4> HIDE DEF s
      <4> QED BY <2>1, <2>2, <4>1, SocketState
    <3>2. CASE con[s].st # "Connected"
      <4>1. UNCHANGED <<con, queue>>
        BY <3>2 DEF CheckSocket
      <4>2. queue' = queue /\ queue \in Queues
        BY <4>1 DEF Inv, Typed
      <4>3. queue' \in Queues /\ Grows
        BY <4>2, SameClose, Zenon
      <4> QED BY SMTT(30), <2>2, <4>1, <4>3, UnmovedObjects
    <3> QED BY <3>1, <3>2
  <2> QED BY SMTT(30), <2>2, <2>3, <2>4, <2>5, <2>6, Frame
  (* The scan leaves everything but the network alone at entry i. *)
<1>PassedInv.
  ASSUME Laws, Inv, NEW i \in Places(tbl), i \in loop.i + 1 .. tbl.main, isUsed(tbl, i),
         loop.pc = "dispatch",
         loop' \in Loops(Nat), loop'.pc \in ScanPcs, loop'.i = i, loop'.todo = loop.todo,
         net' \in Nets, net'.waiting \subseteq net.waiting,
         net.waiting \ {tbl.e[i].owner} \subseteq net'.waiting,
         UNCHANGED <<srv, con, tbl, queue, stray, dropped>>
  PROVE  Inv'
  <2> USE <1>PassedInv
  <2>1. net \in Nets
    BY DEF Inv, Typed
  <2>2. ScanKept /\ LoopInv' /\ loop'.pc \notin ClosePcs
    BY <2>1, <1>ScanAt
  <2>3. queue' \in Queues /\ Grows
    BY SameQueues, Zenon
  <2> QED BY <2>2, <2>3, CalmLoop
  (* The table after addEntry, setAssociated and the event, for a socket. *)
<1>AcceptedEntry.
  ASSUME Laws, Inv, NEW s \in Objs,
         tbl' = setEvent(setAssociated(addEntry(tbl, s), NewIndex(tbl)), NewIndex(tbl), "IN")
  PROVE  Added(s, NewIndex(tbl))
  <2> USE <1>AcceptedEntry
  <2> DEFINE i == NewIndex(tbl)
             t == addEntry(tbl, s)
  <2>1. tbl \in Tables(Objs) /\ Fits(tbl)
    BY DEF Inv, Typed
  <2>2. /\ t \in Tables(Objs) /\ Fits(t) /\ t.e[i] = Entry(s, i)
        /\ TakesEntry(tbl, t, i, s)
    BY <2>1, AddEntryTakes, Zenon
  <2>3. tbl' = setEvent(setAssociated(t, i), i, "IN")
    OBVIOUS
  <2> HIDE DEF i, t
  <2>4. PICK x \in Entries(Objs) :
           /\ Changed(Objs, t, tbl', i, x)
           /\ x.st = "SockAssociated" /\ x.fd = "positive"
           /\ x.owner = t.e[i].owner /\ x.rev = t.e[i].rev
    BY <2>2, <2>3, AssociatedIn, Zenon DEF TakesEntry
  <2>5. Entry(s, i).owner = s /\ Entry(s, i).rev = {}
    BY DEF Entry
  <2>6. Used(x) /\ EntryOK(x) /\ x.owner = s /\ x.rev = {}
    BY <2>2, <2>4, <2>5, Zenon DEF Used, EntryOK
  <2>7. /\ tbl' \in Tables(Objs) /\ Fits(tbl') /\ tbl'.e[i] = x
        /\ TakesEntry(tbl, tbl', i, s)
    BY <2>1, <2>2, <2>4, <2>6, ChangedTakes
  <2> QED BY <2>6, <2>7, Zenon DEF Added, i
  (* makeSocket adds the connection to socketList and counts it. *)
<1>MakeSocketLemma.
  ASSUME NEW d \in SrvData, NEW s \in Socks
  PROVE  LET f == makeSocket(d, s)
         IN  /\ f \in SrvData /\ f.st = d.st /\ f.life = d.life /\ f.idx = d.idx
             /\ f.cnt = d.cnt + 1 /\ f.left = d.left /\ f.list = d.list \cup {s}
             /\ f.at = d.at /\ f.timer = d.timer /\ f.ahd = d.ahd
  <2> USE <1>MakeSocketLemma
  <2>1. d.cnt \in Int /\ d.list \subseteq Socks
    BY Zenon DEF SrvData
  <2>2. d.cnt + 1 \in Int /\ d.list \cup {s} \in SUBSET Socks
    BY <2>1
  <2> QED BY <2>2, Zenon DEF makeSocket, SrvData
  (* Accepting a connection makes one socket, and may resume the coroutine *)
  (* of the server. *)
<1>AcceptsObjects.
  ASSUME Inv, NEW v \in Servs, NEW s \in Socks, NEW i \in Nat,
         con' = [con EXCEPT ![s] = Socket("live", i, v)],
         LET d == makeSocket(srv[v], s)
         IN  srv' = [srv EXCEPT ![v] = IF "connection" \in d.ahd
                                       THEN Woken(d, {"connection"}) ELSE d]
  PROVE  Accepts(v, s, i)
  <2> USE <1>AcceptsObjects
  <2> DEFINE d == makeSocket(srv[v], s)
             f == IF "connection" \in d.ahd THEN Woken(d, {"connection"}) ELSE d
             c == Socket("live", i, v)
  <2>1. srv[v] \in SrvData /\ SameServer(srv[v], srv[v])
    BY SameServerRefl
  <2>2. /\ d \in SrvData /\ d.st = srv[v].st /\ d.life = srv[v].life /\ d.idx = srv[v].idx
        /\ d.cnt = srv[v].cnt + 1 /\ d.left = srv[v].left /\ d.list = srv[v].list \cup {s}
        /\ (d.timer => d.at # "") /\ (d.at # "" => d.ahd # {})
    <3>1. /\ d \in SrvData /\ d.st = srv[v].st /\ d.life = srv[v].life
          /\ d.idx = srv[v].idx /\ d.cnt = srv[v].cnt + 1
          /\ d.left = srv[v].left /\ d.list = srv[v].list \cup {s}
          /\ d.at = srv[v].at /\ d.timer = srv[v].timer /\ d.ahd = srv[v].ahd
      BY <2>1, <1>MakeSocketLemma, Zenon
    <3>2. /\ srv[v].timer => srv[v].at # ""
          /\ srv[v].at # "" => srv[v].ahd # {}
      BY <2>1, Zenon DEF SameServer
    <3> QED BY <3>1, <3>2, Zenon
  <2>3. c \in ConData /\ c.life = "live" /\ c.idx = i /\ c.server = v
    BY ServersAssumption DEF Socket, ConData, Lives, Servs
  <2>4. srv' = [srv EXCEPT ![v] = f] /\ con' = [con EXCEPT ![s] = c]
    OBVIOUS
  <2> HIDE DEF d, c
  <2>5. /\ f \in SrvData /\ f.st = d.st /\ f.life = d.life /\ f.idx = d.idx
        /\ f.cnt = d.cnt /\ f.left = d.left /\ f.list = d.list
        /\ (f.timer => f.at # "") /\ (f.at # "" => f.ahd # {})
    <3>1. CASE "connection" \in d.ahd
      <4>1. {"connection"} \in SUBSET Awaits
        BY DEF Awaits
      <4> QED BY <2>2, <3>1, <4>1, WokenLemma, Zenon
    <3>2. CASE "connection" \notin d.ahd
      BY <2>2, <3>2, Zenon
    <3> QED BY <3>1, <3>2, Zenon
  <2> HIDE DEF f
  <2>6. srv \in [Servs -> SrvData] /\ con \in [Socks -> ConData]
    BY DEF Inv, Typed
  <2>7. srv' \in [Servs -> SrvData] /\ srv'[v] = f /\ \A w \in Servs : w # v => srv'[w] = srv[w]
    BY <2>4, <2>5, <2>6, Zenon
  <2>8. con' \in [Socks -> ConData] /\ con'[s] = c /\ \A r \in Socks : r # s => con'[r] = con[r]
    BY <2>3, <2>4, <2>6
  <2> QED BY <2>2, <2>3, <2>5, <2>7, <2>8, Zenon DEF Accepts
  (* ListInv is kept: the new socket is counted and in the list of its *)
  (* server alone. *)
<1>AcceptsList.
  ASSUME Laws, Inv, NEW v \in Servs, NEW s \in Socks, NEW i, Accepts(v, s, i),
         con[s].life = "none", srv[v].life = "live"
  PROVE  ListInv'
  <2> USE <1>AcceptsList
  <2>1. \A w \in Servs : s \notin srv[w].list
    BY Zenon DEF Inv, ListInv
  <2>2. srv[v].list \subseteq Socks /\ srv[v].cnt \in Int /\ srv[v].left \in Int
    BY Zenon DEF Inv, Typed, SrvData
  <2>3. srv'[v].cnt - srv'[v].left = Cardinality(srv'[v].list)
    <3>1. IsFiniteSet(srv[v].list)
      BY <2>2, ServsFinite, Zenon DEF Laws, SubsetLaw
    <3>2. /\ Cardinality(srv[v].list \cup {s}) = Cardinality(srv[v].list) + 1
          /\ Cardinality(srv[v].list) \in Nat
      BY <2>1, <3>1, Zenon DEF Laws, AddLaw, CountLaw
    <3>3. srv[v].cnt - srv[v].left = Cardinality(srv[v].list)
      BY Zenon DEF Inv, ListInv
    <3>4. /\ srv'[v].cnt = srv[v].cnt + 1 /\ srv'[v].left = srv[v].left
          /\ Cardinality(srv'[v].list) = Cardinality(srv[v].list) + 1
      BY <3>2, Zenon DEF Accepts
    <3> QED BY <2>2, <3>2, <3>3, <3>4
  <2>4. ASSUME NEW w \in Servs
        PROVE  /\ srv'[w].cnt - srv'[w].left = Cardinality(srv'[w].list)
               /\ srv'[w].timer => srv'[w].at # ""
               /\ srv'[w].at # "" => srv'[w].ahd # {}
               /\ \A r \in srv'[w].list : con'[r].life = "live" /\ con'[r].server = w
    <3>1. \A r \in srv[w].list : /\ r \in Socks /\ r # s
                                 /\ con[r].life = "live" /\ con[r].server = w
      BY <2>1, Zenon DEF Inv, Typed, SrvData, ListInv
    <3>2. CASE w = v
      <4>1. \A r \in srv'[v].list : con'[r].life = "live" /\ con'[r].server = v
        <5>1. /\ srv'[v].list = srv[v].list \cup {s}
              /\ con'[s].life = "live" /\ con'[s].server = v
              /\ \A r \in Socks : r # s => con'[r] = con[r]
          BY Zenon DEF Accepts
        <5>2. \A r \in srv[v].list : con'[r].life = "live" /\ con'[r].server = v
          BY <3>1, <3>2, <5>1, Zenon
        <5> QED BY <5>1, <5>2, Zenon
      <4> QED BY <2>3, <3>2, <4>1, Zenon DEF Accepts
    <3>3. CASE w # v
      <4>1. srv'[w] = srv[w]
        BY <3>3, Zenon DEF Accepts
      <4>2. \A r \in srv[w].list : con'[r].life = "live" /\ con'[r].server = w
        BY <3>1, Zenon DEF Accepts
      <4>3. /\ srv[w].cnt - srv[w].left = Cardinality(srv[w].list)
            /\ srv[w].timer => srv[w].at # ""
            /\ srv[w].at # "" => srv[w].ahd # {}
        BY Zenon DEF Inv, ListInv
      <4> QED BY <4>1, <4>2, <4>3, ZenonT(30)
    <3> QED BY <3>2, <3>3, Zenon
  <2>5. ASSUME NEW r \in Socks, con'[r].life = "live"
        PROVE  /\ con'[r].server \in Servs /\ srv'[con'[r].server].life = "live"
               /\ r \in srv'[con'[r].server].list
    <3>1. CASE r = s
      BY <3>1, Zenon DEF Accepts
    <3>2. CASE r # s
      <4>1. con'[r] = con[r]
        BY <3>2, Zenon DEF Accepts
      <4>2. /\ con[r].server \in Servs /\ srv[con[r].server].life = "live"
            /\ r \in srv[con[r].server].list
        BY <2>5, <4>1, Zenon DEF Inv, ListInv
      <4>3. \/ srv'[con[r].server] = srv[con[r].server]
            \/ /\ srv'[con[r].server].life = srv[con[r].server].life
               /\ srv'[con[r].server].list = srv[con[r].server].list \cup {s}
        BY <4>2, Zenon DEF Accepts
      <4> QED BY <4>1, <4>2, <4>3, Zenon
    <3> QED BY <3>1, <3>2
  <2> QED BY <2>4, <2>5, Zenon DEF ListInv
  (* A connection that waits becomes a socket. *)
<1>AcceptedInv.
  ASSUME Laws, Inv, NEW i \in Places(tbl), i \in loop.i + 1 .. tbl.main,
         tbl.e[i].st = "SockAssociated", "IN" \in tbl.e[i].rev,
         loop.pc = "dispatch", tbl.e[i].owner \in Servs,
         NEW at \in Loops(Nat), at.pc = "dispatch", at.i = i, at.todo = loop.todo,
         consumeAcceptedSocket(tbl.e[i].owner, at)
  PROVE  Inv'
  <2> USE <1>AcceptedInv
  <2> DEFINE v == tbl.e[i].owner
             s == Min(Fresh)
             n == NewIndex(tbl)
             d == makeSocket(srv[v], s)
             ok == CanAssociate(addEntry(tbl, s), n) /\ Resumable(d, {"connection"})
  <2>1. CASE ~ok
    BY <2>1, Stutters DEF consumeAcceptedSocket, Fail, Fresh
  <2>2. CASE ok
    <3>1. /\ tbl' = setEvent(setAssociated(addEntry(tbl, s), n), n, "IN")
          /\ con' = [con EXCEPT ![s] = Socket("live", n, v)]
          /\ srv' = [srv EXCEPT ![v] = IF "connection" \in d.ahd
                                       THEN Woken(d, {"connection"}) ELSE d]
          /\ queue' = [queue EXCEPT !.accepted = Append(@, n)]
          /\ net' = [net EXCEPT !.waiting = @ \ {v}]
          /\ loop' = [at EXCEPT !.pc = "inConnection", !.cur = v]
          /\ UNCHANGED <<stray, dropped>>
      BY <2>2 DEF consumeAcceptedSocket, Fresh
    <3>2. v \in Servs /\ v \in net.waiting /\ net \in Nets
      BY Zenon DEF Inv, Typed, WaitInv, ScanPcs
    <3>3. isUsed(tbl, i) /\ srv[v].life = "live" /\ srv[v].idx = i
      BY <3>2, EntryOf, Zenon DEF isUsed, Used, Life, Idx
    <3>4. srv[v].st # "Closed"
      BY <3>2, Zenon DEF Inv, ClosedInv
    <3>5. /\ IsFiniteSet(net.waiting) /\ IsFiniteSet(Fresh) /\ Fresh \subseteq Socks
          /\ Cardinality(net.waiting) \in Nat /\ Cardinality(Fresh) \in Nat
          /\ Cardinality(net.waiting) <= Cardinality(Fresh)
      <4>1. net.waiting \subseteq Servs /\ Fresh \subseteq Socks
        BY <3>2 DEF Nets, Fresh
      <4>2. IsFiniteSet(net.waiting) /\ IsFiniteSet(Fresh)
        BY <4>1, ServsFinite, Zenon DEF Laws, SubsetLaw
      <4>3. Cardinality(net.waiting) \in Nat /\ Cardinality(Fresh) \in Nat
        BY <4>2, Zenon DEF Laws, CountLaw
      <4> QED BY <4>1, <4>2, <4>3, Zenon DEF Inv, WaitInv
    <3>6. /\ Cardinality(net.waiting \ {v}) = Cardinality(net.waiting) - 1
          /\ Cardinality(net.waiting) # 0
      <4> HIDE DEF v, s, n, ok
      <4>1. IsFiniteSet(net.waiting) /\ v \in net.waiting
        BY <3>2, <3>5
      <4>2. Cardinality(net.waiting \ {v}) = Cardinality(net.waiting) - 1
        BY <4>1, Zenon DEF Laws, RemoveLaw
      <4>3. net.waiting # {}
        BY <4>1
      <4>4. Cardinality(net.waiting) # 0
        BY <4>1, <4>3 DEF Laws, EmptyLaw
      <4> QED BY <4>2, <4>4, Zenon
    <3>7. Fresh # {}
      <4>1. Cardinality(Fresh) # 0
        BY <3>5, <3>6
      <4> QED BY <4>1 DEF Laws, EmptyLaw
    <3>8. s \in Fresh
      <4>1. Fresh \subseteq Nat
        BY <3>5, ServersAssumption DEF Socks
      <4> QED BY <3>7, <4>1, Zenon DEF Laws, LeastLaw
    <3> HIDE DEF v, s, n, ok
    <3>9. s \in Socks /\ s \notin Servs /\ s \in Objs /\ con[s].life = "none"
      BY <3>8, ServsFinite DEF Fresh, Objs
    <3>10. Added(s, n)
      BY <3>1, <3>9, <1>AcceptedEntry DEF n
    <3>11. Life(srv, con, s) = "none"
      BY <3>9 DEF Life
    <3>12. n \in Nat
      BY <3>9, <3>10, <3>11, AddedPlaces DEF OnlyEntry
    <3>13. Accepts(v, s, n)
      BY <3>1, <3>2, <3>9, <3>12, <1>AcceptsObjects, Zenon
    <3>14. Life(srv', con', s) = "live" /\ Idx(srv', con', s) = n /\ OthersSame(s)
      <4>1. Life(srv', con', s) = "live" /\ Idx(srv', con', s) = n
        BY <3>9, <3>13, Zenon DEF Accepts, Life, Idx
      <4>2. ASSUME NEW r \in Objs, r # s
            PROVE  /\ Life(srv', con', r) = Life(srv, con, r)
                   /\ Idx(srv', con', r) = Idx(srv, con, r)
        <5>1. r \in Servs => srv'[r].life = srv[r].life /\ srv'[r].idx = srv[r].idx
          BY <3>13, Zenon DEF Accepts
        <5>2. r \notin Servs => con'[r] = con[r]
          BY <3>13, <4>2, Zenon DEF Accepts, Objs
        <5> QED BY <5>1, <5>2, Zenon DEF Life, Idx
      <4> QED BY <4>1, <4>2, Zenon DEF OthersSame
    <3>15. v \in Nat /\ queue \in Queues
      BY <3>2, ServersAssumption DEF Servs, Inv, Typed
    <3>16. /\ loop' \in Loops(Nat) /\ loop'.pc = "inConnection" /\ loop'.i = i
           /\ loop'.todo = loop.todo
      BY <3>1, <3>15, Zenon DEF Loops, Pcs, ScanPcs
    <3>17. queue' \in Queues /\ queue'.close = queue.close
      BY <3>1, <3>12, <3>15, QueueLemma, Zenon
    <3>18. Grows
      BY <3>15, <3>17, SameClose, Zenon
    <3>19. net' \in Nets /\ net'.waiting = net.waiting \ {v}
      BY <3>1, <3>2 DEF Nets
    <3>20. /\ loop.i \in Nat /\ tbl.main \in Nat /\ tbl'.main \in Nat /\ Len(tbl.e) \in Nat
           /\ tbl.main <= tbl'.main /\ tbl.main <= Len(tbl.e)
      <4>1. loop.i \in Nat
        BY Zenon DEF Inv, Typed, LoopTyped, Loops
      <4>2. tbl \in Tables(Objs) /\ Fits(tbl) /\ tbl' \in Tables(Objs) /\ tbl.main <= tbl'.main
        BY <3>10, Zenon DEF Inv, Typed, Added, TakesEntry
      <4> QED BY <4>1, <4>2 DEF Tables, Fits
    <3>21. i \in Nat /\ loop.i <= i /\ i <= tbl.main /\ i <= tbl'.main
      BY <3>20
    <3>22. LoopTyped' /\ LoopInv'
      <4>1. loop.todo = <<>>
        BY DEF Inv, LoopInv, IndexPcs, ClosePcs
      <4>2. /\ loop'.pc \notin ClosePcs \cup IndexPcs /\ loop'.pc \in ScanPcs
            /\ loop'.pc \notin {"inListening", "inSockClose", "inAccepted", "inClose", "inError"}
        BY <3>16 DEF ClosePcs, IndexPcs, ScanPcs
      <4> QED BY <3>16, <3>21, <4>1, <4>2, Zenon DEF LoopTyped, LoopInv
    <3>23. Typed'
      BY <3>1, <3>10, <3>13, <3>17, <3>19, <3>22, Zenon DEF Inv, Typed, Added,
         Accepts
    <3>24. OwnerInv'
      BY <3>9, <3>10, <3>11, <3>14, AddedOwner, Zenon
    <3>25. ListInv'
      BY <3>2, <3>3, <3>9, <3>13, <1>AcceptsList, Zenon
    <3>26. WaitInv'
      <4>1. Fresh' = Fresh \ {s}
        BY <3>9, <3>13, Zenon DEF Fresh, Accepts
      <4>2. Cardinality(Fresh \ {s}) = Cardinality(Fresh) - 1
        BY <3>5, <3>8, Zenon DEF Laws, RemoveLaw
      <4>3. Cardinality(net'.waiting) <= Cardinality(Fresh')
        BY SMTT(30), <3>5, <3>6, <3>19, <4>1, <4>2
      <4>4. ASSUME NEW j \in i + 1 .. tbl.main, isUsed(tbl, j), tbl.e[j].owner \in net.waiting
            PROVE  tbl.e[j].owner \in net'.waiting
        <5>1. j \in Places(tbl) /\ j # i
          BY <3>20, <3>21 DEF Places
        <5>2. tbl.e[j].owner # v
          BY <3>2, <3>3, <4>4, <5>1, EntryOf, Zenon DEF Idx
        <5> QED BY <3>19, <4>4, <5>2
      <4>5. loop.pc \in ScanPcs /\ loop'.pc \in ScanPcs
        BY <3>16 DEF ScanPcs
      <4>6. ASSUME NEW j \in loop'.i + 1 .. tbl'.main,
                   tbl'.e[j].st = "SockAssociated", "IN" \in tbl'.e[j].rev,
                   tbl'.e[j].owner \in Servs
            PROVE  tbl'.e[j].owner \in net'.waiting
        BY <3>9, <3>10, <3>11, <3>16, <3>21, <4>4, <4>5, <4>6, AddedScan, Zenon
      <4> QED BY <4>3, <4>6, Zenon DEF WaitInv
    <3>27. ClosedInv'
      <4>1. \A w \in Servs : srv'[w].st = "Closed" => w # s /\ srv'[w] = srv[w]
        BY <3>4, <3>9, <3>13, Zenon DEF Accepts
      <4> QED BY <3>9, <3>10, <3>11, <4>1, AddedClosed, Zenon
    <3>28. OwnInv'
      <4>1. \A w \in Servs : w # s /\ srv[w].st = "Closed" => srv'[w].st = "Closed"
        BY <3>13, Zenon DEF Accepts
      <4>2. loop'.pc # "inClose"
        BY <3>16
      <4> QED BY <3>1, <3>9, <3>10, <3>11, <3>14, <4>1, <4>2, AddedOwn, Zenon
    <3>29. DueInv'
      <4>1. \A w \in Servs : Due(w)' => srv'[w] = srv[w]
        BY <3>13, Zenon DEF Due, Accepts
      <4>2. \A w \in Servs : Due(w)' => /\ srv'[w].idx = srv[w].idx
                                        /\ srv[w].life = "live" /\ srv[w].left = 0
                                        /\ srv[w].st = "BeingClosed" /\ srv[w].list = {}
        BY <4>1 DEF Due
      <4>3. loop'.pc \notin ClosePcs
        BY <3>16 DEF ClosePcs
      <4> QED BY <3>1, <3>17, <3>18, <4>2, <4>3, SameDue, Zenon
    <3> QED BY <3>22, <3>23, <3>24, <3>25, <3>26, <3>27, <3>28, <3>29, Zenon DEF Inv
  <2> QED BY <2>1, <2>2, Zenon
  (* What the scan does at the next entry keeps Inv: accept, an error, or *)
  (* what it does for a connection. *)
<1>DispatchInv.
  ASSUME Laws, Inv, Dispatch
  PROVE  Inv'
  <2> USE <1>DispatchInv
  <2> DEFINE i == Min(Ahead)
             o == tbl.e[i].owner
             at == [loop EXCEPT !.i = i, !.left = @ - 1]
  <2>1. loop.pc = "dispatch" /\ loop.left > 0
    BY Zenon DEF Dispatch, At
  <2>2. CASE Ahead = {} \/ ~Found(i)
    BY <2>2, Stutters DEF Dispatch, Fail
  <2>3. CASE Ahead # {} /\ Found(i)
    <3>1. /\ i \in Places(tbl) /\ i \in loop.i + 1 .. tbl.main
          /\ at \in Loops(Nat) /\ at.pc = "dispatch" /\ at.i = i /\ at.todo = loop.todo
      BY <2>1, <2>3, <1>NextReady
    <3>2. IF tbl.e[i].st # "SockAssociated"
          THEN /\ loop' = at
               /\ UNCHANGED <<srv, con, tbl, queue, net, stray, dropped, failed>>
          ELSE IF o \in Servs THEN CheckServer(o, tbl.e[i].rev, at)
          ELSE CheckSocket(o, at)
      BY <2>3 DEF Dispatch
    <3>3. isUsed(tbl, i) /\ net \in Nets
      BY <2>3 DEF Found, Inv, Typed
    <3> HIDE DEF i, at
    <3>4. CASE tbl.e[i].st # "SockAssociated"
      <4>1. loop' = at /\ UNCHANGED <<srv, con, tbl, queue, net, stray, dropped>>
        BY <3>2, <3>4, Zenon
      <4>2. net' \in Nets /\ net'.waiting = net.waiting
        BY <3>3, <4>1
      <4> QED BY SMTT(30), <2>1, <3>1, <3>3, <4>1, <4>2, <1>PassedInv DEF ScanPcs
    <3>5. CASE tbl.e[i].st = "SockAssociated" /\ o \notin Servs
      <4>1. CheckSocket(o, at)
        BY <3>2, <3>5
      <4> QED BY <2>1, <3>1, <3>3, <3>5, <4>1, <1>CheckSocketInv, Zenon
    <3>6. CASE tbl.e[i].st = "SockAssociated" /\ o \in Servs
      <4>1. CheckServer(o, tbl.e[i].rev, at)
        BY <3>2, <3>6
      <4>2. CASE /\ net' = [net EXCEPT !.broken = @ \ {o}]
                 /\ loop' = [at EXCEPT !.pc = "inError", !.cur = o]
                 /\ UNCHANGED <<srv, con, tbl, queue, stray, dropped>>
        <5>1. net' \in Nets /\ net'.waiting = net.waiting
          BY <3>3, <4>2 DEF Nets
        <5>2. o \in Nat
          BY <3>6, ServersAssumption DEF Servs
        <5>3. /\ loop' \in Loops(Nat) /\ loop'.pc = "inError" /\ loop'.i = i
              /\ loop'.todo = loop.todo
          <6> HIDE DEF o
          <6> QED BY <3>1, <4>2, <5>2, Zenon DEF Loops, Pcs, ScanPcs
        <5> QED BY <2>1, <3>1, <3>3, <4>2, <5>1, <5>3, <1>PassedInv, Zenon
                   DEF ScanPcs
      <4>3. CASE "IN" \in tbl.e[i].rev /\ consumeAcceptedSocket(o, at)
        BY SMTT(30), <2>1, <3>1, <3>6, <4>3, <1>AcceptedInv
      <4>4. CASE /\ net' = [net EXCEPT !.waiting = @ \ {o}] /\ loop' = at
                 /\ UNCHANGED <<srv, con, tbl, queue, stray, dropped>>
        <5>1. net' \in Nets /\ net'.waiting = net.waiting \ {o}
          BY <3>3, <4>4 DEF Nets
        <5> QED BY <2>1, <3>1, <3>3, <4>4, <5>1, <1>PassedInv, Zenon DEF ScanPcs
      <4> QED BY SMTT(30), <4>1, <4>2, <4>3, <4>4 DEF CheckServer, infraProcessAcceptEvent
    <3> QED BY <3>4, <3>5, <3>6
  <2> QED BY <2>2, <2>3
<1> QED BY <1>ConnectionHandledInv, <1>ErrorHandledInv, <1>DispatchInv

-----------------------------------------------------------------------------
(* The end of the close event of a socket.                                 *)

(* What becomes of the objects: v has lost the connection s. *)
Releases(v, s) ==
  /\ srv' \in [Servs -> SrvData] /\ con' \in [Socks -> ConData]
  /\ srv'[v].life = srv[v].life /\ srv'[v].idx = srv[v].idx /\ srv'[v].st = srv[v].st
  /\ srv'[v].cnt = srv[v].cnt - 1 /\ srv'[v].left = srv[v].left
  /\ srv'[v].list = srv[v].list \ {s} /\ srv'[v].at = srv[v].at
  /\ srv'[v].timer = srv[v].timer /\ srv'[v].ahd = srv[v].ahd
  /\ \A w \in Servs : w # v => srv'[w] = srv[w]
  /\ con'[s].life = "gone" /\ con'[s].idx = 0
  /\ \A r \in Socks : r # s => con'[r] = con[r]

(* The end of the close event of a connection keeps Inv: its server        *)
(* forgets it, and posts its own close event if it waits for the last one. *)
LEMMA SockClosedInv ==
  Laws /\ Inv /\ SockCloseHandled => Inv'
  (* The table after setUnused and resetEntry of entry i. *)
<1>FreedEntry.
  ASSUME Inv, NEW i \in Places(tbl), tbl' = resetEntry(setUnused(tbl, i), i)
  PROVE  /\ Kept /\ ~isUsed(tbl', i)
         /\ \A j \in Places(tbl) : j # i => tbl'.e[j] = tbl.e[j]
  <2> USE <1>FreedEntry
  <2> DEFINE t == setUnused(tbl, i)
             y == [tbl.e[i] EXCEPT !.st = "Unused", !.index = 0, !.fd = "invalid"]
             x == [t.e[i] EXCEPT !.st = "Unused", !.index = i]
  <2>1. tbl \in Tables(Objs) /\ tbl' = resetEntry(t, i)
    BY DEF Inv, Typed
  <2>2. y \in Entries(Objs) /\ Changed(Objs, tbl, t, i, y)
    BY <2>1, SetUnusedLemma, Zenon
  <2>3. y.owner = tbl.e[i].owner /\ y.rev = tbl.e[i].rev
    BY EntryOf DEF Entries
  <2> HIDE DEF y, t
  <2>4. t \in Tables(Objs) /\ t.e[i] = y /\ i \in Places(t)
    BY <2>2 DEF Changed, Places
  <2>5. x \in Entries(Objs) /\ Changed(Objs, t, tbl', i, x)
    <3>1. x \in Entries(Objs) /\ Changed(Objs, t, resetEntry(t, i), i, x)
      BY <2>4, ResetEntryLemma, Zenon
    <3> QED BY <2>1, <3>1
  <2>6. x.owner = y.owner /\ x.rev = y.rev /\ x.st = "Unused"
    BY <2>2, <2>4 DEF Entries
  <2> HIDE DEF x
  <2>7. Changed(Objs, tbl, tbl', i, x)
    BY <2>2, <2>5 DEF Changed, Places
  <2>8. KeptEntry(tbl.e[i], x) /\ ~Used(x)
    BY <2>3, <2>6, Zenon DEF KeptEntry, EntryOK, Used
  <2>9. Kept
    BY <2>7, <2>8, ChangedKept
  <2> QED BY <2>7, <2>8, <2>9, Zenon DEF Changed, isUsed
  (* removeSocket takes the connection from socketList and from its counter. *)
<1>RemovedLemma.
  ASSUME NEW d \in SrvData, NEW s
  PROVE  LET f == Removed(d, s)
         IN  /\ f \in SrvData /\ f.st = d.st /\ f.life = d.life /\ f.idx = d.idx
             /\ f.cnt = d.cnt - 1 /\ f.left = d.left /\ f.list = d.list \ {s}
             /\ f.at = d.at /\ f.timer = d.timer /\ f.ahd = d.ahd
  <2> USE <1>RemovedLemma
  <2>1. d.cnt \in Int /\ d.list \subseteq Socks
    BY Zenon DEF SrvData
  <2>2. d.cnt - 1 \in Int /\ d.list \ {s} \in SUBSET Socks
    BY <2>1
  <2> QED BY <2>2, Zenon DEF Removed, SrvData
  (* After its close event the connection is gone from its server. *)
<1>ReleasesObjects.
  ASSUME Inv, NEW v \in Servs, NEW s \in Socks,
         srv' = [srv EXCEPT ![v] = Removed(@, s)],
         con' = [con EXCEPT ![s] = Socket("gone", 0, 0)]
  PROVE  Releases(v, s)
  <2> USE <1>ReleasesObjects
  <2> DEFINE f == Removed(srv[v], s)
             c == Socket("gone", 0, 0)
  <2>1. srv \in [Servs -> SrvData] /\ con \in [Socks -> ConData] /\ srv[v] \in SrvData
    BY DEF Inv, Typed
  <2>2. /\ f \in SrvData /\ f.st = srv[v].st /\ f.life = srv[v].life /\ f.idx = srv[v].idx
        /\ f.cnt = srv[v].cnt - 1 /\ f.left = srv[v].left /\ f.list = srv[v].list \ {s}
        /\ f.at = srv[v].at /\ f.timer = srv[v].timer /\ f.ahd = srv[v].ahd
    BY <2>1, <1>RemovedLemma, Zenon
  <2>3. c \in ConData /\ c.life = "gone" /\ c.idx = 0
    BY ServersAssumption DEF Socket, ConData, Lives
  <2>4. srv' = [srv EXCEPT ![v] = f] /\ con' = [con EXCEPT ![s] = c]
    OBVIOUS
  <2> HIDE DEF f, c
  <2>5. srv' \in [Servs -> SrvData] /\ srv'[v] = f /\ \A w \in Servs : w # v => srv'[w] = srv[w]
    BY <2>1, <2>2, <2>4
  <2>6. con' \in [Socks -> ConData] /\ con'[s] = c /\ \A r \in Socks : r # s => con'[r] = con[r]
    BY <2>1, <2>3, <2>4
  <2> QED BY <2>2, <2>3, <2>5, <2>6, Zenon DEF Releases
  (* ListInv is kept when a connection in the list goes. *)
<1>ReleasesList.
  ASSUME Laws, Inv, NEW v \in Servs, NEW s \in Socks, Releases(v, s), s \in srv[v].list
  PROVE  ListInv'
  <2> USE <1>ReleasesList
  <2>1. srv[v].list \subseteq Socks /\ srv[v].cnt \in Int /\ srv[v].left \in Int
    BY Zenon DEF Inv, Typed, SrvData
  <2>2. srv'[v].cnt - srv'[v].left = Cardinality(srv'[v].list)
    <3>1. IsFiniteSet(srv[v].list)
      BY <2>1, ServsFinite, Zenon DEF Laws, SubsetLaw
    <3>2. /\ Cardinality(srv[v].list \ {s}) = Cardinality(srv[v].list) - 1
          /\ Cardinality(srv[v].list) \in Nat
      BY <3>1, Zenon DEF Laws, RemoveLaw, CountLaw
    <3>3. srv[v].cnt - srv[v].left = Cardinality(srv[v].list)
      BY Zenon DEF Inv, ListInv
    <3>4. /\ srv'[v].cnt = srv[v].cnt - 1 /\ srv'[v].left = srv[v].left
          /\ Cardinality(srv'[v].list) = Cardinality(srv[v].list) - 1
      BY <3>2, Zenon DEF Releases
    <3> QED BY <2>1, <3>2, <3>3, <3>4
  <2>3. con[s].server = v
    BY Zenon DEF Inv, ListInv
  <2>4. ASSUME NEW w \in Servs
        PROVE  /\ srv'[w].cnt - srv'[w].left = Cardinality(srv'[w].list)
               /\ srv'[w].timer => srv'[w].at # ""
               /\ srv'[w].at # "" => srv'[w].ahd # {}
               /\ \A r \in srv'[w].list : con'[r].life = "live" /\ con'[r].server = w
    <3>1. \A r \in srv[w].list : r \in Socks /\ con[r].life = "live" /\ con[r].server = w
      BY Zenon DEF Inv, Typed, SrvData, ListInv
    <3>2. CASE w = v
      <4>1. \A r \in srv'[v].list : con'[r].life = "live" /\ con'[r].server = v
        BY <3>1, <3>2 DEF Releases
      <4>2. (srv'[v].timer => srv'[v].at # "") /\ (srv'[v].at # "" => srv'[v].ahd # {})
        <5>1. (srv[v].timer => srv[v].at # "") /\ (srv[v].at # "" => srv[v].ahd # {})
          BY Zenon DEF Inv, ListInv
        <5>2. /\ srv'[v].at = srv[v].at /\ srv'[v].timer = srv[v].timer
              /\ srv'[v].ahd = srv[v].ahd
          BY DEF Releases
        <5> QED BY <5>1, <5>2, Zenon
      <4> QED BY <2>2, <3>2, <4>1, <4>2, Zenon
    <3>3. CASE w # v
      <4>1. srv'[w] = srv[w]
        BY <3>3 DEF Releases
      <4>2. \A r \in srv[w].list : con'[r].life = "live" /\ con'[r].server = w
        BY <2>3, <3>1, <3>3 DEF Releases
      <4> QED BY <4>1, <4>2, Zenon DEF Inv, ListInv
    <3> QED BY <3>2, <3>3, Zenon
  <2>5. ASSUME NEW r \in Socks, con'[r].life = "live"
        PROVE  /\ con'[r].server \in Servs /\ srv'[con'[r].server].life = "live"
               /\ r \in srv'[con'[r].server].list
    <3>1. r # s /\ con'[r] = con[r]
      BY <2>5 DEF Releases
    <3>2. /\ con[r].server \in Servs /\ srv[con[r].server].life = "live"
          /\ r \in srv[con[r].server].list
      BY <2>5, <3>1, Zenon DEF Inv, ListInv
    <3>3. \/ srv'[con[r].server] = srv[con[r].server]
          \/ /\ srv'[con[r].server].life = srv[con[r].server].life
             /\ srv'[con[r].server].list = srv[con[r].server].list \ {s}
      BY <3>2 DEF Releases
    <3> QED BY <3>1, <3>2, <3>3, Zenon
  <2> QED BY <2>4, <2>5, Zenon DEF ListInv
  (* All other objects live as before and keep their index. *)
<1>ReleasesLife.
  ASSUME Laws, Inv, NEW v \in Servs, NEW s \in Socks, Releases(v, s), NEW o \in Objs
  PROVE  /\ Life(srv, con, o) # "none" => Life(srv', con', o) # "none"
         /\ Idx(srv', con', o) \in {Idx(srv, con, o), 0}
         /\ o # s => /\ Life(srv', con', o) = Life(srv, con, o)
                     /\ Idx(srv', con', o) = Idx(srv, con, o)
         /\ NeedsEntry(srv', con', o) => o # s /\ NeedsEntry(srv, con, o)
  <2> USE <1>ReleasesLife
  <2>1. o \in Servs \/ (o \notin Servs /\ o \in Socks)
    BY DEF Objs
  <2>2. s \notin Servs
    BY ServsFinite
  <2>3. CASE o \in Servs
    <3>1. /\ srv'[o].life = srv[o].life /\ srv'[o].idx = srv[o].idx
          /\ srv'[o].st = srv[o].st
      BY <2>3 DEF Releases
    <3> QED BY <2>2, <2>3, <3>1, Zenon DEF Life, Idx, NeedsEntry
  <2>4. CASE o \notin Servs /\ o \in Socks
    BY <2>4, Zenon DEF Releases, Life, Idx, NeedsEntry
  <2> QED BY <2>1, <2>3, <2>4
  (* The server reports its close event when s was its last connection. *)
<1>RemovesSocket.
  ASSUME Inv, NEW v \in Servs, NEW s, queue' = removeSocket(queue, srv[v], s)
  PROVE  /\ queue' \in Queues /\ Grows
         /\ (srv[v].st = "BeingClosed" /\ srv[v].cnt = 1) =>
              \E k \in 1 .. Len(queue'.close) : queue'.close[k].i = srv[v].idx
  <2> USE <1>RemovesSocket
  <2> DEFINE p == [i |-> srv[v].idx, err |-> FALSE]
  <2>1. queue \in Queues /\ srv[v] \in SrvData /\ srv[v].idx \in Nat /\ srv[v].cnt \in Int
    BY Zenon DEF Inv, Typed, SrvData
  <2>2. Removed(srv[v], s).cnt = srv[v].cnt - 1
    BY <2>1, <1>RemovedLemma, Zenon
  <2>3. Removed(srv[v], s).cnt = 0 <=> srv[v].cnt = 1
    BY <2>1, <2>2
  <2>4. p \in Posts /\ p.i = srv[v].idx
    BY <2>1 DEF Posts
  <2>5. \/ queue' = [queue EXCEPT !.close = Append(@, p)]
        \/ queue' = queue /\ ~(srv[v].st = "BeingClosed" /\ srv[v].cnt = 1)
    BY <2>3 DEF removeSocket, CloseReported
  <2> HIDE DEF p
  <2>6. CASE queue' = [queue EXCEPT !.close = Append(@, p)]
    <3>1. queue' \in Queues /\ queue'.close = Append(queue.close, p)
      BY <2>1, <2>4, <2>6, QueueLemma, ZenonT(60)
    <3> QED BY <2>4, <3>1, NewPost
  <2>7. CASE queue' = queue /\ ~(srv[v].st = "BeingClosed" /\ srv[v].cnt = 1)
    <3>1. Len(queue.close) \in Nat
      BY <2>1 DEF Queues
    <3> QED BY <2>1, <2>7, <3>1 DEF Grows
  <2> QED BY <2>5, <2>6, <2>7
  (* The end of the close event of a connection, which may post the close *)
  (* event of its server, keeps Inv. *)
<1>SockCloseHandledInv.
  ASSUME Laws, Inv, SockCloseHandled
  PROVE  Inv'
  <2> USE <1>SockCloseHandledInv
  <2> DEFINE i == Head(loop.todo)
             s == tbl.e[i].owner
             v == con[s].server
  <2>1. CASE ~(s \in Socks /\ isUsed(tbl, i))
    BY <2>1, Stutters, Zenon DEF SockCloseHandled, Fail
  <2>2. CASE removeSocket(queue, srv[v], s) # queue /\ ~Found(srv[v].idx)
    BY <2>2, Stutters, Zenon DEF SockCloseHandled, Fail
  <2>3. CASE /\ s \in Socks /\ isUsed(tbl, i)
             /\ ~(removeSocket(queue, srv[v], s) # queue /\ ~Found(srv[v].idx))
    <3>1. /\ loop.pc = "inSockClose" /\ queue' = removeSocket(queue, srv[v], s)
          /\ srv' = [srv EXCEPT ![v] = Removed(@, s)]
          /\ con' = [con EXCEPT ![s] = Socket("gone", 0, 0)]
          /\ tbl' = resetEntry(setUnused(tbl, con[s].idx), i)
          /\ loop' = Advanced(loop, "sockClosing")
          /\ UNCHANGED <<net, stray, dropped>>
      BY <2>3, Zenon DEF SockCloseHandled, At, Next1, Advanced
    <3>2. i \in Places(tbl) /\ loop.todo # <<>> /\ s \in Socks /\ isUsed(tbl, i)
      BY <2>3, <3>1, Zenon DEF Inv, LoopInv
    <3> HIDE DEF i, s, v
    <3>3. con[s].life = "live" /\ con[s].idx = i /\ s \notin Servs
      <4>1. s \notin Servs
        BY <3>2, ServsFinite
      <4>2. Life(srv, con, s) = "live" /\ Idx(srv, con, s) = i
        BY <3>2, EntryOf DEF s
      <4> QED BY <4>1, <4>2 DEF Life, Idx
    <3>4. v \in Servs /\ srv[v].life = "live" /\ s \in srv[v].list
      BY <3>2, <3>3, Zenon DEF Inv, ListInv, v
    <3>5. Kept /\ ~isUsed(tbl', i) /\ \A j \in Places(tbl) : j # i => tbl'.e[j] = tbl.e[j]
      BY <3>1, <3>2, <3>3, <1>FreedEntry, Zenon
    <3>6. Releases(v, s)
      BY <3>1, <3>2, <3>4, <1>ReleasesObjects, Zenon
    <3>7. /\ queue' \in Queues /\ Grows
          /\ (srv[v].st = "BeingClosed" /\ srv[v].cnt = 1) =>
                \E k \in 1 .. Len(queue'.close) : queue'.close[k].i = srv[v].idx
      BY <3>1, <3>4, <1>RemovesSocket, Zenon
    <3>8. /\ loop' \in Loops(Nat) /\ loop'.pc = "sockClosing" /\ loop'.i = 0
      <4>1. loop \in Loops(Nat) /\ loop.i = 0
        BY <3>1, LoopNat DEF ClosePcs, ScanPcs
      <4>2. "sockClosing" \in Pcs
        BY DEF Pcs, IndexPcs
      <4> QED BY <3>1, <3>2, <4>1, <4>2, Next1Lemma, Zenon
    <3>9. loop'.pc \notin ClosePcs \cup ScanPcs /\ loop'.pc \in IndexPcs /\ loop'.pc # "inClose"
      BY <3>8 DEF ClosePcs, ScanPcs, IndexPcs
    <3>10. LoopTyped' /\ LoopInv'
      <4>1. tbl'.main \in Nat
        BY <3>5, Zenon DEF Kept, Tables
      <4> QED BY <3>8, <3>9, <4>1 DEF LoopTyped, LoopInv
    <3>11. Typed'
      BY <3>1, <3>5, <3>6, <3>7, <3>10, Zenon DEF Inv, Typed, Kept, Releases
    <3>12. OwnerInv'
      <4>1. \A o \in Objs : /\ Life(srv, con, o) # "none" => Life(srv', con', o) # "none"
                            /\ Idx(srv', con', o) \in {Idx(srv, con, o), 0}
        BY <3>2, <3>4, <3>6, <1>ReleasesLife, Zenon
      <4>2. ASSUME NEW j \in Places(tbl), isUsed(tbl', j)
            PROVE  /\ Life(srv', con', tbl.e[j].owner) = "live"
                   /\ Idx(srv', con', tbl.e[j].owner) = Idx(srv, con, tbl.e[j].owner)
        <5>1. j # i /\ isUsed(tbl, j)
          BY <3>5, <4>2 DEF isUsed
        <5>2. /\ tbl.e[j].owner \in Objs /\ Life(srv, con, tbl.e[j].owner) = "live"
              /\ Idx(srv, con, tbl.e[j].owner) = j
          BY <5>1, EntryOf, Zenon
        <5>3. tbl.e[j].owner # s
          BY <3>3, <5>1, <5>2 DEF Idx
        <5> QED BY <3>2, <3>4, <3>6, <5>2, <5>3, <1>ReleasesLife, Zenon
      <4> QED BY <3>5, <4>1, <4>2, KeptOwner, Zenon
    <3>13. ListInv'
      BY <3>2, <3>4, <3>6, <1>ReleasesList, Zenon
    <3>14. WaitInv'
      <4>1. ScanKept
        BY <3>9 DEF ScanKept
      <4>2. \A r \in Socks : con'[r].life = "none" <=> con[r].life = "none"
        BY <3>3, <3>6, Zenon DEF Releases
      <4>3. net' \in Nets /\ net'.waiting \subseteq net.waiting /\ loop'.i \in Nat
        BY SMTT(30), <3>1, <3>8 DEF Inv, Typed
      <4> QED BY <3>5, <4>1, <4>2, <4>3, KeptWait, Zenon
    <3>15. ClosedInv'
      <4>1. \A w \in Servs : srv'[w].st = "Closed" =>
              /\ srv[w].st = "Closed" /\ srv'[w].at = srv[w].at
              /\ srv'[w].left = srv[w].left /\ srv'[w].list \subseteq srv[w].list
        BY <3>6 DEF Releases
      <4> QED BY SMTT(30), <3>5, <4>1, KeptClosed
    <3>16. OwnInv'
      <4>1. SUFFICES ASSUME ~stray, NEW o \in Objs, NeedsEntry(srv', con', o)
                     PROVE  HasEntry(tbl', Idx(srv', con', o), o)
        BY <3>1, <3>9, Zenon DEF OwnInv
      <4>2. /\ o # s /\ NeedsEntry(srv, con, o)
            /\ Idx(srv', con', o) = Idx(srv, con, o)
        BY <3>2, <3>4, <3>6, <4>1, <1>ReleasesLife, Zenon
      <4>3. HasEntry(tbl, Idx(srv, con, o), o)
        BY <4>1, <4>2, Zenon DEF Inv, OwnInv
      <4>4. Idx(srv, con, o) # i
        BY <4>2, <4>3 DEF HasEntry, s
      <4>5. isUsed(tbl', Idx(srv, con, o))
        BY <3>5, <4>3, <4>4 DEF HasEntry, isUsed
      <4> QED BY <3>5, <4>2, <4>3, <4>5, HasEntryKept, Zenon
    <3>17. DueInv'
      <4>1. SUFFICES ASSUME NEW w \in Servs, Due(w)'
                     PROVE  Posted(w)'
        BY <3>9 DEF DueInv
      <4>2. CASE w = v
        <5>1. /\ srv[v].st = "BeingClosed" /\ srv[v].left = 0 /\ srv'[v].list = {}
              /\ srv'[v].left = 0 /\ srv'[v].cnt = srv[v].cnt - 1 /\ srv'[v].idx = srv[v].idx
          BY <3>6, <4>1, <4>2, Zenon DEF Due, Releases
        <5>2. srv'[v].cnt - srv'[v].left = Cardinality(srv'[v].list)
          BY <3>4, <3>13, Zenon DEF ListInv
        <5>3. srv'[v].cnt \in Int /\ srv[v].cnt \in Int
          BY <3>4, <3>11, Zenon DEF Inv, Typed, SrvData
        <5>4. srv[v].cnt = 1
          BY <5>1, <5>2, <5>3 DEF Laws, EmptyLaw
        <5> QED BY <3>7, <4>2, <5>1, <5>4, Zenon DEF Posted
      <4>3. CASE w # v
        <5>1. srv'[w] = srv[w]
          BY <3>6, <4>3 DEF Releases
        <5>2. Due(w)
          BY <3>1, <4>1, <5>1, Zenon DEF Due
        <5> QED BY <3>7, <3>9, <5>1, <5>2, GrowsPosted, ZenonT(60)
      <4> QED BY <4>2, <4>3
    <3> QED BY <3>10, <3>11, <3>12, <3>13, <3>14, <3>15, <3>16, <3>17, Zenon DEF Inv
  <2> QED BY <2>1, <2>2, <2>3, Zenon
<1> QED BY <1>SockCloseHandledInv

-----------------------------------------------------------------------------
(* The close events of servers.                                            *)

(* In infraGetCloseEvents the loop visits posts. *)
LEMMA LoopPosts ==
  ASSUME Inv, loop.pc \in ClosePcs
  PROVE  loop \in Loops(Posts) /\ loop.i = 0 /\ loop.seen <= Len(queue.close)
BY DEF Inv, Typed, LoopTyped, LoopInv, ClosePcs, ScanPcs

(* The close events of servers keep Inv: an event posted for an entry that *)
(* is gone is passed over, any other ends the server.                      *)
LEMMA ServerClosedInv ==
  Laws /\ Inv /\ (AcceptedDone \/ CloseEvent \/ CloseHandled) => Inv'
  (* The loop goes on among the close events of servers. *)
<1>AmongClosing.
  ASSUME Laws, Inv, UNCHANGED <<srv, con, tbl, net, stray>>, queue' \in Queues,
         queue'.close = queue.close, dropped' \subseteq Servs,
         loop' \in Loops(Posts), loop'.pc = "closing", loop'.i = 0,
         loop'.seen <= Len(queue.close), DueInv'
  PROVE  Inv'
  <2> USE <1>AmongClosing
  <2>1. Kept /\ UsesKept
    BY SameTable
  <2>2. SameObjects /\ \A v \in Servs : CalmServer(srv[v], srv'[v])
    BY UnmovedObjects
  <2>3. loop'.pc \in ClosePcs /\ loop'.pc \notin ScanPcs /\ loop'.pc # "inClose"
    BY DEF ClosePcs, ScanPcs
  <2>4. LoopTyped' /\ LoopInv'
    <3>1. tbl.main \in Nat
      BY DEF Inv, Typed, Tables
    <3> QED BY <2>3, <3>1 DEF LoopTyped, LoopInv
  <2>5. Typed'
    BY <2>1, <2>2, <2>4 DEF Inv, Typed
  <2>6. OwnerInv' /\ ListInv'
    BY <2>1, <2>2, SameOwner, SameList
  <2>7. WaitInv'
    <3>1. ScanKept
      BY <2>3 DEF ScanKept
    <3>2. net' \in Nets /\ net'.waiting \subseteq net.waiting /\ loop'.i \in Nat
      BY DEF Inv, Typed
    <3> QED BY <2>1, <3>1, <3>2, KeptWait, Zenon
  <2>8. ClosedInv'
    BY Zenon DEF Inv, ClosedInv
  <2>9. OwnInv'
    BY <2>1, <2>2, <2>3, SameOwn, Zenon
  <2> QED BY <2>4, <2>5, <2>6, <2>7, <2>8, <2>9, Zenon DEF Inv
  (* The end of the accepted events, where the close events of servers are *)
  (* taken, keeps Inv: all of them are ahead of the loop. *)
<1>AcceptedDoneInv.
  ASSUME Laws, Inv, AcceptedDone
  PROVE  Inv'
  <2> USE <1>AcceptedDoneInv
  <2>1. /\ loop.pc = "accepted" /\ queue' = [queue EXCEPT !.accepted = <<>>]
        /\ loop' = [loop EXCEPT !.pc = "closing", !.todo = queue.close,
                                !.seen = Len(queue.close)]
        /\ UNCHANGED <<srv, con, tbl, net, stray, dropped>>
    BY Zenon DEF AcceptedDone, At
  <2>2. queue \in Queues /\ queue.close \in Seq(Posts) /\ Len(queue.close) \in Nat
    BY DEF Inv, Typed, Queues
  <2>3. queue' \in Queues /\ queue'.close = queue.close
    BY <2>1, <2>2, QueueTaken, Zenon
  <2>4. loop \in Loops(Nat) /\ loop.i = 0
    BY <2>1, LoopNat DEF ClosePcs, ScanPcs
  <2>5. /\ loop' \in Loops(Posts) /\ loop'.pc = "closing" /\ loop'.i = 0
        /\ loop'.todo = queue.close /\ loop'.seen = Len(queue.close)
    <3>1. "closing" \in Pcs
      BY DEF Pcs, ClosePcs
    <3> QED BY <2>1, <2>2, <2>4, <3>1, Zenon DEF Loops
  <2>6. DueInv'
    <3>1. SUFFICES ASSUME NEW v \in Servs, Due(v)'
                   PROVE  /\ Posted(v)'
                          /\ \E k \in 1 .. Len(loop'.todo) : loop'.todo[k].i = srv'[v].idx
      BY DEF DueInv, InTodo
    <3>2. Due(v)
      BY <2>1, <3>1 DEF Due
    <3>3. Posted(v)
      BY <3>2 DEF Inv, DueInv
    <3> QED BY <2>1, <2>3, <2>5, <3>3, Zenon DEF Posted
  <2>7. dropped' \subseteq Servs /\ loop'.seen <= Len(queue.close)
    BY <2>1, <2>2, <2>5 DEF Inv, Typed
  <2> QED BY <2>1, <2>3, <2>5, <2>6, <2>7, <1>AmongClosing, Zenon
  (* What is still to be visited once the first post is done. *)
<1>StillInTodo.
  ASSUME Inv, loop.pc \in ClosePcs, loop.todo # <<>>, NEW n, InTodo(n),
         n # Head(loop.todo).i
  PROVE  \E k \in 1 .. Len(Tail(loop.todo)) : Tail(loop.todo)[k].i = n
  <2> USE <1>StillInTodo
  <2>1. loop.todo \in Seq(Posts)
    BY DEF Inv, Typed, LoopTyped, Loops
  <2>2. PICK k \in 1 .. Len(loop.todo) : loop.todo[k].i = n
    BY DEF InTodo
  <2>3. k # 1
    BY <2>1, <2>2
  <2>4. k - 1 \in 1 .. Len(Tail(loop.todo)) /\ Tail(loop.todo)[k - 1] = loop.todo[k]
    BY <2>1, <2>2, <2>3
  <2> QED BY <2>2, <2>4
  (* The post at the head of the queue is passed over. *)
<1>PassedOverInv.
  ASSUME Laws, Inv, loop.pc = "closing", loop.todo # <<>>,
         dropped' = dropped \cup OwnersOf({Head(loop.todo).i}),
         loop' = Advanced(loop, "closing"), UNCHANGED <<srv, con, tbl, queue, net, stray>>
  PROVE  Inv'
  <2> USE <1>PassedOverInv
  <2>1. loop.pc \in ClosePcs /\ "closing" \in Pcs
    BY DEF ClosePcs, Pcs
  <2>2. loop \in Loops(Posts) /\ loop.i = 0 /\ loop.seen <= Len(queue.close)
    BY <2>1, LoopPosts
  <2>3. /\ loop' \in Loops(Posts) /\ loop'.pc = "closing" /\ loop'.i = 0
        /\ loop'.todo = Tail(loop.todo) /\ loop'.seen = loop.seen
    BY <2>1, <2>2, Next1Lemma
  <2>4. queue' \in Queues /\ queue'.close = queue.close /\ dropped' \subseteq Servs
    BY Zenon DEF Inv, Typed, OwnersOf
  <2>5. DueInv'
    <3>1. SUFFICES ASSUME NEW v \in Servs, Due(v)'
                   PROVE  /\ Posted(v)'
                          /\ \/ \E k \in 1 .. Len(loop'.todo) : loop'.todo[k].i = srv'[v].idx
                             \/ \E k \in loop'.seen + 1 .. Len(queue'.close) :
                                  queue'.close[k].i = srv'[v].idx
      BY DEF DueInv, InTodo, InNew
    <3>2. Due(v) /\ srv[v].idx # Head(loop.todo).i
      BY <3>1, Zenon DEF Due, OwnersOf
    <3>3. Posted(v) /\ (InTodo(srv[v].idx) \/ InNew(srv[v].idx))
      BY <2>1, <3>2 DEF Inv, DueInv
    <3>4. InTodo(srv[v].idx) =>
            \E k \in 1 .. Len(Tail(loop.todo)) : Tail(loop.todo)[k].i = srv[v].idx
      BY <2>1, <3>2, <1>StillInTodo
    <3> QED BY <2>3, <3>3, <3>4, Zenon DEF Posted, InNew
  <2> QED BY <2>2, <2>3, <2>4, <2>5, <1>AmongClosing, Zenon
  (* The server that has reported its close event. *)
<1>ClosedServerLemma.
  ASSUME NEW d \in SrvData, d.timer => d.at # "", d.at # "" => d.ahd # {}
  PROVE  LET f == ClosedServer(d)
         IN  /\ f \in SrvData /\ SameServer(d, f) /\ f.st = "Closed" /\ f.at = ""
  <2> USE <1>ClosedServerLemma
  <2> DEFINE c == [d EXCEPT !.st = "Closed"]
  <2>1. /\ c \in SrvData /\ c.st = "Closed" /\ c.life = d.life /\ c.idx = d.idx
        /\ c.cnt = d.cnt /\ c.left = d.left /\ c.list = d.list
        /\ c.at = d.at /\ c.timer = d.timer /\ c.ahd = d.ahd
    BY WithState, Zenon
  <2>2. CASE d.ahd = {}
    <3>1. ClosedServer(d) = c
      BY <2>2, Zenon DEF ClosedServer
    <3> HIDE DEF c
    <3> QED BY <2>1, <2>2, <3>1, Zenon DEF SameServer
  <2>3. CASE d.ahd # {}
    <3> DEFINE f == Woken(c, Awaits)
    <3>1. ClosedServer(d) = f
      BY <2>3, Zenon DEF ClosedServer
    <3> HIDE DEF c
    <3>2. /\ f \in SrvData /\ f.st = c.st /\ f.life = c.life /\ f.idx = c.idx
          /\ f.cnt = c.cnt /\ f.left = c.left /\ f.list = c.list
          /\ f.at = "" /\ f.timer = FALSE
      BY <2>1, WokenLemma, Zenon
    <3> HIDE DEF f
    <3> QED BY <2>1, <3>1, <3>2, Zenon DEF SameServer
  <2> QED BY <2>2, <2>3, Zenon
  (* A server without connections that has its close event reported is *)
  (* Closed, and owes none. *)
<1>ClosesServerInv.
  ASSUME Laws, Inv, NEW v \in Servs, NEW i, loop.pc = "closing", loop.todo # <<>>,
         i = Head(loop.todo).i, Found(i), tbl.e[i].fd = "invalid", tbl.e[i].owner = v,
         srv[v].cnt = 0, srv' = [srv EXCEPT ![v] = ClosedServer(@)],
         loop' = [loop EXCEPT !.pc = "inClose", !.cur = v],
         UNCHANGED <<con, tbl, queue, net, stray, dropped>>
  PROVE  Inv'
  <2> USE <1>ClosesServerInv
  <2> DEFINE f == ClosedServer(srv[v])
  <2>1. i \in Places(tbl) /\ isUsed(tbl, i)
    BY InRangeLemma DEF Found
  <2>2. srv \in [Servs -> SrvData] /\ srv[v] \in SrvData /\ con \in [Socks -> ConData]
    BY DEF Inv, Typed
  <2>3. f \in SrvData /\ SameServer(srv[v], f) /\ f.st = "Closed" /\ f.at = ""
    <3>1. (srv[v].timer => srv[v].at # "") /\ (srv[v].at # "" => srv[v].ahd # {})
      BY Zenon DEF Inv, ListInv
    <3> QED BY <2>2, <3>1, <1>ClosedServerLemma, Zenon
  <2>4. srv' = [srv EXCEPT ![v] = f]
    OBVIOUS
  <2> HIDE DEF f
  <2>5. SameObjects
    BY <2>3, <2>4, OneServer, Zenon
  <2>6. srv'[v] = f /\ \A w \in Servs : w # v => srv'[w] = srv[w]
    BY <2>2, <2>4
  <2>7. Kept /\ UsesKept
    BY SameTable
  <2>8. loop \in Loops(Posts) /\ loop.i = 0 /\ loop.seen <= Len(queue.close)
    BY LoopPosts DEF ClosePcs
  <2>9. /\ loop' \in Loops(Posts) /\ loop'.pc = "inClose" /\ loop'.i = 0
        /\ loop'.todo = loop.todo /\ loop'.seen = loop.seen /\ loop'.cur = v
    <3>1. "inClose" \in Pcs /\ v \in Nat
      BY ServersAssumption DEF Pcs, ClosePcs, Servs
    <3> QED BY <2>8, <3>1, Zenon DEF Loops
  <2>10. loop'.pc \in ClosePcs /\ loop'.pc \notin ScanPcs
    BY <2>9 DEF ClosePcs, ScanPcs
  <2>11. LoopTyped' /\ LoopInv'
    <3>1. tbl.main \in Nat
      BY DEF Inv, Typed, Tables
    <3>2. 0 <= tbl.main
      BY <3>1
    <3> QED BY <2>1, <2>8, <2>9, <2>10, <3>2, Zenon DEF LoopTyped, LoopInv
  <2>12. Typed'
    BY <2>5, <2>7, <2>11, Zenon DEF Inv, Typed, SameObjects
  <2>13. OwnerInv' /\ ListInv'
    BY <2>5, <2>7, SameOwner, SameList, Zenon
  <2>14. WaitInv'
    <3>1. ScanKept
      BY <2>10 DEF ScanKept
    <3>2. net' \in Nets /\ net'.waiting \subseteq net.waiting /\ loop'.i \in Nat
      BY <2>9 DEF Inv, Typed
    <3> QED BY <2>7, <3>1, <3>2, KeptWait, Zenon
  <2>15. ClosedInv'
    <3>1. SUFFICES ASSUME NEW w \in Servs, srv'[w].st = "Closed"
                   PROVE  /\ srv'[w].at = "" /\ (srv'[w].left = 0 => srv'[w].list = {})
                          /\ \A j \in Places(tbl) : tbl.e[j].owner = w =>
                               tbl.e[j].st \in {"SockClosed", "Unused"}
      BY Zenon DEF ClosedInv
    <3>2. CASE w = v
      <4>1. srv'[v].at = "" /\ srv'[v].left = srv[v].left /\ srv'[v].list = srv[v].list
        BY <2>3, <2>6, Zenon DEF SameServer
      <4>2. srv[v].left = 0 => srv[v].list = {}
        <5>1. srv[v].list \subseteq Socks /\ srv[v].cnt - srv[v].left = Cardinality(srv[v].list)
          BY <2>2, Zenon DEF SrvData, Inv, ListInv
        <5>2. IsFiniteSet(srv[v].list)
          BY <5>1, ServsFinite, Zenon DEF Laws, SubsetLaw
        <5>3. srv[v].left = 0 => Cardinality(srv[v].list) = 0
          <6>1. \A c \in Nat : 0 - 0 = c => c = 0
            OBVIOUS
          <6>2. Cardinality(srv[v].list) \in Nat
            BY <5>2, Zenon DEF Laws, CountLaw
          <6> QED BY <5>1, <6>1, <6>2, Zenon
        <5> QED BY <5>2, <5>3, Zenon DEF Laws, EmptyLaw
      <4>3. ASSUME NEW j \in Places(tbl), tbl.e[j].owner = v
            PROVE  tbl.e[j].st \in {"SockClosed", "Unused"}
        <5>1. j = i
          BY <2>1, <4>3, Zenon DEF Inv, OwnerInv
        <5>2. EntryOK(tbl.e[i]) /\ tbl.e[i].st \in EntryStates
          BY <2>1, EntryOf DEF Entries
        <5> QED BY <5>1, <5>2, Zenon DEF EntryOK, EntryStates
      <4> QED BY <3>2, <4>1, <4>2, <4>3, Zenon
    <3>3. CASE w # v
      <4>1. srv'[w] = srv[w] /\ srv[w].st = "Closed"
        BY <2>6, <3>1, <3>3
      <4>2. /\ srv[w].at = "" /\ (srv[w].left = 0 => srv[w].list = {})
            /\ \A j \in Places(tbl) : tbl.e[j].owner = w =>
                 tbl.e[j].st \in {"SockClosed", "Unused"}
        BY <4>1, Zenon DEF Inv, ClosedInv
      <4> QED BY <4>1, <4>2, Zenon
    <3> QED BY <3>2, <3>3, Zenon
  <2>16. OwnInv'
    <3>1. SUFFICES ASSUME ~stray PROVE OwnInv'
      BY Zenon DEF OwnInv
    <3>2. ASSUME NEW o \in Objs, NeedsEntry(srv', con', o)
          PROVE  HasEntry(tbl', Idx(srv', con', o), o)
      <4>1. Life(srv', con', o) = Life(srv, con, o) /\ Idx(srv', con', o) = Idx(srv, con, o)
        BY <2>5, SameObjectsLife, Zenon
      <4>2. NeedsEntry(srv, con, o)
        BY <2>3, <2>6, <3>2, <4>1, Zenon DEF NeedsEntry
      <4> QED BY <3>1, <4>1, <4>2 DEF Inv, OwnInv
    <3>3. /\ isUsed(tbl', Head(loop'.todo).i)
          /\ tbl'.e[Head(loop'.todo).i].owner = loop'.cur
          /\ loop'.cur \in Servs /\ srv'[loop'.cur].st = "Closed"
      BY <2>1, <2>3, <2>6, <2>9, Zenon
    <3> QED BY <3>2, <3>3, Zenon DEF OwnInv
  <2>17. DueInv'
    <3>1. SUFFICES ASSUME NEW w \in Servs, Due(w)'
                   PROVE  /\ Posted(w)'
                          /\ \/ \E k \in 1 .. Len(loop'.todo) : loop'.todo[k].i = srv'[w].idx
                             \/ \E k \in loop'.seen + 1 .. Len(queue'.close) :
                                  queue'.close[k].i = srv'[w].idx
      BY DEF DueInv, InTodo, InNew
    <3>2. w # v
      BY <2>3, <2>6, <3>1, Zenon DEF Due
    <3>3. Due(w) /\ srv'[w] = srv[w]
      BY <2>6, <3>1, <3>2, Zenon DEF Due
    <3>4. Posted(w) /\ (InTodo(srv[w].idx) \/ InNew(srv[w].idx))
      BY <3>3 DEF Inv, DueInv, ClosePcs
    <3> QED BY <2>9, <3>3, <3>4, Zenon DEF Posted, InTodo, InNew
  <2> QED BY <2>11, <2>12, <2>13, <2>14, <2>15, <2>16, <2>17, Zenon DEF Inv
  (* One close event of a server, up to its handlers, keeps Inv. *)
<1>CloseEventInv.
  ASSUME Laws, Inv, CloseEvent
  PROVE  Inv'
  <2> USE <1>CloseEventInv
  <2> DEFINE i == Head(loop.todo).i
             v == tbl.e[i].owner
  <2>1. loop.pc = "closing" /\ loop.todo # <<>>
    BY Zenon DEF CloseEvent, At
  <2>2. CASE ~BelowSize(i)
    <3>1. /\ dropped' = dropped \cup OwnersOf({Head(loop.todo).i})
          /\ loop' = Advanced(loop, "closing")
          /\ UNCHANGED <<srv, con, tbl, queue, net, stray>>
      BY <2>2, Zenon DEF CloseEvent, Next1, Advanced
    <3> QED BY <2>1, <3>1, <1>PassedOverInv
  <2>3. CASE /\ BelowSize(i) /\ Found(i) /\ tbl.e[i].fd = "invalid" /\ v \in Servs
             /\ srv[v].st = "BeingClosed" /\ srv[v].cnt = 0 /\ Resumable(srv[v], Awaits)
    <3>1. /\ srv' = [srv EXCEPT ![v] = ClosedServer(@)]
          /\ loop' = [loop EXCEPT !.pc = "inClose", !.cur = v]
          /\ UNCHANGED <<con, tbl, queue, net, stray, dropped>>
      BY <2>3, Zenon DEF CloseEvent, rrOnClose
    <3> HIDE DEF i
    <3> QED BY <2>1, <2>3, <3>1, <1>ClosesServerInv, Zenon DEF i
  <2>4. CASE /\ BelowSize(i)
             /\ ~ /\ Found(i) /\ tbl.e[i].fd = "invalid" /\ v \in Servs
                  /\ srv[v].st = "BeingClosed" /\ srv[v].cnt = 0 /\ Resumable(srv[v], Awaits)
    <3>1. UNCHANGED <<srv, con, tbl, queue, net, loop, stray, dropped>>
      BY <2>4, Zenon DEF CloseEvent, rrOnClose, Fail
    <3> QED BY <3>1, Stutters
  <2> QED BY <2>2, <2>3, <2>4, Zenon
  (* The reset of the entry at the end of a close event keeps Inv. *)
<1>CloseHandledInv.
  ASSUME Laws, Inv, CloseHandled
  PROVE  Inv'
  <2> USE <1>CloseHandledInv
  <2> DEFINE i == Head(loop.todo).i
             x == [tbl.e[i] EXCEPT !.st = "Unused", !.index = i]
  <2>1. /\ loop.pc = "inClose" /\ tbl' = resetEntry(tbl, i)
        /\ loop' = Advanced(loop, "closing")
        /\ UNCHANGED <<srv, con, queue, net, stray, dropped>>
    BY Zenon DEF CloseHandled, At, Next1, Advanced
  <2>2. i \in Places(tbl) /\ loop.todo # <<>> /\ tbl \in Tables(Objs)
    BY <2>1 DEF Inv, LoopInv, Typed
  <2>3. loop.pc \in ClosePcs /\ "closing" \in Pcs
    BY <2>1 DEF ClosePcs, Pcs
  <2>4. x \in Entries(Objs) /\ Changed(Objs, tbl, tbl', i, x)
    BY <2>1, <2>2, ResetEntryLemma, Zenon
  <2>5. x.owner = tbl.e[i].owner /\ x.rev = tbl.e[i].rev /\ x.st = "Unused"
    BY <2>2, EntryOf DEF Entries
  <2> HIDE DEF x, i
  <2>6. Kept
    <3>1. KeptEntry(tbl.e[i], x)
      BY <2>5 DEF KeptEntry, EntryOK, Used
    <3> QED BY <2>2, <2>4, <3>1, ChangedKept, Zenon
  <2>7. \A j \in Places(tbl) : j # i => tbl'.e[j] = tbl.e[j]
    BY <2>4 DEF Changed
  <2>8. SameObjects /\ \A v \in Servs : CalmServer(srv[v], srv'[v])
    BY <2>1, UnmovedObjects
  <2>9. loop \in Loops(Posts) /\ loop.i = 0 /\ loop.seen <= Len(queue.close)
    BY <2>3, LoopPosts, Zenon
  <2>10. /\ loop' \in Loops(Posts) /\ loop'.pc = "closing" /\ loop'.i = 0
         /\ loop'.todo = Tail(loop.todo) /\ loop'.seen = loop.seen
    BY <2>1, <2>2, <2>3, <2>9, Next1Lemma, Zenon
  <2>11. loop'.pc \in ClosePcs /\ loop'.pc \notin ScanPcs /\ loop'.pc # "inClose"
    BY <2>10 DEF ClosePcs, ScanPcs
  <2>12. LoopTyped' /\ LoopInv'
    <3>1. tbl'.main \in Nat
      BY <2>6 DEF Kept, Tables
    <3>2. LoopTyped'
      BY <2>10, <2>11 DEF LoopTyped
    <3>3. 0 <= tbl'.main /\ queue' = queue
      BY <2>1, <3>1
    <3>4. loop'.pc \in ClosePcs => loop'.seen <= Len(queue'.close)
      BY <2>9, <2>10, <3>3, Zenon
    <3> QED BY <2>10, <2>11, <3>2, <3>3, <3>4, Zenon DEF LoopInv
  <2>13. Typed'
    BY <2>1, <2>6, <2>8, <2>12, Zenon DEF Inv, Typed, Kept
  <2>14. OwnerInv' /\ ListInv'
    BY <2>6, <2>8, SameOwner, SameList, Zenon
  <2>15. WaitInv'
    <3>1. ScanKept
      BY <2>11 DEF ScanKept
    <3>2. net' \in Nets /\ net'.waiting \subseteq net.waiting /\ loop'.i \in Nat
      BY <2>1, <2>10 DEF Inv, Typed
    <3>3. \A s \in Socks : con'[s].life = "none" <=> con[s].life = "none"
      BY <2>1
    <3> QED BY <2>6, <3>1, <3>2, <3>3, KeptWait, Zenon
  <2>16. ClosedInv'
    BY <2>1, <2>6, KeptClosed, Zenon
  <2>17. ~stray => /\ tbl.e[i].owner = loop.cur /\ loop.cur \in Servs
                   /\ srv[loop.cur].st = "Closed"
    BY <2>1, Zenon DEF Inv, OwnInv, i
  <2>18. ASSUME ~stray, NEW o \in Objs, NeedsEntry(srv, con, o)
         PROVE  HasEntry(tbl, Idx(srv, con, o), o) /\ Idx(srv, con, o) # i
    <3>1. HasEntry(tbl, Idx(srv, con, o), o)
      BY <2>18, Zenon DEF Inv, OwnInv
    <3>2. o # loop.cur
      BY <2>17, <2>18 DEF NeedsEntry
    <3> QED BY <2>17, <2>18, <3>1, <3>2, Zenon DEF HasEntry
  <2>19. OwnInv'
    <3>1. SUFFICES ASSUME ~stray, NEW o \in Objs, NeedsEntry(srv, con, o)
                   PROVE  HasEntry(tbl', Idx(srv, con, o), o)
      BY <2>1, <2>11, Zenon DEF OwnInv
    <3>2. HasEntry(tbl, Idx(srv, con, o), o) /\ Idx(srv, con, o) # i
      BY <2>18, <3>1, Zenon
    <3>3. isUsed(tbl', Idx(srv, con, o))
      BY <2>7, <3>2 DEF HasEntry, isUsed
    <3> QED BY SMTT(30), <2>6, <3>2, <3>3, HasEntryKept
  <2>20. DueInv'
    <3>1. SUFFICES ASSUME NEW v \in Servs, Due(v)
                   PROVE  /\ Posted(v)
                          /\ \/ \E k \in 1 .. Len(loop'.todo) : loop'.todo[k].i = srv[v].idx
                             \/ \E k \in loop'.seen + 1 .. Len(queue.close) :
                                  queue.close[k].i = srv[v].idx
      BY <2>1 DEF DueInv, InTodo, InNew, Due, Posted
    <3>2. srv[v].idx # i
      <4>1. ~stray /\ v \in Objs /\ NeedsEntry(srv, con, v)
        BY <3>1 DEF Due, NeedsEntry, Life, Objs
      <4> QED BY <2>18, <4>1 DEF Idx
    <3>3. Posted(v) /\ (InTodo(srv[v].idx) \/ InNew(srv[v].idx))
      BY <2>3, <3>1, Zenon DEF Inv, DueInv
    <3>4. InTodo(srv[v].idx) =>
            \E k \in 1 .. Len(Tail(loop.todo)) : Tail(loop.todo)[k].i = srv[v].idx
      BY <2>2, <2>3, <3>2, <1>StillInTodo, ZenonT(60) DEF i
    <3> QED BY <2>10, <3>3, <3>4, ZenonT(60) DEF InNew
  <2> QED BY <2>12, <2>13, <2>14, <2>15, <2>16, <2>19, <2>20, Zenon DEF Inv
<1> QED BY <1>AcceptedDoneInv, <1>CloseEventInv, <1>CloseHandledInv

-----------------------------------------------------------------------------
(* The end of an iteration.                                                *)

(* All objects keep all but their index. *)
Renumbers(t) ==
  /\ srv' \in [Servs -> SrvData] /\ con' \in [Socks -> ConData]
  /\ \A v \in Servs :
       /\ srv'[v].life = srv[v].life /\ srv'[v].left = srv[v].left
       /\ srv'[v].list = srv[v].list /\ srv'[v].st = srv[v].st
       /\ srv'[v].cnt = srv[v].cnt
       /\ srv'[v].at = srv[v].at /\ srv'[v].timer = srv[v].timer
       /\ srv'[v].ahd = srv[v].ahd
       /\ srv'[v].idx = Renumbered(t, v, srv[v].idx)
  /\ \A s \in Socks :
       /\ con'[s].life = con[s].life /\ con'[s].server = con[s].server
       /\ con'[s].idx = Renumbered(t, s, con[s].idx)

(* The end of an iteration keeps Inv: entries waiting to join do so, or the*)
(* table is compacted, and every object learns its new place.              *)
LEMMA IterationInv ==
  Laws /\ Inv /\ EndIteration => Inv'
  (* reworkIfNecessary loses no used entry, and no object gets two. *)
<1>ReworkLemma.
  ASSUME Laws, Inv
  PROVE  KeepsUsed(Objs, tbl, reworkIfNecessary(tbl))
  BY <1>ReworkLemma, ReworkedLemma DEF Inv, Typed, OwnerInv
  (* An object that has a used entry gets its index; others keep theirs. *)
<1>RenumberedLemma.
  ASSUME Laws, Inv, NEW t, KeepsUsed(Objs, tbl, t), NEW o, NEW old
  PROVE  /\ \A k \in Places(t) : HasEntry(t, k, o) => Renumbered(t, o, old) = k
         /\ Renumbered(t, o, old) \in Places(t) \cup {old}
  <2> USE <1>RenumberedLemma
  <2> DEFINE own == {i \in 1 .. Len(t.e) : isUsed(t, i) /\ t.e[i].owner = o}
  <2>1. Renumbered(t, o, old) = IF own = {} THEN old ELSE Min(own)
    BY DEF Renumbered
  <2>2. own \subseteq Nat /\ own \subseteq Places(t)
    BY DEF Places
  <2>3. \A k \in Places(t) : HasEntry(t, k, o) => own = {k}
    BY Zenon DEF Places, HasEntry, KeepsUsed
  <2> HIDE DEF own
  <2>4. own # {} => Min(own) \in own
    BY <2>2 DEF Laws, LeastLaw
  <2>5. \A k \in Places(t) : HasEntry(t, k, o) => Renumbered(t, o, old) = k
    BY <2>1, <2>3, <2>4
  <2> QED BY <2>1, <2>2, <2>4, <2>5, Zenon
  (* The loop over ourSide after compaction gives each object the index of *)
  (* its entry. *)
<1>RenumbersObjects.
  ASSUME Laws, Inv, NEW t, KeepsUsed(Objs, tbl, t),
         srv' = [v \in Servs |-> [srv[v] EXCEPT !.idx = Renumbered(t, v, @)]],
         con' = [s \in Socks |-> [con[s] EXCEPT !.idx = Renumbered(t, s, @)]]
  PROVE  Renumbers(t)
  <2> USE <1>RenumbersObjects
  <2>1. \A k \in Places(t) : k \in Nat
    BY DEF Places
  <2>2. ASSUME NEW v \in Servs
        PROVE  LET n == Renumbered(t, v, srv[v].idx)
                   f == [srv[v] EXCEPT !.idx = n]
               IN  /\ f \in SrvData /\ f.life = srv[v].life /\ f.left = srv[v].left
                   /\ f.list = srv[v].list /\ f.st = srv[v].st /\ f.cnt = srv[v].cnt
                   /\ f.at = srv[v].at /\ f.timer = srv[v].timer /\ f.ahd = srv[v].ahd
                   /\ f.idx = n
    <3> DEFINE n == Renumbered(t, v, srv[v].idx)
    <3>1. srv[v] \in SrvData
      BY DEF Inv, Typed
    <3>2. srv[v].idx \in Nat /\ n \in Places(t) \cup {srv[v].idx}
      BY <3>1, <1>RenumberedLemma, Zenon DEF SrvData
    <3>3. n \in Nat
      BY <2>1, <3>2
    <3> HIDE DEF n
    <3>4. LET f == [srv[v] EXCEPT !.idx = n]
          IN  /\ f \in SrvData /\ f.life = srv[v].life /\ f.left = srv[v].left
              /\ f.list = srv[v].list /\ f.st = srv[v].st /\ f.cnt = srv[v].cnt
              /\ f.at = srv[v].at /\ f.timer = srv[v].timer /\ f.ahd = srv[v].ahd
              /\ f.idx = n
      BY <3>1, <3>3, Zenon DEF SrvData
    <3> QED BY <3>4, Zenon DEF n
  <2>3. ASSUME NEW s \in Socks
        PROVE  LET n == Renumbered(t, s, con[s].idx)
                   f == [con[s] EXCEPT !.idx = n]
               IN  /\ f \in ConData /\ f.life = con[s].life /\ f.server = con[s].server
                   /\ f.idx = n
    <3> DEFINE n == Renumbered(t, s, con[s].idx)
    <3>1. con[s] \in ConData
      BY DEF Inv, Typed
    <3>2. con[s].idx \in Nat /\ n \in Places(t) \cup {con[s].idx}
      BY <3>1, <1>RenumberedLemma DEF ConData
    <3>3. n \in Nat
      BY <2>1, <3>2
    <3> HIDE DEF n
    <3>4. LET f == [con[s] EXCEPT !.idx = n]
          IN  /\ f \in ConData /\ f.life = con[s].life /\ f.server = con[s].server
              /\ f.idx = n
      BY <3>1, <3>3 DEF ConData
    <3> QED BY <3>4, Zenon DEF n
  <2>4. \A v \in Servs : srv'[v] = [srv[v] EXCEPT !.idx = Renumbered(t, v, srv[v].idx)]
    OBVIOUS
  <2>5. \A s \in Socks : con'[s] = [con[s] EXCEPT !.idx = Renumbered(t, s, con[s].idx)]
    OBVIOUS
  <2>6. srv' \in [Servs -> SrvData] /\ con' \in [Socks -> ConData]
    BY <2>2, <2>3
  <2> QED BY <2>2, <2>3, <2>4, <2>5, <2>6, Zenon DEF Renumbers
  (* The objects live as before, and know the place their entry moved to. *)
<1>RenumbersLife.
  ASSUME Laws, Inv, NEW t, KeepsUsed(Objs, tbl, t), Renumbers(t), NEW o \in Objs
  PROVE  /\ Life(srv', con', o) = Life(srv, con, o)
         /\ NeedsEntry(srv', con', o) => NeedsEntry(srv, con, o)
         /\ \A k \in Places(t) : HasEntry(t, k, o) => Idx(srv', con', o) = k
         /\ Idx(srv', con', o) <= NServers + NSocks
  <2> USE <1>RenumbersLife
  <2>1. o \in Servs \/ (o \notin Servs /\ o \in Socks)
    BY DEF Objs
  <2>2. Idx(srv', con', o) = Renumbered(t, o, Idx(srv, con, o))
    BY <2>1, Zenon DEF Renumbers, Idx
  <2>3. Life(srv', con', o) = Life(srv, con, o)
    BY <2>1, Zenon DEF Renumbers, Life
  <2>4. NeedsEntry(srv', con', o) => NeedsEntry(srv, con, o)
    BY <2>3, Zenon DEF NeedsEntry, Renumbers
  <2>5. Idx(srv', con', o) <= NServers + NSocks
    <3>1. Len(t.e) <= NServers + NSocks /\ Len(t.e) \in Nat
      BY DistinctOwners DEF KeepsUsed, Tables
    <3>2. Idx(srv, con, o) <= NServers + NSocks
      BY Zenon DEF Inv, OwnerInv
    <3>3. Renumbered(t, o, Idx(srv, con, o)) \in Places(t) \cup {Idx(srv, con, o)}
      BY <1>RenumberedLemma
    <3>4. \A j \in Places(t) : j <= Len(t.e) /\ j \in Nat
      BY <3>1 DEF Places
    <3>5. \A j, k, m \in Nat : j <= k /\ k <= m => j <= m
      OBVIOUS
    <3>6. NServers + NSocks \in Nat
      BY ServersAssumption
    <3>7. \A j \in Places(t) : j <= NServers + NSocks
      BY <3>1, <3>4, <3>5, <3>6, Zenon
    <3> QED BY <2>2, <3>2, <3>3, <3>7, Zenon
  <2> QED BY <2>2, <2>3, <2>4, <2>5, <1>RenumberedLemma, Zenon
  (* The elements of a part of a sequence. *)
<1>PartOfSequence.
  ASSUME NEW S, NEW q \in Seq(S), NEW m \in Nat, NEW n \in Nat, 1 <= m, m <= n,
         n <= Len(q)
  PROVE  /\ Len(SubSeq(q, m, n)) = n - m + 1
         /\ \A j \in 1 .. n - m + 1 : SubSeq(q, m, n)[j] = q[m + j - 1]
  BY <1>PartOfSequence
  (* No close event is left to report: those that came too late count as *)
  (* thrown away. *)
<1>AllDropped.
  ASSUME Inv, loop.pc = "closing", loop.todo = <<>>, NEW v \in Servs, Due(v),
         NEW new, new = SubSeq(queue.close, loop.seen + 1, Len(queue.close))
  PROVE  v \in OwnersOf({new[k].i : k \in 1 .. Len(new)})
  <2> USE <1>AllDropped
  <2>1. queue.close \in Seq(Posts) /\ Len(queue.close) \in Nat
    BY DEF Inv, Typed, Queues
  <2>2. loop.seen \in Nat /\ loop.seen <= Len(queue.close)
    BY LoopPosts DEF ClosePcs, Loops
  <2>3. InNew(srv[v].idx)
    <3>1. InTodo(srv[v].idx) \/ InNew(srv[v].idx)
      BY DEF Inv, DueInv, ClosePcs
    <3>2. ~InTodo(srv[v].idx)
      BY NoElements DEF InTodo
    <3> QED BY <3>1, <3>2, Zenon
  <2>4. PICK k \in loop.seen + 1 .. Len(queue.close) : queue.close[k].i = srv[v].idx
    BY <2>3 DEF InNew
  <2> DEFINE q == queue.close
             m == loop.seen + 1
             n == Len(queue.close)
  <2>5. /\ q \in Seq(Posts) /\ n \in Nat /\ m \in Nat /\ 1 <= m /\ m <= n /\ n <= Len(q)
        /\ new = SubSeq(q, m, n) /\ k \in m .. n
    BY <2>1, <2>2, <2>4
  <2> HIDE DEF q, m, n
  <2>6. k - m + 1 \in 1 .. n - m + 1 /\ m + (k - m + 1) - 1 = k
    BY <2>5
  <2>7. Len(new) = n - m + 1 /\ \A j \in 1 .. n - m + 1 : new[j] = q[m + j - 1]
    <3>1. /\ Len(SubSeq(q, m, n)) = n - m + 1
          /\ \A j \in 1 .. n - m + 1 : SubSeq(q, m, n)[j] = q[m + j - 1]
      <4>1. q \in Seq(Posts) /\ n \in Nat /\ m \in Nat /\ 1 <= m /\ m <= n /\ n <= Len(q)
        BY <2>5
      <4> QED BY <4>1, <1>PartOfSequence, Zenon
    <3>2. new = SubSeq(q, m, n)
      BY <2>5, Zenon
    <3> QED BY <3>1, <3>2, Zenon
  <2>8. k - m + 1 \in 1 .. Len(new) /\ new[k - m + 1] = q[k]
    BY <2>6, <2>7, Zenon
  <2> QED BY <2>4, <2>8, Zenon DEF OwnersOf, Due, q
  (* The end of an iteration, with or without compaction, keeps Inv. *)
<1>EndIterationInv.
  ASSUME Laws, Inv, EndIteration
  PROVE  Inv'
  <2> USE <1>EndIterationInv
  <2> DEFINE t   == reworkIfNecessary(tbl)
             new == SubSeq(queue.close, loop.seen + 1, Len(queue.close))
             D   == OwnersOf({new[k].i : k \in 1 .. Len(new)})
  <2>1. loop.pc = "closing" /\ loop.todo = <<>>
    BY Zenon DEF EndIteration, At
  <2>2. CASE UNCHANGED <<srv, con, tbl, queue, net, loop, stray, dropped>>
    BY <2>2, Stutters, Zenon
  <2>3. CASE /\ dropped' = dropped \cup D /\ queue' = [queue EXCEPT !.close = <<>>]
             /\ tbl' = t
             /\ srv' = [v \in Servs |-> [srv[v] EXCEPT !.idx = Renumbered(t, v, @)]]
             /\ con' = [s \in Socks |-> [con[s] EXCEPT !.idx = Renumbered(t, s, @)]]
             /\ loop' = [loop EXCEPT !.pc = "listening", !.seen = 0]
             /\ UNCHANGED <<net, stray>>
    <3>1. KeepsUsed(Objs, tbl, t)
      BY <1>ReworkLemma
    <3> HIDE DEF t
    <3>2. KeepsUsed(Objs, tbl, tbl') /\ Renumbers(tbl')
      BY <2>3, <3>1, <1>RenumbersObjects, Zenon
    <3>3. queue' \in Queues /\ queue'.close = <<>>
      BY <2>3, QueueTaken, Zenon DEF Inv, Typed
    <3>4. loop \in Loops(Posts) /\ loop.i = 0
      BY <2>1, LoopPosts DEF ClosePcs
    <3>5. loop' \in Loops(Nat) /\ loop'.pc = "listening" /\ loop'.i = 0 /\ loop'.todo = <<>>
      <4>1. "listening" \in Pcs /\ <<>> \in Seq(Nat)
        BY NoElements DEF Pcs, IndexPcs
      <4> QED BY <2>1, <2>3, <3>4, <4>1, Zenon DEF Loops
    <3>6. loop'.pc \notin ClosePcs \cup ScanPcs /\ loop'.pc \in IndexPcs /\ loop'.pc # "inClose"
      BY <3>5 DEF ClosePcs, ScanPcs, IndexPcs
    <3>7. LoopTyped' /\ LoopInv'
      <4>1. tbl'.main \in Nat
        BY <3>2 DEF KeepsUsed, Tables
      <4> QED BY SMTT(30), <3>5, <3>6, <4>1 DEF LoopTyped, LoopInv
    <3>8. Typed'
      <4>1. D \subseteq Servs
        BY DEF OwnersOf
      <4>2. dropped' \subseteq Servs /\ net' \in Nets /\ stray' \in BOOLEAN
        BY <2>3, <4>1, Zenon DEF Inv, Typed
      <4> QED BY <3>2, <3>3, <3>7, <4>2, ZenonT(60) DEF Typed, KeepsUsed, Renumbers
    <3>9. OwnerInv'
      <4>1. ASSUME NEW k \in Places(tbl')
            PROVE  /\ EntryOK(tbl'.e[k])
                   /\ Life(srv', con', tbl'.e[k].owner) # "none"
                   /\ isUsed(tbl', k) => /\ Life(srv', con', tbl'.e[k].owner) = "live"
                                         /\ Idx(srv', con', tbl'.e[k].owner) = k
        <5>1. PICK i \in Places(tbl) : Alike(tbl.e[i], tbl'.e[k])
          BY <3>2 DEF KeepsUsed
        <5>2. /\ tbl'.e[k].owner = tbl.e[i].owner /\ isUsed(tbl', k) = isUsed(tbl, i)
              /\ EntryOK(tbl.e[i]) => EntryOK(tbl'.e[k])
          BY <5>1, Zenon DEF Alike, isUsed, Used, EntryOK
        <5>3. /\ tbl.e[i].owner \in Objs /\ EntryOK(tbl.e[i])
              /\ Life(srv, con, tbl.e[i].owner) # "none"
              /\ isUsed(tbl, i) => Life(srv, con, tbl.e[i].owner) = "live"
          BY EntryOf
        <5>4. Life(srv', con', tbl'.e[k].owner) = Life(srv, con, tbl.e[i].owner)
          BY <3>2, <5>2, <5>3, <1>RenumbersLife, Zenon
        <5>5. isUsed(tbl', k) => HasEntry(tbl', k, tbl'.e[k].owner)
          BY DEF HasEntry
        <5>6. isUsed(tbl', k) => Idx(srv', con', tbl'.e[k].owner) = k
          BY <3>2, <5>2, <5>3, <5>5, <1>RenumbersLife, Zenon
        <5> QED BY <5>2, <5>3, <5>4, <5>6, ZenonT(60)
      <4>2. \A j, k \in Places(tbl') : tbl'.e[j].owner = tbl'.e[k].owner => j = k
        BY <3>2 DEF KeepsUsed
      <4>3. \A o \in Objs : Idx(srv', con', o) <= NServers + NSocks
        BY <3>2, <1>RenumbersLife
      <4> QED BY <4>1, <4>2, <4>3, Zenon DEF OwnerInv
    <3>10. ListInv'
      <4>1. ASSUME NEW v \in Servs
            PROVE  /\ srv'[v].cnt - srv'[v].left = Cardinality(srv'[v].list)
                   /\ srv'[v].timer => srv'[v].at # ""
                   /\ srv'[v].at # "" => srv'[v].ahd # {}
                   /\ \A s \in srv'[v].list : con'[s].life = "live" /\ con'[s].server = v
        <5>1. /\ srv'[v].left = srv[v].left /\ srv'[v].list = srv[v].list
              /\ srv'[v].cnt = srv[v].cnt /\ srv'[v].at = srv[v].at
              /\ srv'[v].timer = srv[v].timer /\ srv'[v].ahd = srv[v].ahd
          BY <3>2, Zenon DEF Renumbers
        <5>2. /\ srv[v].cnt - srv[v].left = Cardinality(srv[v].list)
              /\ srv[v].timer => srv[v].at # ""
              /\ srv[v].at # "" => srv[v].ahd # {}
          BY Zenon DEF Inv, ListInv
        <5>3. \A s \in srv[v].list : s \in Socks /\ con[s].life = "live" /\ con[s].server = v
          BY Zenon DEF Inv, ListInv, Typed, SrvData
        <5>4. \A s \in srv[v].list : con'[s].life = "live" /\ con'[s].server = v
          BY <3>2, <5>3 DEF Renumbers
        <5> QED BY <5>1, <5>2, <5>4, Zenon
      <4>2. ASSUME NEW s \in Socks, con'[s].life = "live"
            PROVE  /\ con'[s].server \in Servs /\ srv'[con'[s].server].life = "live"
                   /\ s \in srv'[con'[s].server].list
        <5>1. con[s].life = "live" /\ con'[s].server = con[s].server
          BY <3>2, <4>2, Zenon DEF Renumbers
        <5>2. /\ con[s].server \in Servs /\ srv[con[s].server].life = "live"
              /\ s \in srv[con[s].server].list
          BY <5>1, Zenon DEF Inv, ListInv
        <5>3. /\ srv'[con[s].server].life = srv[con[s].server].life
              /\ srv'[con[s].server].list = srv[con[s].server].list
          BY <3>2, <5>2, Zenon DEF Renumbers
        <5> QED BY <5>1, <5>2, <5>3, ZenonT(30)
      <4> QED BY <4>1, <4>2, Zenon DEF ListInv
    <3>11. WaitInv'
      <4>1. Fresh' = Fresh
        BY <3>2, Zenon DEF Renumbers, Fresh
      <4> QED BY SMTT(30), <2>3, <3>6, <4>1 DEF Inv, WaitInv
    <3>12. ClosedInv'
      <4>1. SUFFICES ASSUME NEW v \in Servs, srv'[v].st = "Closed"
                     PROVE  /\ srv'[v].at = "" /\ (srv'[v].left = 0 => srv'[v].list = {})
                            /\ \A k \in Places(tbl') : tbl'.e[k].owner = v =>
                                 tbl'.e[k].st \in {"SockClosed", "Unused"}
        BY Zenon DEF ClosedInv
      <4>2. /\ srv[v].st = "Closed" /\ srv'[v].at = srv[v].at
            /\ srv'[v].left = srv[v].left /\ srv'[v].list = srv[v].list
        BY <3>2, <4>1, Zenon DEF Renumbers
      <4>3. /\ srv[v].at = "" /\ (srv[v].left = 0 => srv[v].list = {})
            /\ \A j \in Places(tbl) : tbl.e[j].owner = v =>
                 tbl.e[j].st \in {"SockClosed", "Unused"}
        BY <4>2, Zenon DEF Inv, ClosedInv
      <4>4. ASSUME NEW k \in Places(tbl'), tbl'.e[k].owner = v
            PROVE  tbl'.e[k].st \in {"SockClosed", "Unused"}
        <5>1. PICK i \in Places(tbl) : Alike(tbl.e[i], tbl'.e[k])
          BY <3>2 DEF KeepsUsed
        <5> QED BY <4>3, <4>4, <5>1, Zenon DEF Alike
      <4> QED BY <4>2, <4>3, <4>4, Zenon
    <3>13. OwnInv'
      <4>1. SUFFICES ASSUME ~stray, NEW o \in Objs, NeedsEntry(srv', con', o)
                     PROVE  HasEntry(tbl', Idx(srv', con', o), o)
        BY <2>3, <3>6 DEF OwnInv
      <4>2. NeedsEntry(srv, con, o)
        BY <3>2, <4>1, <1>RenumbersLife, Zenon
      <4>3. HasEntry(tbl, Idx(srv, con, o), o)
        BY <4>1, <4>2, Zenon DEF Inv, OwnInv
      <4>4. PICK k \in Places(tbl') : Alike(tbl.e[Idx(srv, con, o)], tbl'.e[k])
        BY <3>2, <4>3 DEF KeepsUsed, HasEntry
      <4>5. HasEntry(tbl', k, o)
        BY <4>3, <4>4, Zenon DEF HasEntry, Alike, isUsed, Used
      <4> QED BY <3>2, <4>5, <1>RenumbersLife, Zenon
    <3>14. DueInv'
      <4>1. SUFFICES ASSUME NEW v \in Servs, Due(v)' PROVE FALSE
        BY DEF DueInv
      <4>2. Due(v) /\ v \notin D
        BY <2>3, <3>2, <4>1, Zenon DEF Due, Renumbers
      <4> QED BY <2>1, <4>2, <1>AllDropped, Zenon
    <3> QED BY SMTT(30), <3>7, <3>8, <3>9, <3>10, <3>11, <3>12, <3>13, <3>14 DEF Inv
  <2>4. \/ /\ dropped' = dropped \cup D /\ queue' = [queue EXCEPT !.close = <<>>]
           /\ tbl' = t
           /\ srv' = [v \in Servs |-> [srv[v] EXCEPT !.idx = Renumbered(t, v, @)]]
           /\ con' = [s \in Socks |-> [con[s] EXCEPT !.idx = Renumbered(t, s, @)]]
           /\ loop' = [loop EXCEPT !.pc = "listening", !.seen = 0]
           /\ UNCHANGED <<net, stray>>
        \/ UNCHANGED <<srv, con, tbl, queue, net, loop, stray, dropped>>
    BY Zenon DEF EndIteration, Fail
  <2> QED BY <2>2, <2>3, <2>4, Zenon
<1> QED BY <1>EndIterationInv

(* Every call of the user code keeps Inv. *)
LEMMA UserCodeInv ==
  ASSUME Laws, Inv, UserCode
  PROVE  Inv'
<1>1. CASE \E v \in Servs : createServer(v)
  BY <1>1, CreateServerInv
<1>2. CASE \E v \in Servs : \/ listen(v) \/ a_listen(v) \/ close(v) \/ a_close(v)
                          \/ a_closeWithin(v) \/ a_connection(v)
                          \/ a_connectionWithin(v)
  BY <1>2, CallsInv, Zenon
<1>3. CASE \E v \in Servs : dropServer(v)
  BY <1>3, DropServerInv
<1>4. CASE \E s \in Socks : destroy(s)
  BY <1>4, DestroyInv
<1> QED BY <1>1, <1>2, <1>3, <1>4 DEF UserCode

(* Every step of the event loop keeps Inv. *)
LEMMA LoopStepInv ==
  ASSUME Laws, Inv, LoopStep
  PROVE  Inv'
BY ListeningInv, BetweenInv, DispatchStepsInv, SockClosedInv, ServerClosedInv,
   IterationInv DEF LoopStep, Zenon

(* Every step keeps Inv. *)
LEMMA NextInv ==
  ASSUME Laws, Inv, [Next]_vars
  PROVE  Inv'
<1>1. CASE UNCHANGED vars
  BY <1>1, Stutters DEF vars
<1>2. CASE Next
  BY <1>2, UserCodeInv, NetworkInv, LoopStepInv, Zenon DEF Next
<1> QED BY <1>1, <1>2

-----------------------------------------------------------------------------
(* The facts about finite sets, from the library. *)
INSTANCE FiniteSetTheorems

(* The laws the lemmas above assume hold. *)
LEMMA LawsHold == Laws
<1>1. EmptyLaw /\ CountLaw
  BY FS_EmptySet, FS_CardinalityType, Zenon DEF EmptyLaw, CountLaw
<1>2. SubsetLaw
  BY FS_Subset DEF SubsetLaw
<1>3. AddLaw
  BY FS_AddElement, Zenon DEF AddLaw
<1>4. RemoveLaw
  BY FS_RemoveElement DEF RemoveLaw
<1>5. IntervalLaw
  BY FS_Interval DEF IntervalLaw
<1>6. PowersetLaw
  BY FS_SUBSET DEF PowersetLaw
<1>7. InjectionLaw
  BY FS_Injection DEF InjectionLaw
<1>8. LeastLaw
  <2> SUFFICES ASSUME NEW S \in SUBSET Nat, S # {}
               PROVE  Min(S) \in S /\ \A y \in S : Min(S) <= y
    BY DEF LeastLaw
  <2> DEFINE R == {ss \in Nat \X Nat : ss[1] < ss[2]}
  <2>1. IsWellFoundedOn(R, Nat)
    BY NatLessThanWellFounded DEF OpToRel
  <2>2. PICK x \in S : \A y \in S : ~(<<y, x>> \in R)
    BY <2>1, WFMin, Zenon
  <2>3. ASSUME NEW y \in S PROVE x <= y
    <3>1. ~(<<y, x>> \in R)
      BY <2>2
    <3>2. x \in Nat /\ y \in Nat
      OBVIOUS
    <3>3. ~(y < x)
      BY <3>1, <3>2
    <3> QED BY <3>2, <3>3
  <2> QED BY <2>3, Zenon DEF Min
<1> QED BY <1>1, <1>2, <1>3, <1>4, <1>5, <1>6, <1>7, <1>8, Zenon DEF Laws

(* The conjunction of the invariants above is inductive: every call, every *)
(* step of runStandardLoop and every failed assertion keeps it.            *)
THEOREM Invariance == Spec => []Inv
<1>1. Inv /\ [Next]_vars => Inv'
  BY NextInv, LawsHold
<1> QED BY <1>1, InitInv, LawsHold, PTL DEF Spec

(* Servers, accepted sockets and the loop keep their types; the counter of *)
(* a server differs from what was left in memory by the connections in its *)
(* list (MultiOwner::add, removeAndDelete).                                *)
THEOREM TypeCorrect == Spec => []TypeOK
<1>1. Inv /\ calls \in 0 .. MaxCalls /\ failed \in Assertions \cup {""} => TypeOK
  BY InvTypes, LawsHold, Zenon
<1> QED BY <1>1, Invariance, CallsBounded, FailedIsNamed, PTL

(* A live accepted socket is in the list of a live server, and every live  *)
(* socket, and server that has not reported its close event, has the entry *)
(* at the index it remembers (addEntry, setUnused, makeCompactIfNecessary).*)
THEOREM ObjectsOwnEntries == Spec => []OwnsItsEntry
<1>1. Inv => OwnsItsEntry
  BY InvOwns, LawsHold, Zenon
<1> QED BY <1>1, Invariance, PTL

(* A server that is being closed and has no connection left has its close  *)
(* event in the queue (closingProcedure, removeSocket) until rrOnClose     *)
(* reports it, unless infraGetCloseEvents has thrown it away.              *)
THEOREM CloseAlwaysPosted == Spec => []CloseIsPosted
<1>1. Inv => CloseIsPosted
  BY Zenon DEF Inv, DueInv, Due, CloseIsPosted
<1> QED BY <1>1, Invariance, PTL

(* When rrOnClose has reported the close event of a server whose counter   *)
(* started at zero, no connection is left and no coroutine waits.          *)
THEOREM ClosedStaysOver == Spec => []ClosedIsOver
<1>1. Inv => ClosedIsOver
  BY Zenon DEF Inv, ClosedInv, ClosedIsOver
<1> QED BY <1>1, Invariance, PTL

=============================================================================
