------------------------------- MODULE Servers -------------------------------
(***************************************************************************)
(* Servers and the connections they accept: ServerBase (server_common.h,   *)
(* net.cpp), NetServerManager (tcp_socket.h), MultiOwner, which holds the  *)
(* accepted sockets (common_structs.h), and one iteration of               *)
(* runStandardLoop, in the build without clustering. The table both kinds  *)
(* of object share is that of NetSockets.                                  *)
(*                                                                         *)
(* Servers and sockets are numbered, servers first. An accepted socket is  *)
(* what the server sees of it: it is connected until destroy() or a failed *)
(* connection closes it; its data is ClientSockets' and CoroutineSocket's. *)
(* One coroutine may wait on each server, beside handlers. A stretch of    *)
(* user code is a place of the loop where the application may call any     *)
(* operation; it does not destroy a server inside that server's own        *)
(* handlers, and leaves a server alone that has reported its close event,  *)
(* except to destroy it. A failed critical assertion is named in `failed'. *)
(*                                                                         *)
(* A vector that grows while a range-for visits it (pendingCloseEvents, in *)
(* both close loops) is taken to leave its old contents readable: what is  *)
(* added then is not visited. pendingEvents, the deferred events of        *)
(* servers, is never added to and left out.                                *)
(***************************************************************************)
EXTENDS NetSockets

CONSTANTS
  NServers,   \* bound: server objects created, named in that order
  NSocks,     \* bound: connections accepted
  Leftovers,  \* what the memory of MultiOwner::cnt may hold; negative: huge
  MaxCalls    \* bound: calls the application makes

ASSUME ServersAssumption ==
  /\ NServers \in Nat \ {0} /\ NSocks \in Nat /\ MaxCalls \in Nat
  /\ Leftovers \subseteq Int /\ 0 \in Leftovers

Servs == 1 .. NServers
Socks == NServers + 1 .. NServers + NSocks

Awaits == {"listen", "connection", "close"}

VARIABLES
  srv,     \* the servers
  con,     \* the accepted sockets
  tbl,     \* ioSockets
  queue,   \* the vectors of pending events
  net,     \* what the operating system holds for poll() and accept()
  loop,    \* where the loop is
  stray,   \* history: a destructor has freed the entry of another object
  dropped, \* history: servers whose close event was thrown away
  calls,   \* how many calls the application has made
  failed   \* the assertion that ended the program

vars == <<srv, con, tbl, queue, net, loop, stray, dropped, calls, failed>>

(* A ServerBase: data.index, data.state, socketList (cnt is not            *)
(* initialized: it starts at what was left in memory), the handles that    *)
(* are set, and where the coroutine waits, with or without a timer.        *)
Server(i, left) ==
  [life |-> "live", idx |-> i, st |-> "Unused", cnt |-> left, left |-> left,
   list |-> {}, ahd |-> {}, at |-> "", timer |-> FALSE]

NoServer(life) == [Server(0, 0) EXCEPT !.life = life]

Socket(life, i, v) == [life |-> life, idx |-> i, st |-> "Connected", server |-> v]

UserPcs == {"inListening", "timers", "inConnection", "inError", "immediate",
            "inSockClose", "inAccepted", "inClose"}

User == failed = "" /\ loop.pc \in UserPcs

At(pc) == failed = "" /\ loop.pc = pc

Goto(pc) == loop' = [loop EXCEPT !.pc = pc]

Next1(pc) == loop' = [loop EXCEPT !.pc = pc, !.todo = Tail(@), !.cur = 0]

Fail(line) ==
  failed' = line
  /\ UNCHANGED <<srv, con, tbl, queue, net, loop, stray, dropped>>

(* NetSockets::at asserts that the entry is used. *)
Found(i) == InRange(tbl, i) /\ isUsed(tbl, i)

-----------------------------------------------------------------------------
(* Coroutines on a server.                                                 *)

Waits(d, kind, timed) ==
  [d EXCEPT !.at = kind, !.ahd = @ \cup {kind}, !.timer = timed]

(* hr(), after the handle has been taken out of its place: the coroutine   *)
(* goes on and clears its timer. A handle that a timeout left behind       *)
(* resumes it wherever it waits now.                                       *)
Woken(d, kinds) == [d EXCEPT !.at = "", !.timer = FALSE, !.ahd = @ \ kinds]

(* A coroutine that waits nowhere may have ended: its frame is freed.      *)
Resumable(d, kinds) == d.ahd \cap kinds # {} => d.at # ""

-----------------------------------------------------------------------------
(* What the application calls.                                             *)

Calls(v) == User /\ srv[v].life = "live" /\ srv[v].st # "Closed"

(* net::createServer: appAddServer *)
createServer(v) ==
  /\ User /\ srv[v].life = "none"
  /\ \A w \in 1 .. v - 1 : srv[w].life # "none"
  /\ \E left \in Leftovers :
       srv' = [srv EXCEPT ![v] = Server(NewIndex(tbl), left)]
  /\ tbl' = addEntry(tbl, v)
  /\ UNCHANGED <<con, queue, net, loop, stray, dropped, failed>>

(* appListen, of a server that then is d. The calls it makes to the        *)
(* operating system fail, with an exception and no effect, unless the      *)
(* descriptor is open and not bound yet.                                   *)
Listen(v, d) ==
  LET i == d.idx
  IN  /\ Calls(v) /\ d.st = "Unused"
      /\ isValidId(tbl, i) /\ tbl.e[i].st = "SockIssued"
      /\ IF CanAssociate(tbl, i)
         THEN /\ tbl' = setEvent(setAssociated(tbl, i), i, "IN")
              /\ queue' = [queue EXCEPT !.listen = Append(@, i)]
              /\ srv' = [srv EXCEPT ![v] = d]
              /\ UNCHANGED <<con, net, loop, stray, dropped, failed>>
         ELSE Fail("setAssociated")

listen(v) == Listen(v, srv[v])

a_listen(v) == srv[v].at = "" /\ Listen(v, Waits(srv[v], "listen", FALSE))

(* reportAllAceptedConnectionsEnded, for the queues q. *)
CloseReported(q, d) == [q EXCEPT !.close = Append(@, [i |-> d.idx, err |-> FALSE])]

(* closingProcedure, of a server that then is d. *)
closingProcedure(v, d) ==
  /\ Calls(v)
  /\ IF ~Found(d.idx) THEN Fail("at")
     ELSE /\ tbl' = setSocketClosed(tbl, d.idx)
          /\ srv' = [srv EXCEPT ![v] = [d EXCEPT !.st = "BeingClosed"]]
          /\ queue' = IF d.cnt = 0 THEN CloseReported(queue, d) ELSE queue
          /\ net' = [net EXCEPT !.waiting = @ \ {v}, !.broken = @ \ {v}]
          /\ UNCHANGED <<con, loop, stray, dropped, failed>>

close(v) == closingProcedure(v, srv[v])

a_close(v) ==
  srv[v].at = "" /\ closingProcedure(v, Waits(srv[v], "close", FALSE))

(* a_close with a period *)
a_closeWithin(v) ==
  srv[v].at = "" /\ closingProcedure(v, Waits(srv[v], "close", TRUE))

AwaitConnection(v, timed) ==
  /\ Calls(v) /\ srv[v].at = ""
  /\ srv' = [srv EXCEPT ![v] = Waits(@, "connection", timed)]
  /\ UNCHANGED <<con, tbl, queue, net, loop, stray, dropped, failed>>

a_connection(v) == AwaitConnection(v, FALSE)

(* a_connection with a period *)
a_connectionWithin(v) == AwaitConnection(v, TRUE)

(* closeSocket and errorCloseSocket *)
CloseSocket(s, how) ==
  /\ con' = [con EXCEPT ![s].st = how]
  /\ queue' = [queue EXCEPT !.sock = Append(@, con[s].idx)]

(* SocketBase::destroy *)
destroy(s) ==
  /\ User /\ con[s].life = "live" /\ con[s].st = "Connected"
  /\ CloseSocket(s, "Closing")
  /\ UNCHANGED <<srv, tbl, net, loop, stray, dropped, failed>>

(* The table after the destructors of the sockets in S, each of which has  *)
(* called setUnused; the second one to free an entry finds it invalid.     *)
Freed(S) ==
  LET at == {con[s].idx : s \in S}
  IN  [tbl EXCEPT !.e = [i \in 1 .. Len(@) |->
                    IF i \in at THEN [@[i] EXCEPT !.st = "Unused", !.index = 0,
                                                  !.fd = "invalid"]
                                ELSE @[i]],
                  !.assoc = @ - Cardinality({i \in at : tbl.e[i].fd # "invalid"}),
                  !.used = @ - Cardinality(S)]

DropServerOnly(v) ==
  /\ User /\ srv[v].life = "live" /\ loop.cur # v
  /\ IF ~InRange(tbl, srv[v].idx) THEN Fail("setUnused")
     ELSE /\ tbl' = setUnused(tbl, srv[v].idx)
          /\ srv' = [srv EXCEPT ![v] = NoServer("gone")]
          /\ net' = [net EXCEPT !.waiting = @ \ {v}, !.broken = @ \ {v}]
          /\ UNCHANGED <<con, queue, loop, stray, dropped, failed>>

(* ~ServerBase: the sockets it owns go first, each as ~SocketBase does it, *)
(* in the order of socketList, and then the entry at its index, which may  *)
(* be another object's by now.                                             *)
dropServer(v) ==
  LET owned == srv[v].list
      open  == {s \in owned : con[s].st = "Connected"}
      t     == Freed(owned)
      i     == srv[v].idx
  IN  /\ User /\ srv[v].life = "live" /\ loop.cur # v
      /\ IF ~\A s \in owned : InRange(tbl, con[s].idx) THEN Fail("setUnused")
         ELSE IF ~InRange(t, i) THEN Fail("setUnused")
         ELSE /\ tbl' = setUnused(t, i)
              /\ stray' = (stray \/ (isUsed(t, i) /\ t.e[i].owner # v))
              /\ srv' = [srv EXCEPT ![v] = NoServer("gone")]
              /\ con' = [s \in Socks |->
                           IF s \in owned THEN Socket("gone", 0, 0) ELSE con[s]]
              /\ \E q \in Bijection(1 .. Cardinality(open), open) :
                   queue' = [queue EXCEPT !.sock =
                               @ \o [k \in DOMAIN q |-> con[q[k]].idx]]
              /\ net' = [net EXCEPT !.waiting = @ \ {v}, !.broken = @ \ {v},
                                    !.lost = @ \ owned]
              /\ UNCHANGED <<loop, dropped, failed>>

UserCode ==
  /\ calls < MaxCalls
  /\ calls' = calls + 1
  /\ \/ \E v \in Servs :
          \/ createServer(v) \/ listen(v) \/ a_listen(v) \/ close(v)
          \/ a_close(v) \/ a_closeWithin(v) \/ a_connection(v)
          \/ a_connectionWithin(v) \/ dropServer(v)
     \/ \E s \in Socks : destroy(s)

-----------------------------------------------------------------------------
(* The network. What it does matters when poll() is called.                *)

(* Entry i is one poll() looks at. *)
Polled(i) == i \in 1 .. tbl.main /\ tbl.e[i].fd = "positive"

(* A peer connects: the connection waits in the backlog of v. *)
Arrive(v) ==
  /\ At("poll")
  /\ srv[v].life = "live" /\ v \notin net.waiting
  /\ isValidId(tbl, srv[v].idx)
  /\ tbl.e[srv[v].idx].owner = v /\ tbl.e[srv[v].idx].st = "SockAssociated"
  /\ Cardinality(net.waiting) < Cardinality({s \in Socks : con[s].life = "none"})
  /\ net' = [net EXCEPT !.waiting = @ \cup {v}]

(* The listening socket of v fails. *)
Breaks(v) ==
  /\ At("poll")
  /\ srv[v].life = "live" /\ v \notin net.broken
  /\ Polled(srv[v].idx) /\ tbl.e[srv[v].idx].owner = v
  /\ net' = [net EXCEPT !.broken = @ \cup {v}]

(* The peer of s is gone. *)
Lose(s) ==
  /\ At("poll")
  /\ con[s].life = "live" /\ con[s].st = "Connected" /\ s \notin net.lost
  /\ net' = [net EXCEPT !.lost = @ \cup {s}]

Network ==
  /\ (\E v \in Servs : Arrive(v) \/ Breaks(v)) \/ (\E s \in Socks : Lose(s))
  /\ UNCHANGED <<srv, con, tbl, queue, loop, stray, dropped, calls, failed>>

-----------------------------------------------------------------------------
(* One iteration of runStandardLoop. It begins with the listening events.  *)

(* infraEmitListeningEvents takes the queue over, again and again. *)
ListenBatch ==
  /\ At("listening") /\ loop.todo = <<>> /\ queue.listen # <<>>
  /\ loop' = [loop EXCEPT !.todo = queue.listen]
  /\ queue' = [queue EXCEPT !.listen = <<>>]
  /\ UNCHANGED <<srv, con, tbl, net, stray, dropped, failed>>

ListenDone ==
  /\ At("listening") /\ loop.todo = <<>> /\ queue.listen = <<>>
  /\ Goto("timers")
  /\ UNCHANGED <<srv, con, tbl, queue, net, stray, dropped, failed>>

(* rrOnListening: the state is Listening whatever it was; the coroutine or *)
(* the handlers of the listening event follow.                             *)
rrOnListening(v, i) ==
  LET d == [srv[v] EXCEPT !.st = "Listening"]
  IN  IF ~Resumable(d, {"listen"}) THEN Fail("resumed")
      ELSE /\ srv' = [srv EXCEPT ![v] = IF "listen" \in d.ahd
                         THEN Woken(d, {"listen"}) ELSE [d EXCEPT !.idx = i]]
           /\ loop' = [loop EXCEPT !.pc = "inListening", !.cur = v]
           /\ UNCHANGED <<con, tbl, queue, net, stray, dropped, failed>>

ListeningEvent ==
  /\ At("listening") /\ loop.todo # <<>>
  /\ LET i == Head(loop.todo)
     IN  IF ~isValidId(tbl, i)
         THEN /\ Next1("listening")
              /\ UNCHANGED <<srv, con, tbl, queue, net, stray, dropped, failed>>
         ELSE IF ~Found(i) THEN Fail("at")
         ELSE IF tbl.e[i].owner \notin Servs THEN Fail("getServerSocket")
         ELSE rrOnListening(tbl.e[i].owner, i)

ListeningHandled ==
  /\ At("inListening")
  /\ Next1("listening")
  /\ UNCHANGED <<srv, con, tbl, queue, net, stray, dropped, failed>>

(* infraTimeoutEvents: the period of a coroutine is over. Its handle stays *)
(* in the server.                                                          *)
ActionTimeout(v) ==
  /\ At("timers") /\ srv[v].timer
  /\ srv' = [srv EXCEPT ![v] = Woken(@, {})]
  /\ UNCHANGED <<con, tbl, queue, net, loop, stray, dropped, failed>>

(* Timer handlers have run, or, the first time, the main() of the node. *)
TimersDone ==
  /\ At("timers")
  /\ Goto("poll")
  /\ UNCHANGED <<srv, con, tbl, queue, net, stray, dropped, failed>>

(* What poll() stores for entry i. *)
Revents(i) ==
  LET o == tbl.e[i].owner
  IN  IF ~Polled(i) THEN {}
      ELSE (IF o \in net.broken \cup net.lost THEN {"ERR"} ELSE {})
           \cup (IF o \in net.waiting THEN {"IN"} ELSE {})

Ready == {i \in 1 .. tbl.main : Revents(i) # {}}

NothingToPoll ==
  /\ At("poll") /\ tbl.assoc = 0
  /\ \E pc \in {"exit", "immediate"} : Goto(pc)
  /\ UNCHANGED <<srv, con, tbl, queue, net, stray, dropped, failed>>

(* poll() returns with what is ready, or, with nothing, when a timer is    *)
(* due.                                                                    *)
Poll ==
  /\ At("poll") /\ tbl.assoc # 0
  /\ tbl' = [tbl EXCEPT !.e = [i \in 1 .. Len(@) |->
               IF i <= tbl.main THEN [@[i] EXCEPT !.rev = Revents(i)] ELSE @[i]]]
  /\ loop' = IF Ready = {} THEN [loop EXCEPT !.pc = "immediate"]
             ELSE [loop EXCEPT !.pc = "dispatch", !.i = 0,
                               !.left = Cardinality(Ready)]
  /\ UNCHANGED <<srv, con, queue, net, stray, dropped, failed>>

-----------------------------------------------------------------------------
(* pollPhase2 and what it calls.                                           *)

AddUncounted(d, s) == [d EXCEPT !.list = @ \cup {s}]

(* makeSocket: MultiOwner::add *)
makeSocket(d, s) == [d EXCEPT !.list = @ \cup {s}, !.cnt = @ + 1]

(* consumeAcceptedSocket, with makeSocket and infraAddAccepted, up to the  *)
(* coroutine that waits for a connection, or the handlers.                 *)
consumeAcceptedSocket(v, at) ==
  LET s == Min({r \in Socks : con[r].life = "none"})
      i == NewIndex(tbl)
      t == addEntry(tbl, s)
      d == makeSocket(srv[v], s)
  IN  IF ~CanAssociate(t, i) THEN Fail("setAssociated")
      ELSE IF ~Resumable(d, {"connection"}) THEN Fail("resumed")
      ELSE /\ tbl' = setEvent(setAssociated(t, i), i, "IN")
           /\ con' = [con EXCEPT ![s] = Socket("live", i, v)]
           /\ srv' = [srv EXCEPT ![v] = IF "connection" \in d.ahd
                                        THEN Woken(d, {"connection"}) ELSE d]
           /\ queue' = [queue EXCEPT !.accepted = Append(@, i)]
           /\ net' = [net EXCEPT !.waiting = @ \ {v}]
           /\ loop' = [at EXCEPT !.pc = "inConnection", !.cur = v]
           /\ UNCHANGED <<stray, dropped, failed>>

(* infraProcessAcceptEvent: accept() fails when the peer has given up. *)
infraProcessAcceptEvent(v, at) ==
  \/ consumeAcceptedSocket(v, at)
  \/ /\ net' = [net EXCEPT !.waiting = @ \ {v}]
     /\ loop' = at
     /\ UNCHANGED <<srv, con, tbl, queue, stray, dropped, failed>>

(* infraCheckPollFdSet of servers, up to handlers. *)
CheckServer(v, rev, at) ==
  \/ /\ "ERR" \in rev
     /\ net' = [net EXCEPT !.broken = @ \ {v}]
     /\ loop' = [at EXCEPT !.pc = "inError", !.cur = v]
     /\ UNCHANGED <<srv, con, tbl, queue, stray, dropped, failed>>
  \/ /\ "ERR" \notin rev /\ "IN" \in rev
     /\ infraProcessAcceptEvent(v, at)

(* infraCheckPollFdSet of sockets: a connection that is gone is closed. *)
CheckSocket(s, at) ==
  /\ loop' = at
  /\ net' = [net EXCEPT !.lost = @ \ {s}]
  /\ IF con[s].st = "Connected" THEN CloseSocket(s, "ErrorClosing")
     ELSE UNCHANGED <<con, queue>>
  /\ UNCHANGED <<srv, tbl, stray, dropped, failed>>

(* Entries poll() found ready that the scan has not passed yet. *)
Ahead == {i \in loop.i + 1 .. tbl.main : tbl.e[i].rev # {}}

(* pollPhase2 goes to the next entry with revents. One that has been       *)
(* closed since is counted and passed over.                                *)
Dispatch ==
  /\ At("dispatch") /\ loop.left > 0
  /\ IF Ahead = {} THEN Fail("reventsAt")
     ELSE LET i  == Min(Ahead)
              o  == tbl.e[i].owner
              at == [loop EXCEPT !.i = i, !.left = @ - 1]
          IN  IF ~Found(i) THEN Fail("at")
              ELSE IF tbl.e[i].st # "SockAssociated"
              THEN /\ loop' = at
                   /\ UNCHANGED <<srv, con, tbl, queue, net, stray, dropped, failed>>
              ELSE IF o \in Servs THEN CheckServer(o, tbl.e[i].rev, at)
              ELSE CheckSocket(o, at)

ConnectionHandled ==
  /\ At("inConnection")
  /\ loop' = [loop EXCEPT !.pc = "dispatch", !.cur = 0]
  /\ UNCHANGED <<srv, con, tbl, queue, net, stray, dropped, failed>>

(* infraMakeErrorEventAndClose, after the handlers: the close event is     *)
(* queued, and the socket stays open.                                      *)
ErrorHandled ==
  /\ At("inError")
  /\ queue' = [queue EXCEPT !.close =
                 Append(@, [i |-> tbl.e[loop.i].index, err |-> TRUE])]
  /\ loop' = [loop EXCEPT !.pc = "dispatch", !.cur = 0]
  /\ UNCHANGED <<srv, con, tbl, net, stray, dropped, failed>>

(* All that poll() counted is processed. Nothing reads revents until it    *)
(* stores them again.                                                      *)
Dispatched ==
  /\ At("dispatch") /\ loop.left = 0
  /\ loop' = [loop EXCEPT !.pc = "immediate", !.i = 0]
  /\ tbl' = [tbl EXCEPT !.e = [i \in 1 .. Len(@) |-> [@[i] EXCEPT !.rev = {}]]]
  /\ UNCHANGED <<srv, con, queue, net, stray, dropped, failed>>

-----------------------------------------------------------------------------
(* The end of the iteration: close events of sockets, accepted events, and *)
(* close events of servers.                                                *)

(* emitInmediates is done; infraGetCloseEvent starts. *)
ImmediatesDone ==
  /\ At("immediate")
  /\ loop' = [loop EXCEPT !.pc = "sockClosing", !.todo = queue.sock]
  /\ UNCHANGED <<srv, con, tbl, queue, net, stray, dropped, failed>>

(* infraGetCloseEvent, one element: the socket is closed and its handlers  *)
(* are called.                                                             *)
SockCloseEvent ==
  /\ At("sockClosing") /\ loop.todo # <<>>
  /\ LET i == Head(loop.todo)
         s == tbl.e[i].owner
     IN  IF ~isValidId(tbl, i) \/ ~isUsed(tbl, i)
         THEN /\ Next1("sockClosing")
              /\ UNCHANGED <<srv, con, tbl, queue, net, stray, dropped, failed>>
         ELSE IF s \notin Socks THEN Fail("getClientSocketData")
         ELSE /\ tbl' = setSocketClosed(tbl, i)
              /\ net' = [net EXCEPT !.lost = @ \ {s}]
              /\ Goto("inSockClose")
              /\ UNCHANGED <<srv, con, queue, stray, dropped, failed>>

(* MultiOwner::removeAndDelete *)
Removed(d, s) == [d EXCEPT !.list = @ \ {s}, !.cnt = @ - 1]

RemoveUnreported(q, d, s) == q

(* removeSocket: the last connection of a server that is being closed lets *)
(* it report its close event.                                              *)
removeSocket(q, d, s) ==
  IF d.st = "BeingClosed" /\ Removed(d, s).cnt = 0
  THEN CloseReported(q, d) ELSE q

(* The close handlers return: onFinalCleanup has the server delete the     *)
(* socket, and the entry is reset.                                         *)
SockCloseHandled ==
  LET i == Head(loop.todo)
      s == tbl.e[i].owner
      v == con[s].server
      t == setUnused(tbl, con[s].idx)
  IN  /\ At("inSockClose")
      /\ IF ~(s \in Socks /\ isUsed(tbl, i)) THEN Fail("getClientSocket")
         ELSE IF removeSocket(queue, srv[v], s) # queue /\ ~Found(srv[v].idx)
         THEN Fail("at")
         ELSE /\ queue' = removeSocket(queue, srv[v], s)
              /\ srv' = [srv EXCEPT ![v] = Removed(@, s)]
              /\ con' = [con EXCEPT ![s] = Socket("gone", 0, 0)]
              /\ tbl' = resetEntry(t, i)
              /\ Next1("sockClosing")
              /\ UNCHANGED <<net, stray, dropped, failed>>

(* infraGetCloseEvent clears its queue; infraProcessSockAcceptedEvents     *)
(* starts.                                                                 *)
SockCloseDone ==
  /\ At("sockClosing") /\ loop.todo = <<>>
  /\ queue' = [queue EXCEPT !.sock = <<>>]
  /\ loop' = [loop EXCEPT !.pc = "accepted", !.todo = queue.accepted]
  /\ UNCHANGED <<srv, con, tbl, net, stray, dropped, failed>>

(* idx < ioSockets.size(): the entry in the last slot of ourSide, and the  *)
(* accumulated ones, are not looked at.                                    *)
BelowSize(i) == i < tbl.main

(* infraProcessSockAcceptedEvents, one element: rrOnAccepted *)
AcceptedEvent ==
  /\ At("accepted") /\ loop.todo # <<>>
  /\ LET i == Head(loop.todo)
     IN  IF ~BelowSize(i)
         THEN /\ Next1("accepted")
              /\ UNCHANGED <<srv, con, tbl, queue, net, stray, dropped, failed>>
         ELSE IF ~Found(i) THEN Fail("at")
         ELSE IF tbl.e[i].owner \notin Socks THEN Fail("getClientSocket")
         ELSE /\ Goto("inAccepted")
              /\ UNCHANGED <<srv, con, tbl, queue, net, stray, dropped, failed>>

AcceptedHandled ==
  /\ At("inAccepted")
  /\ Next1("accepted")
  /\ UNCHANGED <<srv, con, tbl, queue, net, stray, dropped, failed>>

(* The accepted events are forgotten; infraGetCloseEvents starts. *)
AcceptedDone ==
  /\ At("accepted") /\ loop.todo = <<>>
  /\ queue' = [queue EXCEPT !.accepted = <<>>]
  /\ loop' = [loop EXCEPT !.pc = "closing", !.todo = queue.close,
                          !.seen = Len(queue.close)]
  /\ UNCHANGED <<srv, con, tbl, net, stray, dropped, failed>>

CloseKeepingWaiters(d) == [d EXCEPT !.st = "Closed"]

(* internalCleanupBeforeClosing, with forceReleasingAllCoroHandles, and    *)
(* the close handle of rrOnClose: whoever waits on the server goes on. The *)
(* code resumes them one after the other, the model in one step.           *)
ClosedServer(d) ==
  IF d.ahd = {} THEN [d EXCEPT !.st = "Closed"]
  ELSE Woken([d EXCEPT !.st = "Closed"], Awaits)

(* rrOnClose: its assertions, the coroutines, then the handlers of the     *)
(* close event.                                                            *)
rrOnClose(v) ==
  IF srv[v].st # "BeingClosed" THEN Fail("state == BeingClosed")
  ELSE IF srv[v].cnt # 0 THEN Fail("getSockCount() == 0")
  ELSE IF ~Resumable(srv[v], Awaits) THEN Fail("resumed")
  ELSE /\ srv' = [srv EXCEPT ![v] = ClosedServer(@)]
       /\ loop' = [loop EXCEPT !.pc = "inClose", !.cur = v]
       /\ UNCHANGED <<con, tbl, queue, net, stray, dropped, failed>>

(* The servers the indices in I stand for. *)
OwnersOf(I) == {v \in Servs : srv[v].life = "live" /\ srv[v].idx \in I}

(* infraGetCloseEvents, one element. *)
CloseEvent ==
  /\ At("closing") /\ loop.todo # <<>>
  /\ LET i == Head(loop.todo).i
     IN  IF ~BelowSize(i)
         THEN /\ dropped' = dropped \cup OwnersOf({i})
              /\ Next1("closing")
              /\ UNCHANGED <<srv, con, tbl, queue, net, stray, failed>>
         ELSE IF ~Found(i) THEN Fail("at")
         ELSE IF tbl.e[i].fd # "invalid" THEN Fail("socketsAt == INVALID_SOCKET")
         ELSE IF tbl.e[i].owner \notin Servs THEN Fail("getServerSocket")
         ELSE rrOnClose(tbl.e[i].owner)

CloseHandled ==
  /\ At("inClose")
  /\ tbl' = resetEntry(tbl, Head(loop.todo).i)
  /\ Next1("closing")
  /\ UNCHANGED <<srv, con, queue, net, stray, dropped, failed>>

(* The index of o in the table t; objects without an entry keep theirs. *)
Renumbered(t, o, old) ==
  LET own == {i \in 1 .. Len(t.e) : isUsed(t, i) /\ t.e[i].owner = o}
  IN  IF own = {} THEN old ELSE Min(own)

(* pendingCloseEvents.clear(), with what the handlers have added since the *)
(* loop started, and reworkIfNecessary. Queued indices keep their value.   *)
EndIteration ==
  LET t   == reworkIfNecessary(tbl)
      new == SubSeq(queue.close, loop.seen + 1, Len(queue.close))
  IN  /\ At("closing") /\ loop.todo = <<>>
      /\ IF ~AccumInPlace(tbl) THEN Fail("index == ourSide.size()")
         ELSE IF MustCompact(Joined(tbl)) /\ ~UsedCountRight(tbl)
         THEN Fail("usedCountNew == usedCount")
         ELSE /\ dropped' = dropped \cup OwnersOf({new[k].i : k \in 1 .. Len(new)})
              /\ queue' = [queue EXCEPT !.close = <<>>]
              /\ tbl' = t
              /\ srv' = [v \in Servs |->
                           [srv[v] EXCEPT !.idx = Renumbered(t, v, @)]]
              /\ con' = [s \in Socks |->
                           [con[s] EXCEPT !.idx = Renumbered(t, s, @)]]
              /\ loop' = [loop EXCEPT !.pc = "listening", !.seen = 0]
              /\ UNCHANGED <<net, stray, failed>>

-----------------------------------------------------------------------------
Init ==
  /\ srv = [v \in Servs |-> NoServer("none")]
  /\ con = [s \in Socks |-> Socket("none", 0, 0)]
  /\ tbl = EmptyTable
  /\ queue = [listen |-> <<>>, sock |-> <<>>, accepted |-> <<>>, close |-> <<>>]
  /\ net = [waiting |-> {}, broken |-> {}, lost |-> {}]
  /\ loop = [pc |-> "timers", i |-> 0, left |-> 0, todo |-> <<>>, seen |-> 0,
             cur |-> 0]
  /\ stray = FALSE /\ dropped = {}
  /\ calls = 0 /\ failed = ""

LoopStep ==
  /\ \/ ListenBatch \/ ListenDone \/ ListeningEvent \/ ListeningHandled
     \/ (\E v \in Servs : ActionTimeout(v)) \/ TimersDone
     \/ NothingToPoll \/ Poll \/ Dispatch \/ ConnectionHandled \/ ErrorHandled
     \/ Dispatched \/ ImmediatesDone \/ SockCloseEvent \/ SockCloseHandled
     \/ SockCloseDone \/ AcceptedEvent \/ AcceptedHandled \/ AcceptedDone
     \/ CloseEvent \/ CloseHandled \/ EndIteration
  /\ UNCHANGED calls

Next == UserCode \/ Network \/ LoopStep

Spec == Init /\ [][Next]_vars

-----------------------------------------------------------------------------
Indices == 0 .. NServers + NSocks

(* The assertions that may end the program, named for what they check or   *)
(* for the accessor that makes them.                                       *)
Assertions ==
  {"at", "getClientSocket", "getClientSocketData", "getServerSocket",
   "getSockCount() == 0", "index == ourSide.size()", "resumed", "reventsAt",
   "setAssociated", "setUnused", "socketsAt == INVALID_SOCKET",
   "state == BeingClosed", "usedCountNew == usedCount"}

(* Every variable has its type; a server's counter differs from what was   *)
(* left in memory by the connections it owns (MultiOwner::add and          *)
(* removeAndDelete).                                                       *)
TypeOK ==
  /\ \A v \in Servs :
       /\ srv[v].life \in {"none", "live", "gone"}
       /\ srv[v].idx \in Indices
       /\ srv[v].st \in {"Unused", "Listening", "BeingClosed", "Closed"}
       /\ srv[v].list \subseteq Socks
       /\ srv[v].cnt - srv[v].left = Cardinality(srv[v].list)
       /\ srv[v].ahd \subseteq Awaits /\ srv[v].at \in Awaits \cup {""}
       /\ srv[v].timer => srv[v].at # ""
  /\ \A s \in Socks :
       /\ con[s].life \in {"none", "live", "gone"}
       /\ con[s].idx \in Indices
       /\ con[s].st \in {"Connected", "Closing", "ErrorClosing"}
       /\ con[s].server \in 0 .. NServers
  /\ net.waiting \subseteq Servs /\ net.broken \subseteq Servs
  /\ net.lost \subseteq Socks
  /\ loop.todo = <<>> \/ loop.pc \in {"listening", "inListening", "sockClosing",
       "inSockClose", "accepted", "inAccepted", "closing", "inClose"}
  /\ stray \in BOOLEAN /\ dropped \subseteq Servs
  /\ calls \in 0 .. MaxCalls /\ failed \in Assertions \cup {""}

(* An accepted socket belongs to one live server, which lists it, for as   *)
(* long as it lives (makeSocket, removeSocket, ~ServerBase), and both have *)
(* their own entry of the table, at the index they remember; a server has  *)
(* one until it has reported its close event. (The destructor of a server  *)
(* that was closed earlier may take an entry away: see stray.)             *)
OwnsItsEntry ==
  (failed = "" /\ ~stray) =>
     /\ \A s \in Socks : con[s].life = "live" =>
          /\ srv[con[s].server].life = "live" /\ s \in srv[con[s].server].list
          /\ isUsed(tbl, con[s].idx) /\ tbl.e[con[s].idx].owner = s
     /\ \A v \in Servs : (srv[v].life = "live" /\ srv[v].st # "Closed") =>
          isUsed(tbl, srv[v].idx) /\ tbl.e[srv[v].idx].owner = v

(* The close event of v is among those infraGetCloseEvents will visit, or  *)
(* is visiting.                                                            *)
Posted(v) == \E k \in 1 .. Len(queue.close) : queue.close[k].i = srv[v].idx

(* A server that is being closed and has no connection left has posted its *)
(* close event (closingProcedure, removeSocket: "posts close event"), as   *)
(* long as the loop throws none away (dropped) and its counter started at  *)
(* zero.                                                                   *)
CloseIsPosted ==
  \A v \in Servs :
     (/\ failed = "" /\ ~stray /\ v \notin dropped
      /\ srv[v].life = "live" /\ srv[v].left = 0
      /\ srv[v].st = "BeingClosed" /\ srv[v].list = {}) => Posted(v)

(* A server that has reported its close event has no connection left, and  *)
(* no coroutine waits on it any more (internalCleanupBeforeClosing,        *)
(* rrOnClose), if its counter started at zero.                             *)
ClosedIsOver ==
  \A v \in Servs : (srv[v].st = "Closed" /\ srv[v].left = 0) =>
     srv[v].list = {} /\ srv[v].at = ""

=============================================================================
