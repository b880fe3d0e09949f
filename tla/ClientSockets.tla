---------------------------- MODULE ClientSockets ----------------------------
(***************************************************************************)
(* Client sockets and the event loop that drives them: SocketBase          *)
(* (socket_common.h, net.cpp), OSLayer and NetSocketManager (tcp_socket.h, *)
(* tcp_socket.cpp), and one iteration of runStandardLoop with pollPhase2   *)
(* (infrastructure.h).                                                     *)
(*                                                                         *)
(* Everything runs in one thread, and user code runs inside handlers.      *)
(* While loop.pc is the place of a handler the application may call any    *)
(* operation of any socket, in any order, and destroy any socket object:   *)
(* such a call is a step of its own, taken between two steps of the code   *)
(* that called the handler. A critical assertion that fails ends the       *)
(* program and is named in `failed'. Sockets are used with handlers here,  *)
(* not with coroutines, in the build without clustering.                   *)
(*                                                                         *)
(* Two vectors may be reallocated under a reference to one of their        *)
(* elements (pendingCloseEvents and ourSideAccum, in infraGetCloseEvent):  *)
(* the old contents are taken to be still readable then.                   *)
(***************************************************************************)
EXTENDS NetSockets

CONSTANTS
  NSocks,       \* bound: socket objects created, named in that order
  MaxBuffered,  \* bound: bytes waiting in one writeBuffer
  MaxCalls      \* bound: calls the application makes on its sockets

ASSUME BoundsAssumption ==
  NSocks \in Nat \ {0} /\ MaxBuffered \in Nat \ {0} /\ MaxCalls \in Nat

Socks == 1 .. NSocks

VARIABLES
  obj,      \* "none", "live" or "gone": the SocketBase object
  sock,     \* its DataForCommandProcessing
  net,      \* what the operating system knows of its socket
  tbl,      \* ioSockets
  pending,  \* pendingCloseEvents, the indices
  loop,     \* where the loop is
  reported, \* history: sockets whose close event has been reported
  calls,    \* how many calls the application has made
  failed    \* the assertion that ended the program

vars == <<obj, sock, net, tbl, pending, loop, reported, calls, failed>>

Data(i) == [st |-> "Uninitialized", idx |-> i, rend |-> FALSE,
            paused |-> FALSE, wbuf |-> 0]

NoConnection == [conn |-> "none", inq |-> FALSE, pfin |-> FALSE, fin |-> FALSE]

ClosingStates == {"Closing", "ErrorClosing", "Closed"}

UserPcs == {"timers", "inData", "inEnd", "inOut", "immediate", "inError",
            "inClose"}

(* User code is running and may call s. *)
Calls(s) == failed = "" /\ loop.pc \in UserPcs /\ obj[s] = "live"

Goto(pc) == loop' = [loop EXCEPT !.pc = pc]

Fail(line) ==
  failed' = line /\ UNCHANGED <<obj, sock, net, tbl, pending, loop, reported>>

(* closeSocket and errorCloseSocket: s, whose data has just become d, is   *)
(* to be closed at the end of the iteration, unless that is under way.     *)
Close(s, d, how) ==
  IF d.st \in ClosingStates
  THEN sock' = [sock EXCEPT ![s] = d] /\ UNCHANGED pending
  ELSE /\ sock' = [sock EXCEPT ![s] = [d EXCEPT !.st = how]]
       /\ pending' = Append(pending, d.idx)

(* How many of n bytes the operating system takes; -1: COMMLAYER_RET_FAILED *)
SendResults(k, n) ==
  CASE k.conn = "up" /\ ~k.fin -> 0 .. n
    [] k.conn = "pending"      -> {0}
    [] OTHER                   -> {-1}

(* shutdown(SHUT_WR): a connection that is being set up is abandoned. *)
Shutdown(k) ==
  CASE k.conn = "up"      -> [k EXCEPT !.fin = TRUE]
    [] k.conn = "pending" -> [k EXCEPT !.conn = "none"]
    [] OTHER              -> k

-----------------------------------------------------------------------------
(* What the application calls.                                             *)

(* net::createSocket: registerAndAssignSocket *)
createSocket(s) ==
  /\ failed = "" /\ loop.pc \in UserPcs
  /\ obj[s] = "none" /\ \A r \in 1 .. s - 1 : obj[r] # "none"
  /\ obj' = [obj EXCEPT ![s] = "live"]
  /\ sock' = [sock EXCEPT ![s] = Data(NewIndex(tbl))]
  /\ tbl' = addEntry(tbl, s)
  /\ UNCHANGED <<net, pending, loop, reported, failed>>

ConnectUnwatched(s) ==
  /\ Calls(s)
  /\ sock[s].st = "Uninitialized"
  /\ LET i == sock[s].idx
     IN  IF CanAssociate(tbl, i)
         THEN /\ tbl' = setEvent(setAssociated(tbl, i), i, "IN")
              /\ sock' = [sock EXCEPT ![s].st = "Connecting"]
              /\ net' = [net EXCEPT ![s].conn = "pending"]
              /\ UNCHANGED <<obj, pending, loop, reported, failed>>
         ELSE Fail("setAssociated")

(* appConnectSocket; the application calls it once per socket. *)
connect(s) ==
  /\ Calls(s)
  /\ sock[s].st = "Uninitialized"
  /\ LET i == sock[s].idx
     IN  IF CanAssociate(tbl, i)
         THEN /\ tbl' = setEvent(setEvent(setAssociated(tbl, i), i, "IN"), i,
                                 "OUT")
              /\ sock' = [sock EXCEPT ![s].st = "Connecting"]
              /\ net' = [net EXCEPT ![s].conn = "pending"]
              /\ UNCHANGED <<obj, pending, loop, reported, failed>>
         ELSE Fail("setAssociated")

BufferUnwatched(s) ==
  /\ sock' = [sock EXCEPT ![s].wbuf = 1]
  /\ UNCHANGED <<obj, net, tbl, pending, loop, reported, failed>>

(* appWrite: the rest of what could not be sent is buffered. *)
BufferFirst(s) ==
  IF InRange(tbl, sock[s].idx)
  THEN /\ sock' = [sock EXCEPT ![s].wbuf = 1]
       /\ tbl' = setEvent(tbl, sock[s].idx, "OUT")
       /\ UNCHANGED <<obj, net, pending, loop, reported, failed>>
  ELSE Fail("setPollout")

(* appWrite of one byte *)
write(s) ==
  /\ Calls(s)
  /\ sock[s].st # "Uninitialized"
  /\ IF sock[s].st \in {"LocalEnding", "LocalEnded"}
     THEN /\ Close(s, sock[s], "ErrorClosing")
          /\ UNCHANGED <<obj, net, tbl, loop, reported, failed>>
     ELSE IF sock[s].wbuf > 0
     THEN /\ sock[s].wbuf < MaxBuffered
          /\ sock' = [sock EXCEPT ![s].wbuf = @ + 1]
          /\ UNCHANGED <<obj, net, tbl, pending, loop, reported, failed>>
     ELSE \E r \in SendResults(net[s], 1) :
            \/ /\ r = -1
               /\ Close(s, sock[s], "ErrorClosing")
               /\ UNCHANGED <<obj, net, tbl, loop, reported, failed>>
            \/ r = 0 /\ BufferFirst(s)
            \/ /\ r = 1
               /\ UNCHANGED <<obj, sock, net, tbl, pending, loop, reported, failed>>

EndAtOnce(s) ==
  /\ Calls(s)
  /\ sock[s].st # "Uninitialized"
  /\ net' = [net EXCEPT ![s] = Shutdown(@)]
  /\ IF sock[s].rend
     THEN Close(s, sock[s], "Closing")
     ELSE /\ sock' = [sock EXCEPT ![s].st = "LocalEnded"]
          /\ UNCHANGED pending
  /\ UNCHANGED <<obj, tbl, loop, reported, failed>>

(* appEnd *)
end(s) ==
  /\ Calls(s)
  /\ sock[s].st # "Uninitialized"
  /\ IF sock[s].wbuf = 0
     THEN /\ net' = [net EXCEPT ![s] = Shutdown(@)]
          /\ IF sock[s].rend
             THEN Close(s, sock[s], "Closing")
             ELSE /\ sock' = [sock EXCEPT ![s].st = "LocalEnded"]
                  /\ UNCHANGED pending
     ELSE /\ sock' = [sock EXCEPT ![s].st = "LocalEnding"]
          /\ UNCHANGED <<net, pending>>
  /\ UNCHANGED <<obj, tbl, loop, reported, failed>>

(* appDestroy *)
destroy(s) ==
  /\ Calls(s)
  /\ sock[s].st # "Uninitialized"
  /\ Close(s, sock[s], "Closing")
  /\ UNCHANGED <<obj, net, tbl, loop, reported, failed>>

(* appSetKeepAlive and appSetNoDelay, when setsockopt fails. *)
setOptionFails(s) ==
  /\ Calls(s)
  /\ sock[s].st # "Uninitialized"
  /\ Close(s, sock[s], "ErrorClosing")
  /\ UNCHANGED <<obj, net, tbl, loop, reported, failed>>

(* appPause and appResume: the flag of whoever owns the entry now. *)
setPaused(s, on) ==
  /\ Calls(s)
  /\ LET i == sock[s].idx
     IN  IF InRange(tbl, i) /\ isUsed(tbl, i)
         THEN /\ sock' = [sock EXCEPT ![tbl.e[i].owner].paused = on]
              /\ UNCHANGED <<obj, net, tbl, pending, loop, reported, failed>>
         ELSE Fail("at")

(* ~SocketBase: destroy() if connecting or connected, unref(), and         *)
(* reportBeingDestructed().                                                *)
dropSocket(s) ==
  /\ Calls(s)
  /\ IF InRange(tbl, sock[s].idx)
     THEN /\ obj' = [obj EXCEPT ![s] = "gone"]
          /\ tbl' = setUnused(tbl, sock[s].idx)
          /\ IF sock[s].st \in {"Connecting", "Connected"}
             THEN Close(s, sock[s], "Closing")
             ELSE UNCHANGED <<sock, pending>>
          /\ UNCHANGED <<net, loop, reported, failed>>
     ELSE Fail("setUnused")

UserCode ==
  /\ calls < MaxCalls
  /\ calls' = calls + 1
  /\ \E s \in Socks :
       \/ createSocket(s) \/ connect(s) \/ write(s) \/ end(s) \/ destroy(s)
       \/ setOptionFails(s) \/ dropSocket(s)
       \/ \E on \in BOOLEAN : setPaused(s, on)

-----------------------------------------------------------------------------
(* The other end, and the network.                                         *)

NetConnects(s, to) ==
  /\ net[s].conn = "pending"
  /\ net' = [net EXCEPT ![s].conn = to]

NetResets(s) ==
  /\ net[s].conn = "up"
  /\ net' = [net EXCEPT ![s].conn = "err"]

NetSendsData(s) ==
  /\ net[s].conn = "up" /\ ~net[s].pfin
  /\ net' = [net EXCEPT ![s].inq = TRUE]

NetSendsFin(s) ==
  /\ net[s].conn = "up"
  /\ net' = [net EXCEPT ![s].pfin = TRUE]

(* The network moves at any time, between two calls of one handler too;    *)
(* what becomes of a socket whose object is gone is of no interest.        *)
Network ==
  /\ failed = "" /\ loop.pc # "exit"
  /\ \E s \in {r \in Socks : obj[r] = "live"} :
       \/ \E to \in {"up", "err"} : NetConnects(s, to)
       \/ NetResets(s) \/ NetSendsData(s) \/ NetSendsFin(s)
  /\ UNCHANGED <<obj, sock, tbl, pending, loop, reported, calls, failed>>

(* revents of entry i; poll() skips descriptors that are not positive.     *)
Ready(i) ==
  LET en == tbl.e[i]
      k  == net[en.owner]
  IN  IF en.fd # "positive" THEN {}
      ELSE CASE k.conn = "none"    -> {"HUP"} \cup (en.ev \cap {"OUT"})
             [] k.conn = "pending" -> {}
             [] k.conn = "up"      ->
                  (IF k.inq \/ k.pfin THEN en.ev ELSE en.ev \ {"IN"})
                    \cup (IF k.pfin /\ k.fin THEN {"HUP"} ELSE {})
             [] OTHER              -> {"ERR"}

(* What poll() reports if the send buffers behind the entries in full are  *)
(* full, which those of sockets with buffered bytes may be.                *)
Revents(full) ==
  [i \in 1 .. tbl.main |-> IF i \in full THEN Ready(i) \ {"OUT"} ELSE Ready(i)]

MayBeFull ==
  {i \in 1 .. tbl.main : /\ sock[tbl.e[i].owner].wbuf > 0
                         /\ sock[tbl.e[i].owner].st # "Connecting"}

(* poll() returns: the entries get their revents, and the loop is about to *)
(* visit as many entries as poll() has counted.                            *)
Returns(rev) ==
  /\ tbl' = [tbl EXCEPT !.e = [i \in 1 .. Len(@) |->
                IF i <= tbl.main THEN [@[i] EXCEPT !.rev = rev[i]] ELSE @[i]]]
  /\ loop' = [loop EXCEPT !.pc = "dispatch", !.i = 0,
                !.left = Cardinality({i \in 1 .. tbl.main : rev[i] # {}})]
  /\ UNCHANGED <<obj, sock, net, pending, reported, failed>>

-----------------------------------------------------------------------------
(* One iteration of runStandardLoop.                                       *)

(* Timer handlers have run (TimeoutManager); before the first iteration it *)
(* is the main() of the node.                                              *)
TimersDone ==
  /\ failed = "" /\ loop.pc = "timers"
  /\ Goto("poll")
  /\ UNCHANGED <<obj, sock, net, tbl, pending, reported, failed>>

(* NetSockets::wait finds nothing to wait for: the loop ends, unless       *)
(* timers or immediates keep it.                                           *)
NothingToPoll ==
  /\ failed = "" /\ loop.pc = "poll"
  /\ tbl.assoc = 0
  /\ \E pc \in {"exit", "immediate"} : Goto(pc)
  /\ UNCHANGED <<obj, sock, net, tbl, pending, reported, failed>>

(* poll() returns with the ready sockets. *)
Poll ==
  /\ failed = "" /\ loop.pc = "poll"
  /\ tbl.assoc # 0
  /\ \E full \in SUBSET MayBeFull :
       /\ \E i \in 1 .. tbl.main : Revents(full)[i] # {}
       /\ Returns(Revents(full))

(* poll() returns because a timer is due (getPollTimeout). *)
PollTimeout ==
  /\ failed = "" /\ loop.pc = "poll"
  /\ tbl.assoc # 0
  /\ \A i \in 1 .. tbl.main : Revents(MayBeFull)[i] = {}
  /\ Returns(Revents(MayBeFull))

(* Entries poll() found ready that the scan has not passed yet. *)
Ahead == {i \in loop.i + 1 .. tbl.main : tbl.e[i].rev # {}}

(* After POLLIN or POLLHUP, infraCheckPollFdSet looks at POLLOUT. *)
AfterInput(at) == [at EXCEPT !.pc = IF at.out THEN "writable" ELSE "dispatch"]

(* infraProcessRemoteEnded, up to the handlers of the end event. *)
RemoteEnded(i, s, at) ==
  IF sock[s].rend
  THEN /\ loop' = AfterInput(at)
       /\ UNCHANGED <<sock, tbl>>
  ELSE /\ tbl' = unsetEvent(tbl, i, "IN")
       /\ sock' = [sock EXCEPT ![s].rend = TRUE]
       /\ loop' = [at EXCEPT !.pc = "inEnd"]

(* infraProcessReadEvent, the branch without a waiting coroutine, up to    *)
(* the handlers of the data event. A read that would block counts as       *)
(* failed.                                                                 *)
ReadEvent(i, s, at) ==
  \/ /\ net[s].conn = "up" /\ net[s].inq
     /\ net' = [net EXCEPT ![s].inq = FALSE]
     /\ loop' = [at EXCEPT !.pc = "inData"]
     /\ UNCHANGED <<sock, tbl, pending>>
  \/ /\ net[s].conn = "up" /\ ~net[s].inq /\ net[s].pfin
     /\ RemoteEnded(i, s, at)
     /\ UNCHANGED <<net, pending>>
  \/ /\ net[s].conn # "up" \/ ~(net[s].inq \/ net[s].pfin)
     /\ Close(s, sock[s], "ErrorClosing")
     /\ loop' = AfterInput(at)
     /\ UNCHANGED <<net, tbl>>

(* infraCheckPollFdSet, up to the handlers of an input event. *)
CheckPollFdSet(i, rev, s, at) ==
  \/ /\ "ERR" \in rev
     /\ Close(s, sock[s], "ErrorClosing")
     /\ loop' = at
     /\ UNCHANGED <<net, tbl>>
  \/ "IN" \in rev /\ ~sock[s].paused /\ ReadEvent(i, s, at)
  \/ /\ "HUP" \in rev /\ "IN" \notin rev
     /\ RemoteEnded(i, s, at)
     /\ UNCHANGED <<net, pending>>
  \/ /\ IF "IN" \in rev THEN sock[s].paused ELSE rev \subseteq {"OUT"}
     /\ loop' = AfterInput(at)
     /\ UNCHANGED <<sock, net, tbl, pending>>

(* pollPhase2 goes to the next entry with revents: reventsAt() asserts     *)
(* that there is one, and at() that it is used.                            *)
Dispatch ==
  /\ failed = "" /\ loop.pc = "dispatch" /\ loop.left > 0
  /\ IF Ahead = {} THEN Fail("reventsAt")
     ELSE IF ~isUsed(tbl, Min(Ahead)) THEN Fail("at")
     ELSE LET i   == Min(Ahead)
              rev == IF tbl.e[i].st = "SockAssociated" THEN tbl.e[i].rev ELSE {}
          IN  /\ CheckPollFdSet(i, rev, tbl.e[i].owner,
                    [loop EXCEPT !.i = i, !.left = @ - 1, !.out = "OUT" \in rev])
              /\ UNCHANGED <<obj, reported, failed>>

(* The handlers of a data event return. *)
DataHandled ==
  /\ failed = "" /\ loop.pc = "inData"
  /\ loop' = AfterInput(loop)
  /\ UNCHANGED <<obj, sock, net, tbl, pending, reported, failed>>

(* The handlers of an end event return to infraProcessRemoteEnded, which   *)
(* goes on with whoever is behind the entry: getClientSocketData asserts   *)
(* that it exists. allowHalfOpen is never set.                             *)
EndHandled ==
  LET s == tbl.e[loop.i].owner
      d == sock[s]
  IN  /\ failed = "" /\ loop.pc = "inEnd"
      /\ IF obj[s] # "live" THEN Fail("getClientSocketData")
         ELSE /\ \/ /\ d.st = "LocalEnded"
                    /\ Close(s, d, "Closing") /\ UNCHANGED net
                 \/ /\ d.st = "LocalEnding"
                    /\ UNCHANGED <<sock, net, pending>>
                 \/ /\ d.st \notin {"LocalEnded", "LocalEnding"} /\ d.wbuf > 0
                    /\ sock' = [sock EXCEPT ![s].st = "LocalEnding"]
                    /\ UNCHANGED <<net, pending>>
                 \/ /\ d.st \notin {"LocalEnded", "LocalEnding"} /\ d.wbuf = 0
                    /\ net' = [net EXCEPT ![s] = Shutdown(@)]
                    /\ Close(s, [d EXCEPT !.st = "LocalEnded"], "Closing")
              /\ loop' = AfterInput(loop)
              /\ UNCHANGED <<obj, tbl, reported, failed>>

(* _infraProcessWriteEvent: the connection is there; getsockopt(SO_ERROR)  *)
(* tells how it went.                                                      *)
Connected(s) ==
  IF sock[s].wbuf > 0 THEN Fail("writeBuffer.empty()")
  ELSE /\ sock' = [sock EXCEPT ![s].st = "Connected"]
       /\ tbl' = unsetEvent(tbl, sock[s].idx, "OUT")
       /\ Goto("inOut")
       /\ UNCHANGED <<obj, net, pending, reported, failed>>

(* _infraProcessWriteEvent: everything that was buffered has been sent. *)
AllSent(s) ==
  LET d == [sock[s] EXCEPT !.wbuf = 0]
  IN  /\ \/ /\ d.st = "LocalEnding" /\ d.rend
            /\ net' = [net EXCEPT ![s] = Shutdown(@)]
            /\ Close(s, d, "Closing")
         \/ /\ d.st = "LocalEnding" /\ ~d.rend
            /\ net' = [net EXCEPT ![s] = Shutdown(@)]
            /\ sock' = [sock EXCEPT ![s] = [d EXCEPT !.st = "LocalEnded"]]
            /\ UNCHANGED pending
         \/ /\ d.st # "LocalEnding"
            /\ sock' = [sock EXCEPT ![s] = d]
            /\ UNCHANGED <<net, pending>>
      /\ tbl' = unsetEvent(tbl, d.idx, "OUT")
      /\ Goto("inOut")
      /\ UNCHANGED <<obj, reported, failed>>

(* _infraProcessWriteEvent: n of the buffered bytes have been sent; the    *)
(* assertion compares them with what is left.                              *)
PartSent(s, n) ==
  IF n < sock[s].wbuf - n
  THEN /\ sock' = [sock EXCEPT ![s].wbuf = @ - n]
       /\ Goto("dispatch")
       /\ UNCHANGED <<obj, net, tbl, pending, reported, failed>>
  ELSE Fail("sentSize < used_size()")

WriteFails(s) ==
  /\ Close(s, sock[s], "ErrorClosing")
  /\ Goto("dispatch")
  /\ UNCHANGED <<obj, net, tbl, reported, failed>>

(* infraProcessWriteEvent, for whoever is behind the entry now. *)
WriteEvent ==
  LET s == tbl.e[loop.i].owner
  IN  /\ failed = "" /\ loop.pc = "writable"
      /\ IF obj[s] # "live" THEN Fail("getClientSocketData")
         ELSE \/ /\ sock[s].st = "Connecting"
                 /\ IF net[s].conn = "err" THEN WriteFails(s) ELSE Connected(s)
              \/ /\ sock[s].st # "Connecting" /\ sock[s].wbuf > 0
                 /\ \E n \in SendResults(net[s], sock[s].wbuf) :
                      \/ n = -1 /\ WriteFails(s)
                      \/ n = sock[s].wbuf /\ AllSent(s)
                      \/ n \in 0 .. sock[s].wbuf - 1 /\ PartSent(s, n)
              \/ /\ sock[s].st # "Connecting" /\ sock[s].wbuf = 0
                 /\ Fail("Not supported yet!")

(* The handlers of a connect or drain event return. *)
OutHandled ==
  /\ failed = "" /\ loop.pc = "inOut"
  /\ Goto("dispatch")
  /\ UNCHANGED <<obj, sock, net, tbl, pending, reported, failed>>

(* All that poll() counted is processed; immediates run next. *)
Dispatched ==
  /\ failed = "" /\ loop.pc = "dispatch" /\ loop.left = 0
  /\ loop' = [loop EXCEPT !.pc = "immediate", !.i = 0, !.out = FALSE]
  /\ UNCHANGED <<obj, sock, net, tbl, pending, reported, failed>>

(* infraGetCloseEvent starts: what handlers add to pendingCloseEvents from *)
(* now on is not visited.                                                  *)
ImmediatesDone ==
  /\ failed = "" /\ loop.pc = "immediate"
  /\ loop' = [loop EXCEPT !.pc = "closing", !.todo = pending]
  /\ UNCHANGED <<obj, sock, net, tbl, pending, reported, failed>>

(* The close handlers of s are called. *)
ReportClose(s) ==
  /\ Goto("inClose")
  /\ reported' = reported \cup {s}

(* infraGetCloseEvent, the socket behind the entry: it is closed, and its  *)
(* error handlers, or else its close handlers, are called.                 *)
CloseBehind(i, s) ==
  /\ net' = [net EXCEPT ![s].conn = "closed"]
  /\ tbl' = setSocketClosed(tbl, i)
  /\ IF sock[s].st = "ErrorClosing"
     THEN Goto("inError") /\ UNCHANGED reported
     ELSE ReportClose(s)

(* infraGetCloseEvent, one element of pendingCloseEvents. *)
CloseEvent ==
  /\ failed = "" /\ loop.pc = "closing" /\ loop.todo # <<>>
  /\ LET i == Head(loop.todo)
     IN  IF isValidId(tbl, i) /\ isUsed(tbl, i)
         THEN /\ CloseBehind(i, tbl.e[i].owner)
              /\ UNCHANGED <<obj, sock, pending, failed>>
         ELSE /\ loop' = [loop EXCEPT !.todo = Tail(@)]
              /\ UNCHANGED <<obj, sock, net, tbl, pending, reported, failed>>

(* The error handlers return: the close handlers are next, for whoever is  *)
(* behind the entry now.                                                   *)
ErrorHandled ==
  LET s == tbl.e[Head(loop.todo)].owner
  IN  /\ failed = "" /\ loop.pc = "inError"
      /\ IF obj[s] # "live" THEN Fail("getClientSocketData")
         ELSE /\ ReportClose(s)
              /\ UNCHANGED <<obj, sock, net, tbl, pending, failed>>

CloseKeepsEntry ==
  LET i == Head(loop.todo)
      s == tbl.e[i].owner
  IN  /\ failed = "" /\ loop.pc = "inClose"
      /\ sock' = [sock EXCEPT ![s].st = "Closed"]
      /\ loop' = [loop EXCEPT !.pc = "closing", !.todo = Tail(@)]
      /\ UNCHANGED <<obj, net, tbl, pending, reported, failed>>

(* The close handlers return: the entry is reset. *)
CloseHandled ==
  LET i == Head(loop.todo)
      s == tbl.e[i].owner
  IN  /\ failed = "" /\ loop.pc = "inClose"
      /\ IF obj[s] # "live" THEN Fail("getClientSocket")
         ELSE /\ sock' = IF isUsed(tbl, i)
                         THEN [sock EXCEPT ![s].st = "Closed"] ELSE sock
              /\ tbl' = resetEntry(tbl, i)
              /\ loop' = [loop EXCEPT !.pc = "closing", !.todo = Tail(@)]
              /\ UNCHANGED <<obj, net, pending, reported, failed>>

(* The end of the iteration: pendingCloseEvents.clear() and                *)
(* reworkIfNecessary, which renumbers the sockets it moves.                *)
EndIteration ==
  LET t == reworkIfNecessary(tbl)
  IN  /\ failed = "" /\ loop.pc = "closing" /\ loop.todo = <<>>
      /\ IF ~AccumInPlace(tbl) THEN Fail("index == ourSide.size()")
         ELSE IF MustCompact(Joined(tbl)) /\ ~UsedCountRight(tbl)
         THEN Fail("usedCountNew == usedCount")
         ELSE /\ pending' = <<>>
              /\ tbl' = t
              /\ sock' = [s \in Socks |->
                   IF \E i \in 1 .. Len(t.e) : isUsed(t, i) /\ t.e[i].owner = s
                   THEN [sock[s] EXCEPT !.idx = CHOOSE i \in 1 .. Len(t.e) :
                           isUsed(t, i) /\ t.e[i].owner = s]
                   ELSE sock[s]]
              /\ Goto("timers")
              /\ UNCHANGED <<obj, net, reported, failed>>

Init ==
  /\ obj = [s \in Socks |-> "none"]
  /\ sock = [s \in Socks |-> Data(0)]
  /\ net = [s \in Socks |-> NoConnection]
  /\ tbl = EmptyTable
  /\ pending = <<>>
  /\ loop = [pc |-> "timers", i |-> 0, left |-> 0, out |-> FALSE, todo |-> <<>>]
  /\ reported = {}
  /\ calls = 0
  /\ failed = ""

LoopStep ==
  /\ \/ TimersDone \/ NothingToPoll \/ Poll \/ Dispatch \/ DataHandled
     \/ EndHandled \/ WriteEvent \/ OutHandled \/ Dispatched
     \/ ImmediatesDone \/ CloseEvent \/ ErrorHandled \/ CloseHandled
     \/ EndIteration
  /\ UNCHANGED calls

Next == UserCode \/ Network \/ LoopStep \/ (PollTimeout /\ UNCHANGED calls)

Spec == Init /\ [][Next]_vars

(* The loop runs, its handlers return, and poll() reports what is ready. *)
FairSpec == Spec /\ WF_vars(LoopStep)

-----------------------------------------------------------------------------
States == {"Uninitialized", "Connecting", "Connected", "LocalEnding",
           "LocalEnded", "Closing", "ErrorClosing", "Closed"}

(* Every socket is in a state of the code, the poll scan stays inside       *)
(* ourSide, and ourSide is a prefix of the table.                           *)
TypeOK ==
  /\ obj \in [Socks -> {"none", "live", "gone"}]
  /\ sock \in [Socks -> [st : States, idx : Nat, rend : BOOLEAN,
                          paused : BOOLEAN, wbuf : 0 .. MaxBuffered]]
  /\ net \in [Socks -> [conn : {"none", "pending", "up", "err", "closed"},
                         inq : BOOLEAN, pfin : BOOLEAN, fin : BOOLEAN]]
  /\ DOMAIN tbl = {"e", "main", "cap", "assoc", "used"}
  /\ tbl.e \in Seq([st : EntryStates, owner : Socks, index : Nat,
                     fd : {"negative", "positive", "invalid"},
                     ev : SUBSET {"IN", "OUT"},
                     rev : SUBSET {"IN", "OUT", "HUP", "ERR"}])
  /\ tbl.main \in 0 .. Len(tbl.e) /\ tbl.cap \in Nat
  /\ tbl.assoc \in Int /\ tbl.used \in Int
  /\ pending \in Seq(Nat) /\ loop.todo \in Seq(Nat)
  /\ loop.pc \in UserPcs \cup {"poll", "dispatch", "writable", "closing", "exit"}
  /\ loop.i \in 0 .. tbl.main /\ loop.left \in Nat /\ loop.out \in BOOLEAN
  /\ reported \subseteq Socks /\ calls \in 0 .. MaxCalls

(* Entry i is in use for the object s. *)
Owns(s, i) == isUsed(tbl, i) /\ tbl.e[i].owner = s

(* A used entry belongs to a socket object that still exists and knows the *)
(* entry by its index: what isUsed() and isAssociated() assert of the      *)
(* emitter, and what the loop relies on when it reports an event of entry  *)
(* i. It holds across reuse, growth and compaction of the table.           *)
EntryPointsBack ==
  \A i \in 1 .. Len(tbl.e) :
    isUsed(tbl, i) => /\ obj[tbl.e[i].owner] = "live"
                      /\ sock[tbl.e[i].owner].idx = i
                      /\ tbl.e[i].index = i

(* Entries accumulate only while ourSide is at its capacity: the assertion *)
(* "ourSide.size() == ourSide.capacity()" of every accessor that falls     *)
(* through to ourSideAccum.                                                *)
AccumulatesWhenFull == Len(tbl.e) > tbl.main => tbl.main + 1 = tbl.cap

(* The poll mask follows the state of the socket: a descriptor is handed   *)
(* to poll() while its entry is associated, POLLOUT is asked for while     *)
(* connecting and while bytes are buffered, POLLIN until the peer's end    *)
(* has been seen. Otherwise the loop would sleep on work it has to do.     *)
PolledAsNeeded ==
  \A i \in 1 .. Len(tbl.e) :
    LET d == sock[tbl.e[i].owner]
    IN  tbl.e[i].st = "SockAssociated" =>
          /\ tbl.e[i].fd = "positive"
          /\ d.st = "Connecting" \/ d.wbuf > 0 => "OUT" \in tbl.e[i].ev
          /\ ~d.rend => "IN" \in tbl.e[i].ev

(* end() lets what write() has accepted out first: FIN never overtakes     *)
(* buffered bytes.                                                         *)
FinAfterBuffered == \A s \in Socks : net[s].fin => sock[s].wbuf = 0

(* While every socket object still exists, associatedCount is the number   *)
(* of polled entries, so that wait() neither ends the loop under a live    *)
(* connection nor keeps it alive for nothing.                              *)
AssociatedCountRight ==
  (\A s \in Socks : obj[s] # "gone") =>
    tbl.assoc = Cardinality({i \in 1 .. Len(tbl.e) :
                               tbl.e[i].st = "SockAssociated"})

(* The socket whose handlers run. *)
Current ==
  tbl.e[IF loop.pc \in {"inError", "inClose"} THEN Head(loop.todo)
                                             ELSE loop.i].owner

(* Once its close event has been reported a socket reports nothing more,   *)
(* not a second close event either.                                        *)
NothingAfterClose ==
  [][ loop'.pc \in UserPcs \ {"timers", "immediate"} /\ loop'.pc # loop.pc
        => Current' \notin reported ]_vars

(* The connection attempt of s has succeeded or failed, and poll() can say *)
(* so.                                                                     *)
OutcomeUnseen(s) ==
  /\ sock[s].st = "Connecting" /\ net[s].conn \in {"up", "err"}
  /\ sock[s].idx <= tbl.main

(* Connection attempts that have succeeded or failed are taken note of,    *)
(* all of them: the sockets leave Connecting, unless an assertion ends the *)
(* program. Only as long as no object has been destroyed, and only once    *)
(* the entries have joined ourSide: poll() does not see those accumulated  *)
(* by main() or by a timer handler, and may sleep over them for ever.      *)
ConnectOutcomeSeen ==
  (\E s \in Socks : OutcomeUnseen(s)) ~>
    \/ failed # "" \/ \E s \in Socks : obj[s] = "gone"
    \/ \A s \in Socks : ~OutcomeUnseen(s)

-----------------------------------------------------------------------------
(* What the repository says and the code does not do.                      *)

(* "if there is an issue with a socket, we may need to appClose it, and    *)
(* push an event here to notify autom later" (tcp_socket.h, line 814): a   *)
(* socket that is to be closed and owns its entry has its index in         *)
(* pendingCloseEvents when infraGetCloseEvent is done with the others.     *)
ClosingIsPending ==
  loop.pc = "timers" /\ failed = "" =>
    \A s \in Socks :
      (/\ sock[s].st \in {"Closing", "ErrorClosing"}
       /\ isValidId(tbl, sock[s].idx) /\ Owns(s, sock[s].idx))
        => \E n \in DOMAIN pending : pending[n] = sock[s].idx

(* "handler may release, put virtual onClose first." (socket_common.h,     *)
(* line 1383): the application may destroy a socket in its close handler.  *)
CloseHandlerMayRelease == failed # "getClientSocket"

(* "sentSize < sockData.writeBuffer.used_size()" (tcp_socket.cpp, line     *)
(* 945), after a part of the buffered bytes has been sent.                 *)
PartialSendAsserted == failed # "sentSize < used_size()"

=============================================================================
