--------------------------- MODULE CoroutineSocket ---------------------------
(***************************************************************************)
(* One client socket used from coroutines: the awaiters of SocketBase      *)
(* (socket_common.h), what resumes them (tcp_socket.h, tcp_socket.cpp),    *)
(* and the part of awaitable.h they rest on. ClientSockets has the table   *)
(* of sockets and the handlers; here there is one socket, its read buffer  *)
(* byte by byte (CircularByteBuffer), and the coroutines.                  *)
(*                                                                         *)
(* A frame is one call of a coroutine. It runs inside whatever resumes it, *)
(* until it awaits again or returns: user code, so both may happen. loop   *)
(* says where the loop is; while loop.pc is in UserPcs the running frames  *)
(* may call the socket, and a frame that still runs when the handler       *)
(* returns has ended. Frames follow two conventions, which the code relies *)
(* on and does not enforce: no two of them wait for the same thing, and    *)
(* a_connect is called first.                                              *)
(***************************************************************************)
EXTENDS CircularByteBuffer

CONSTANTS
  NFrames,    \* bound: calls of coroutines
  ReadCalls,  \* what a_read is called with: min_bytes, max_bytes, and
              \* whether there is a period
  LineSize,   \* capacity of the Buffer a_readUntil is called with
  Segments,   \* how many bytes the other side sends at a time
  MaxBytes,   \* bound: bytes the other side sends
  WriteSizes, \* how many bytes a_write and write are called with
  WriteExp,   \* size_exp of a new writeBuffer, 12 in the code
  MaxSizeExp, \* max_allowed_size_exp, 32 in the code
  MaxCalls    \* bound: calls the frames make

(* The sizes writeBuffer may have. *)
AllocSizes == {2 ^ x : x \in 0 .. MaxSizeExp}

ASSUME CoroutineAssumption ==
  /\ NFrames \in Nat \ {0} /\ LineSize \in Nat \ {0}
  /\ \A p \in ReadCalls : /\ p[1] \in 1 .. alloc_size - 1
                          /\ p[2] \in Nat /\ p[2] >= p[1] /\ p[3] \in BOOLEAN
  /\ Segments \subseteq Nat \ {0} /\ MaxBytes \in Nat
  /\ WriteSizes \subseteq Nat \ {0} /\ WriteExp \in 1 .. MaxSizeExp
  /\ MaxSizeExp \in Nat /\ MaxCalls \in Nat
  /\ AllocSizes \subseteq Nat \ {0}   \* which follows; the proofs use it

Frames == 1 .. NFrames
Kinds == {"connect", "read", "write", "drain"}

VARIABLES
  sock,    \* DataForCommandProcessing: state, remoteEnded, readBuffer, the
           \* size and alloc_size of writeBuffer, the size of ahd_write.b,
           \* the entry's events
  ahd,     \* ahd_connect, ahd_read.h, ahd_write.h, ahd_drain; 0 is nullptr
  need,    \* ahd_read.min_bytes
  frame,   \* the frames
  net,     \* what the operating system knows of the socket
  loop,    \* where the loop is
  got,     \* history: the bytes frames have been given, in that order
  handed,  \* history: the bytes given to data handlers
  calls,   \* how many calls the frames have made
  failed   \* the assertion that ended the program

vars == <<sock, ahd, need, frame, net, loop, got, handed, calls, failed>>

(* at: where the frame waits, or "none", "run", "ended"; min and max: what *)
(* the a_read it waits in was called with; exc: edata.isException; timer:  *)
(* it waits with a period; part: a_readUntil has put a part of a line into *)
(* its Buffer.                                                             *)
NewFrame == [at |-> "none", min |-> 0, max |-> 0, exc |-> FALSE,
             timer |-> FALSE, part |-> FALSE]

ClosingStates == {"Closing", "ErrorClosing", "Closed"}

UserPcs == {"timers", "inRead", "inEnd", "inOut", "immediate", "inClose",
            "inRelease"}

(* The handle a frame that waits there is found by. *)
KindOf(at) == IF at = "line" THEN "read" ELSE at

Suspended(f) == frame[f].at \in Kinds \cup {"line"}

(* The convention: nobody else waits for this. *)
Free(kind) == \A f \in Frames : Suspended(f) => KindOf(frame[f].at) # kind

(* await_suspend: initCoroData resets the status and not isException. *)
Wait(f, at, timed) ==
  /\ frame' = [frame EXCEPT ![f].at = at, ![f].timer = timed]
  /\ ahd' = [ahd EXCEPT ![KindOf(at)] = f]

(* closeSocket and errorCloseSocket of a socket with the data d. *)
closeSocket(d, how) ==
  IF d.st \in ClosingStates THEN d ELSE [d EXCEPT !.st = how, !.pending = TRUE]

(* How many of n bytes the operating system takes; -1: it fails. *)
SendResults(n) ==
  CASE net.conn = "up" /\ ~net.fin -> -1 .. n
    [] net.conn = "pending"        -> {0}
    [] OTHER                       -> {-1}

(* Of writeBuffer of the socket with the data d. One cell stays free. *)
remaining_capacity(d) == d.wcap - 1 - d.wbuf

GrownSizesOffByOne(d, n) ==
  {c \in AllocSizes \cup {2 * d.wcap} : c > d.wcap /\ c >= d.wbuf + n}

(* The sizes resize_up_and_append considers and n bytes more fit in: the   *)
(* limit is not looked at for the first of them.                           *)
GrownSizes(d, n) ==
  {c \in AllocSizes \cup {2 * d.wcap} : c > d.wcap /\ c >= d.wbuf + n + 1}

(* writeBuffer.append of n bytes. What does not fit makes it grow; if the  *)
(* limit forbids that, the bytes are dropped, and no caller looks.         *)
append(d, n) ==
  IF n <= remaining_capacity(d) THEN [d EXCEPT !.wbuf = @ + n]
  ELSE IF GrownSizes(d, n) = {} THEN d
  ELSE [d EXCEPT !.wbuf = @ + n, !.wcap = Min(GrownSizes(d, n))]

Shutdown ==
  net' = CASE net.conn = "up"      -> [net EXCEPT !.fin = TRUE]
           [] net.conn = "pending" -> [net EXCEPT !.conn = "none"]
           [] OTHER                -> net

-----------------------------------------------------------------------------
(* Resuming a frame, by the await_resume of the awaiter it waits in.       *)

Stop(line) ==
  failed' = line /\ UNCHANGED <<sock, ahd, need, frame, got>>

(* a_readUntil: what it does with what is in readBuffer. d is the socket,  *)
(* h the handles, r the frame.                                             *)
ReadLine(f, d, h, r) ==
  LET u    == read_ready_data_until(d.rb, LineSize)
      more == u.status = "in_progress"
  IN  /\ frame' = [frame EXCEPT ![f] = [r EXCEPT !.at = IF more THEN "line" ELSE "run",
                                               !.part = more /\ u.out # <<>>]]
      /\ ahd' = IF more THEN [h EXCEPT !.read = f] ELSE h
      /\ need' = IF more THEN 1 ELSE need
      /\ sock' = [d EXCEPT !.rb = u.buff]
      /\ got' = got \o u.out
      /\ UNCHANGED failed

(* a_read: the bytes are taken, and the caller is given at least min. *)
TakeBytes(f, d, h, r) ==
  LET g == get_ready_data(d.rb, r.max)
  IN  IF Len(g.out) >= r.min
      THEN /\ frame' = [frame EXCEPT ![f] = [r EXCEPT !.min = 0, !.max = 0]]
           /\ ahd' = h
           /\ sock' = [d EXCEPT !.rb = g.buff]
           /\ got' = got \o g.out
           /\ UNCHANGED <<need, failed>>
      ELSE Stop("buff.size() >= min_bytes")

Continue(f, d, h, r) ==
  /\ frame' = [frame EXCEPT ![f] = [r EXCEPT !.min = 0, !.max = 0]]
  /\ ahd' = h
  /\ sock' = d
  /\ UNCHANGED <<need, got, failed>>

ResumeKeepingTimer(f, by, d, h, exc) ==
  LET r == [frame[f] EXCEPT !.at = "run", !.exc = @ \/ exc]
  IN  IF ~Suspended(f) \/ (frame[f].at = "line" /\ by # "read")
      THEN Stop("resumed")
      ELSE IF frame[f].at = "line"
      THEN IF exc THEN Continue(f, d, h, [r EXCEPT !.exc = frame[f].exc])
           ELSE IF used_size(d.rb) = 0 THEN Stop("isData")
           ELSE IF frame[f].part THEN Stop("b.size() == 0")
           ELSE ReadLine(f, d, h, r)
      ELSE IF frame[f].at = "read" /\ ~r.exc /\ by # "timer" THEN TakeBytes(f, d, h, r)
      ELSE Continue(f, d, h, r)

(* hr(), after the socket has become d and its handles h: the frame goes   *)
(* on where it waits, with an exception, with a timeout, or well, and its  *)
(* timer is cleared. `by' is the handle, or timer, through which it is     *)
(* resumed, a stale one perhaps. a_readUntil is a frame of its own, which  *)
(* takes isException with it; its caller has no result if another handle   *)
(* resumes it. A frame that has ended is freed memory. Of these two cases  *)
(* nothing more is said.                                                   *)
Resume(f, by, d, h, exc) ==
  LET r == [frame[f] EXCEPT !.at = "run", !.exc = @ \/ exc, !.timer = FALSE]
  IN  IF ~Suspended(f) \/ (frame[f].at = "line" /\ by # "read")
      THEN Stop("resumed")
      ELSE IF frame[f].at = "line"
      THEN IF exc THEN Continue(f, d, h, [r EXCEPT !.exc = frame[f].exc])
           ELSE IF used_size(d.rb) = 0 THEN Stop("isData")
           ELSE IF frame[f].part THEN Stop("b.size() == 0")
           ELSE ReadLine(f, d, h, r)
      ELSE IF frame[f].at = "read" /\ ~r.exc /\ by # "timer" THEN TakeBytes(f, d, h, r)
      ELSE Continue(f, d, h, r)

(* The handle is taken out of its place first: the frame may put another   *)
(* one there before hr() returns.                                          *)
ResumeKind(kind, d, exc) ==
  Resume(ahd[kind], kind, d, [ahd EXCEPT ![kind] = 0], exc)

-----------------------------------------------------------------------------
(* What frames call.                                                       *)

(* A frame that runs, or the next one to start. *)
MayCall(f) ==
  /\ failed = "" /\ loop.pc \in UserPcs
  /\ \/ frame[f].at = "run"
     \/ frame[f].at = "none" /\ \A g \in 1 .. f - 1 : frame[g].at # "none"

GoesOn(f) == frame' = [frame EXCEPT ![f].at = "run"]

(* a_connect, with and without a period *)
a_connect(f, timed) ==
  /\ MayCall(f) /\ sock.st = "Uninitialized" /\ Free("connect")
  /\ sock' = [sock EXCEPT !.st = "Connecting", !.ev = {"IN", "OUT"}]
  /\ net' = [net EXCEPT !.conn = "pending"]
  /\ Wait(f, "connect", timed)
  /\ UNCHANGED <<need, loop, got, handed, failed>>

(* a_read, with and without a period *)
a_read(f, min, max, timed) ==
  /\ MayCall(f) /\ Free("read")
  /\ IF used_size(sock.rb) >= min
     THEN TakeBytes(f, sock, ahd, [frame[f] EXCEPT !.at = "run", !.min = min, !.max = max])
     ELSE /\ frame' = [frame EXCEPT ![f] = [@ EXCEPT !.at = "read", !.min = min,
                          !.max = max, !.timer = timed]]
          /\ ahd' = [ahd EXCEPT !.read = f]
          /\ need' = min
          /\ UNCHANGED <<sock, got, failed>>
  /\ UNCHANGED <<net, loop, handed>>

(* a_readUntil and the a_someDataAvailable it waits in *)
a_readUntil(f) ==
  /\ MayCall(f) /\ Free("read")
  /\ ReadLine(f, sock, ahd, frame[f])
  /\ UNCHANGED <<net, loop, handed>>

(* appWrite2: what is not sent at once is buffered, if there is room, and  *)
(* the frame waits; nothing but the end of the socket resumes it. On an    *)
(* error the socket is closed and the frame waits too.                     *)
appWrite2(f, n) ==
  \/ /\ sock.st \in {"LocalEnding", "LocalEnded"}
     /\ sock' = closeSocket(sock, "ErrorClosing") /\ Wait(f, "write", FALSE)
     /\ UNCHANGED failed
  \/ /\ sock.st \notin {"LocalEnding", "LocalEnded"} /\ sock.wbuf = 0
     /\ \E k \in SendResults(n) :
          \/ k = -1 /\ sock' = closeSocket(sock, "ErrorClosing") /\ Wait(f, "write", FALSE)
          \/ k = n /\ GoesOn(f) /\ UNCHANGED <<sock, ahd>>
          \/ /\ k \in 0 .. n - 1
             /\ sock' = [append(sock, n - k) EXCEPT !.ev = @ \cup {"OUT"}]
             /\ Wait(f, "write", FALSE)
     /\ UNCHANGED failed
  \/ /\ sock.st \notin {"LocalEnding", "LocalEnded"} /\ sock.wbuf > 0
     /\ IF n <= remaining_capacity(sock)
        THEN /\ sock' = append(sock, n)
             /\ GoesOn(f) /\ UNCHANGED <<ahd, failed>>
        ELSE IF sock.rest > 0
        THEN failed' = "ahd_write.b.size() == 0" /\ UNCHANGED <<sock, frame, ahd>>
        ELSE /\ sock' = [sock EXCEPT !.rest = n]
             /\ Wait(f, "write", FALSE) /\ UNCHANGED failed

a_write(f, n) ==
  /\ MayCall(f) /\ Free("write")
  /\ IF ahd.write # 0 /\ frame[ahd.write].exc
     THEN failed' = "should not be set yet" /\ UNCHANGED <<sock, ahd, frame>>
     ELSE appWrite2(f, n)
  /\ UNCHANGED <<need, net, loop, got, handed>>

(* write of n bytes, which does not wait: appWrite *)
write(f, n) ==
  /\ MayCall(f) /\ GoesOn(f)
  /\ \/ /\ sock.st \in {"LocalEnding", "LocalEnded"}
        /\ sock' = closeSocket(sock, "ErrorClosing")
     \/ /\ sock.st \notin {"LocalEnding", "LocalEnded"} /\ sock.wbuf = 0
        /\ \E k \in SendResults(n) :
             \/ k = -1 /\ sock' = closeSocket(sock, "ErrorClosing")
             \/ k = n /\ UNCHANGED sock
             \/ /\ k \in 0 .. n - 1
                /\ sock' = [append(sock, n - k) EXCEPT !.ev = @ \cup {"OUT"}]
     \/ /\ sock.st \notin {"LocalEnding", "LocalEnded"} /\ sock.wbuf > 0
        /\ sock' = append(sock, n)
  /\ UNCHANGED <<ahd, need, net, loop, got, handed, failed>>

(* a_drain, with and without a period *)
a_drain(f, timed) ==
  /\ MayCall(f) /\ Free("drain")
  /\ IF sock.wbuf = 0 THEN GoesOn(f) /\ UNCHANGED ahd
     ELSE Wait(f, "drain", timed)
  /\ UNCHANGED <<sock, need, net, loop, got, handed, failed>>

(* appEnd *)
end(f) ==
  /\ MayCall(f) /\ GoesOn(f)
  /\ IF sock.wbuf > 0
     THEN sock' = [sock EXCEPT !.st = "LocalEnding"] /\ UNCHANGED net
     ELSE /\ Shutdown
          /\ IF sock.rend THEN sock' = closeSocket(sock, "Closing")
             ELSE sock' = [sock EXCEPT !.st = "LocalEnded"]
  /\ UNCHANGED <<ahd, need, loop, got, handed, failed>>

(* appDestroy *)
destroy(f) ==
  /\ MayCall(f) /\ GoesOn(f)
  /\ sock' = closeSocket(sock, "Closing")
  /\ UNCHANGED <<ahd, need, net, loop, got, handed, failed>>

UserCode ==
  /\ calls < MaxCalls
  /\ calls' = calls + 1
  /\ \E f \in Frames :
       \/ \E timed \in BOOLEAN : a_connect(f, timed)
       \/ /\ sock.st # "Uninitialized"
          /\ \/ \E timed \in BOOLEAN : a_drain(f, timed)
             \/ \E p \in ReadCalls : a_read(f, p[1], p[2], p[3])
             \/ a_readUntil(f) \/ end(f) \/ destroy(f)
             \/ \E n \in WriteSizes : a_write(f, n) \/ write(f, n)

-----------------------------------------------------------------------------
(* The other side, and the network. Handlers see it only through what      *)
(* sending returns, and poll() has seen the rest: between poll() and the   *)
(* read it asks for only a reset makes a difference.                       *)
Network ==
  /\ failed = ""
  /\ \/ /\ loop.pc \in {"timers", "in"} /\ net.conn = "up"
        /\ net' = [net EXCEPT !.conn = "err"]
     \/ /\ loop.pc = "timers" /\ net.conn = "pending"
        /\ \E to \in {"up", "err"} : net' = [net EXCEPT !.conn = to]
     \/ /\ loop.pc = "timers" /\ net.conn = "up" /\ ~net.pfin
        /\ \/ net' = [net EXCEPT !.pfin = TRUE]
           \/ \E n \in Segments : /\ net.sent + n <= MaxBytes
                                 /\ net' = [net EXCEPT !.sent = @ + n]
  /\ UNCHANGED <<sock, ahd, need, frame, loop, got, handed, calls, failed>>

(* The bytes that wait in the operating system. *)
Waiting == [i \in 1 .. net.sent - net.taken |-> net.taken + i]

(* revents of the socket *)
Ready ==
  CASE net.conn = "up" ->
         (IF Waiting # <<>> \/ net.pfin THEN sock.ev ELSE sock.ev \ {"IN"})
           \cup (IF net.pfin /\ net.fin THEN {"HUP"} ELSE {})
    [] net.conn = "none" /\ sock.st # "Uninitialized" ->
         {"HUP"} \cup (sock.ev \cap {"OUT"})
    [] net.conn = "err"  -> {"ERR"}
    [] OTHER             -> {}

-----------------------------------------------------------------------------
(* The loop.                                                               *)

(* A handler returns to what called it: the frames that still run end. *)
Ended == [f \in Frames |-> IF frame[f].at = "run"
                           THEN [NewFrame EXCEPT !.at = "ended"] ELSE frame[f]]

Goto(pc) == loop' = [loop EXCEPT !.pc = pc, !.rev = IF pc \in {"inRead", "inEnd", "out"}
                                                 THEN @ ELSE {}]

(* infraTimeoutEvents: the period of a frame is over. Its handle stays in  *)
(* the socket. (Handlers of other timers run here too, and call.)          *)
ActionTimeout(f) ==
  /\ failed = "" /\ loop.pc = "timers"
  /\ \A g \in Frames : frame[g].at # "run"
  /\ frame[f].timer
  /\ Resume(f, "timer", sock, ahd, FALSE)
  /\ UNCHANGED <<net, loop, handed>>

(* poll() returns with what is ready; a full send buffer hides POLLOUT. *)
Poll ==
  /\ failed = "" /\ loop.pc = "timers"
  /\ \E full \in BOOLEAN :
       LET rev == IF full THEN Ready \ {"OUT"} ELSE Ready
       IN  /\ full => sock.wbuf > 0 /\ sock.st # "Connecting"
           /\ rev # {}
           /\ loop' = [loop EXCEPT !.pc = "in", !.rev = rev]
  /\ frame' = Ended
  /\ UNCHANGED <<sock, ahd, need, net, got, handed, failed>>

(* poll() returns because a timer is due. *)
PollTimeout ==
  /\ failed = "" /\ loop.pc = "timers"
  /\ Ready \ {"OUT"} = {}
  /\ \E f \in Frames : frame[f].timer
  /\ loop' = [loop EXCEPT !.pc = "in", !.rev = {}]
  /\ frame' = Ended
  /\ UNCHANGED <<sock, ahd, need, net, got, handed, failed>>

(* infraProcessRemoteEnded, up to the handlers of the end event. *)
RemoteEnded ==
  IF sock.rend THEN UNCHANGED sock /\ Goto("out")
  ELSE /\ sock' = [sock EXCEPT !.ev = @ \ {"IN"}, !.rend = TRUE]
       /\ Goto("inEnd")

ReadEventOffByOne ==
  IF FirstRead(sock.rb) = 0
  THEN Stop("buffSz != 0") /\ UNCHANGED <<net, loop>>
  ELSE \E r \in {read(sock.rb, Waiting, need)} :
         LET d     == [sock EXCEPT !.rb = r.buff]
             total == used_size(r.buff)
         IN  /\ net' = [net EXCEPT !.taken = @ + r.taken]
             /\ IF r.taken > 0 /\ total <= need
                THEN /\ sock' = d /\ Goto("out")
                     /\ UNCHANGED <<ahd, need, frame, got, failed>>
                ELSE /\ ResumeKind("read", d, total < need)
                     /\ loop' = [loop EXCEPT !.pc = "inRead", !.ended = r.taken = 0]

(* infraProcessReadEvent with a waiting frame: it is resumed once there is *)
(* what it waits for, and with an exception when no more will come.        *)
CoroutineReadEvent ==
  IF FirstRead(sock.rb) = 0
  THEN Stop("buffSz != 0") /\ UNCHANGED <<net, loop>>
  ELSE \E r \in {read(sock.rb, Waiting, need)} :
         LET d     == [sock EXCEPT !.rb = r.buff]
             total == used_size(r.buff)
         IN  /\ net' = [net EXCEPT !.taken = @ + r.taken]
             /\ IF r.taken > 0 /\ total < need
                THEN /\ sock' = d /\ Goto("out")
                     /\ UNCHANGED <<ahd, need, frame, got, failed>>
                ELSE /\ ResumeKind("read", d, total < need)
                     /\ loop' = [loop EXCEPT !.pc = "inRead", !.ended = r.taken = 0]

(* infraProcessReadEvent without one: the data handlers get the bytes. *)
HandlerReadEvent ==
  /\ IF Waiting # <<>>
     THEN /\ net' = [net EXCEPT !.taken = net.sent]
          /\ handed' = handed \cup Range(Waiting)
          /\ Goto("inRead")
          /\ UNCHANGED sock
     ELSE RemoteEnded /\ UNCHANGED <<net, handed>>
  /\ UNCHANGED <<ahd, need, frame, got, failed>>

(* A read that fails: errorCloseSocket, and an exception for the waiting   *)
(* frame.                                                                  *)
ReadFails ==
  LET d == closeSocket(sock, "ErrorClosing")
  IN  IF ahd.read # 0
      THEN ResumeKind("read", d, TRUE) /\ Goto("inRead")
      ELSE /\ sock' = d /\ Goto("out")
           /\ UNCHANGED <<ahd, need, frame, got, failed>>

(* infraCheckPollFdSet, up to POLLOUT *)
InputEvent ==
  /\ failed = "" /\ loop.pc = "in"
  /\ \/ /\ "ERR" \in loop.rev
        /\ sock' = closeSocket(sock, "ErrorClosing") /\ Goto("immediate")
        /\ UNCHANGED <<ahd, need, frame, net, got, handed, failed>>
     \/ /\ loop.rev \cap {"IN", "ERR"} = {"IN"}
        /\ \/ net.conn = "up" /\ ahd.read # 0 /\ CoroutineReadEvent /\ UNCHANGED handed
           \/ net.conn = "up" /\ ahd.read = 0 /\ HandlerReadEvent
           \/ net.conn # "up" /\ ReadFails /\ UNCHANGED <<net, handed>>
     \/ /\ loop.rev \cap {"HUP", "IN", "ERR"} = {"HUP"}
        /\ RemoteEnded
        /\ UNCHANGED <<ahd, need, frame, net, got, handed, failed>>
     \/ /\ loop.rev \subseteq {"OUT"}
        /\ Goto("out")
        /\ UNCHANGED <<sock, ahd, need, frame, net, got, handed, failed>>

ClearedAfterResuming ==
  /\ failed = "" /\ loop.pc = "inRead"
  /\ frame' = Ended
  /\ ahd' = [ahd EXCEPT !.read = 0]
  /\ IF loop.ended /\ ~sock.rend
     THEN /\ sock' = [sock EXCEPT !.ev = @ \ {"IN"}, !.rend = TRUE]
          /\ loop' = [loop EXCEPT !.pc = "inEnd", !.ended = FALSE]
     ELSE UNCHANGED sock /\ loop' = [loop EXCEPT !.pc = "out", !.ended = FALSE]
  /\ UNCHANGED <<need, net, got, handed, failed>>

(* hr() or the data handlers return to infraProcessReadEvent. *)
ReadHandled ==
  /\ failed = "" /\ loop.pc = "inRead"
  /\ frame' = Ended
  /\ IF loop.ended /\ ~sock.rend
     THEN /\ sock' = [sock EXCEPT !.ev = @ \ {"IN"}, !.rend = TRUE]
          /\ loop' = [loop EXCEPT !.pc = "inEnd", !.ended = FALSE]
     ELSE UNCHANGED sock /\ loop' = [loop EXCEPT !.pc = "out", !.ended = FALSE]
  /\ UNCHANGED <<ahd, need, net, got, handed, failed>>

(* The handlers of the end event return to infraProcessRemoteEnded. *)
EndHandled ==
  /\ failed = "" /\ loop.pc = "inEnd"
  /\ frame' = Ended
  /\ \/ sock.st = "LocalEnded" /\ sock' = closeSocket(sock, "Closing") /\ UNCHANGED net
     \/ sock.st = "LocalEnding" /\ UNCHANGED <<sock, net>>
     \/ /\ sock.st \notin {"LocalEnded", "LocalEnding"} /\ sock.wbuf > 0
        /\ sock' = [sock EXCEPT !.st = "LocalEnding"]
        /\ UNCHANGED net
     \/ /\ sock.st \notin {"LocalEnded", "LocalEnding"} /\ sock.wbuf = 0
        /\ Shutdown
        /\ sock' = closeSocket([sock EXCEPT !.st = "LocalEnded"], "Closing")
  /\ Goto("out")
  /\ UNCHANGED <<ahd, need, got, handed, failed>>

(* rrOnConnected and rrOnDrain: a frame that waits for it, or the handlers *)
Out(kind, d) ==
  /\ IF ahd[kind] # 0 THEN ResumeKind(kind, d, FALSE)
     ELSE sock' = d /\ UNCHANGED <<ahd, need, frame, got, failed>>
  /\ Goto("inOut")

(* _infraProcessWriteEvent: writeBuffer is empty, and so is ahd_write.b or *)
(* it could not be sent (bad).                                             *)
AllSent(bad) ==
  LET d == [sock EXCEPT !.wbuf = 0, !.rest = IF bad THEN @ ELSE 0,
                        !.ev = @ \ {"OUT"}]
  IN  IF bad
      THEN Out("drain", closeSocket(d, "ErrorClosing")) /\ UNCHANGED net
      ELSE IF d.st # "LocalEnding" THEN Out("drain", d) /\ UNCHANGED net
      ELSE /\ Shutdown
           /\ Out("drain", IF d.rend THEN closeSocket(d, "Closing")
                           ELSE [d EXCEPT !.st = "LocalEnded"])

(* _infraProcessWriteEvent: writeBuffer is empty, ahd_write.b is next. If  *)
(* a part of it is sent, nothing is noted.                                 *)
RestNext ==
  \E k \in SendResults(sock.rest) :
    \/ k = -1 /\ AllSent(TRUE)
    \/ k = sock.rest /\ AllSent(FALSE)
    \/ /\ k \in 0 .. sock.rest - 1
       /\ sock' = [sock EXCEPT !.wbuf = 0]
       /\ Goto("immediate")
       /\ UNCHANGED <<ahd, need, frame, net, got, failed>>

Nothing(d) ==
  /\ sock' = d
  /\ Goto("immediate")
  /\ UNCHANGED <<ahd, need, frame, net, got, failed>>

(* infraProcessWriteEvent *)
WriteEvent ==
  /\ failed = "" /\ loop.pc = "out"
  /\ \/ "OUT" \notin loop.rev /\ Nothing(sock)
     \/ /\ "OUT" \in loop.rev /\ sock.st = "Connecting"
        /\ IF net.conn = "err"
           THEN Nothing(closeSocket(sock, "ErrorClosing"))
           ELSE IF sock.wbuf > 0 THEN Stop("writeBuffer.empty()") /\ UNCHANGED <<net, loop>>
           ELSE /\ Out("connect", [sock EXCEPT !.st = "Connected", !.ev = @ \ {"OUT"}])
                /\ UNCHANGED net
     \/ /\ "OUT" \in loop.rev /\ sock.st # "Connecting" /\ sock.wbuf > 0
        /\ \E k \in SendResults(sock.wbuf) :
             \/ /\ k = -1
                /\ Nothing(closeSocket(sock, "ErrorClosing"))
             \/ k = sock.wbuf /\ IF sock.rest > 0 THEN RestNext ELSE AllSent(FALSE)
             \/ /\ k \in 0 .. sock.wbuf - 1
                /\ IF k < sock.wbuf - k THEN Nothing([sock EXCEPT !.wbuf = @ - k])
                   ELSE Stop("sentSize < used_size()") /\ UNCHANGED <<net, loop>>
     \/ /\ "OUT" \in loop.rev /\ sock.st # "Connecting" /\ sock.wbuf = 0
        /\ Stop("Not supported yet!") /\ UNCHANGED <<net, loop>>
  /\ UNCHANGED handed

(* hr() or the handlers of the connect or drain event return. *)
OutHandled ==
  /\ failed = "" /\ loop.pc = "inOut"
  /\ frame' = Ended
  /\ Goto("immediate")
  /\ UNCHANGED <<sock, ahd, need, net, got, handed, failed>>

(* emitInmediates is done. infraGetCloseEvent closes the socket if that is *)
(* pending and the entry is used, and calls the handlers.                  *)
ImmediatesDone ==
  /\ failed = "" /\ loop.pc = "immediate"
  /\ frame' = Ended
  /\ IF sock.pending /\ sock.used
     THEN /\ sock' = [sock EXCEPT !.ev = {}]
          /\ net' = [net EXCEPT !.conn = "closed"]
          /\ Goto("inClose")
     ELSE /\ sock' = [sock EXCEPT !.pending = FALSE]
          /\ Goto("timers")
          /\ UNCHANGED net
  /\ UNCHANGED <<ahd, need, got, handed, failed>>

(* The error and close handlers return: onFinalCleanup. *)
CloseHandled ==
  /\ failed = "" /\ loop.pc = "inClose"
  /\ frame' = Ended
  /\ sock' = [sock EXCEPT !.st = "Closed"]
  /\ loop' = [loop EXCEPT !.pc = "release",
                          !.left = <<"connect", "read", "write", "drain">>]
  /\ UNCHANGED <<ahd, need, net, got, handed, failed>>

(* The i-th of the handles still to be released is set. *)
Held(i) == ahd[loop.left[i]] # 0

(* forceReleasingAllCoroHandles: one handle after the other is resumed     *)
(* with an exception.                                                      *)
Release ==
  /\ failed = "" /\ loop.pc = "release"
  /\ \E i \in DOMAIN loop.left :
       /\ Held(i) /\ \A j \in 1 .. i - 1 : ~Held(j)
       /\ loop' = [loop EXCEPT !.pc = "inRelease", !.left = SubSeq(@, i + 1, Len(@))]
       /\ ResumeKind(loop.left[i], sock, TRUE)
  /\ UNCHANGED <<net, handed>>

ReleaseHandled ==
  /\ failed = "" /\ loop.pc = "inRelease"
  /\ frame' = Ended
  /\ Goto("release")
  /\ UNCHANGED <<sock, ahd, need, net, got, handed, failed>>

(* The entry is reset, and pendingCloseEvents cleared. *)
Released ==
  /\ failed = "" /\ loop.pc = "release"
  /\ \A i \in DOMAIN loop.left : ~Held(i)
  /\ sock' = [sock EXCEPT !.used = FALSE, !.pending = FALSE]
  /\ loop' = [loop EXCEPT !.pc = "timers", !.left = <<>>]
  /\ UNCHANGED <<ahd, need, frame, net, got, handed, failed>>

Init ==
  /\ sock = [st |-> "Uninitialized", rend |-> FALSE, rb |-> EmptyBuffer,
             wbuf |-> 0, wcap |-> 2 ^ WriteExp, rest |-> 0, ev |-> {},
             pending |-> FALSE, used |-> TRUE]
  /\ ahd = [k \in Kinds |-> 0]
  /\ need = 0
  /\ frame = [f \in Frames |-> NewFrame]
  /\ net = [conn |-> "none", sent |-> 0, taken |-> 0, pfin |-> FALSE, fin |-> FALSE]
  /\ loop = [pc |-> "timers", rev |-> {}, ended |-> FALSE, left |-> <<>>]
  /\ got = <<>> /\ handed = {}
  /\ calls = 0
  /\ failed = ""

LoopStep ==
  /\ \/ Poll \/ InputEvent \/ ReadHandled \/ EndHandled
     \/ WriteEvent \/ OutHandled \/ ImmediatesDone \/ CloseHandled
     \/ Release \/ ReleaseHandled \/ Released
  /\ UNCHANGED calls

Timers ==
  /\ PollTimeout \/ \E f \in Frames : ActionTimeout(f)
  /\ UNCHANGED calls

Next == UserCode \/ Network \/ LoopStep \/ Timers

Spec == Init /\ [][Next]_vars

(* The loop runs, handlers return, and poll() reports what is ready. *)
FairSpec == Spec /\ WF_vars(LoopStep)

-----------------------------------------------------------------------------
States == {"Uninitialized", "Connecting", "Connected", "LocalEnding",
           "LocalEnded"} \cup ClosingStates

(* The variables have the shapes of what they stand for; the offsets of    *)
(* the ring that is read into stay inside its memory, and the one that is  *)
(* written from, which grows when more is appended than fits, keeps a free *)
(* cell, or it would pass for empty.                                       *)
TypeOK ==
  /\ sock.st \in States /\ sock.ev \subseteq {"IN", "OUT"}
  /\ sock.rend \in BOOLEAN /\ sock.pending \in BOOLEAN /\ sock.used \in BOOLEAN
  /\ sock.rb \in [m : [0 .. alloc_size - 1 -> 0 .. MaxBytes],
                  b : 0 .. alloc_size - 1, e : 0 .. alloc_size - 1]
  /\ sock.wcap \in Nat /\ sock.wbuf \in 0 .. sock.wcap - 1
  /\ sock.rest \in WriteSizes \cup {0}
  /\ ahd \in [Kinds -> 0 .. NFrames]
  /\ frame \in [Frames -> [at : Kinds \cup {"none", "run", "ended", "line"},
                  min : Nat, max : Nat, exc : BOOLEAN, timer : BOOLEAN,
                  part : BOOLEAN]]
  /\ loop.pc \in UserPcs \cup {"in", "out", "release"}

(* What coroutines read is the stream: the bytes they have been given and  *)
(* those in readBuffer are in the order sent, each once, and with those    *)
(* the data handlers took they are all that was received. Turning around   *)
(* in the ring (get_ready_data, read_ready_data_until, read) loses and     *)
(* repeats nothing.                                                        *)
BytesAccounted ==
  failed = "" =>
  LET s == got \o Contents(sock.rb)
  IN  /\ \A i \in 1 .. Len(s) - 1 : s[i] < s[i + 1]
      /\ \A i \in 1 .. Len(s) : s[i] \notin handed
      /\ Range(s) \cup handed = 1 .. net.taken

(* A frame that waits can be found: its handle is in the place whoever     *)
(* resumes it will look. A handle is taken out before the frame runs, so   *)
(* that what the frame waits for next is not wiped out when it returns.    *)
WaitingIsRegistered ==
  \A f \in Frames : Suspended(f) => ahd[KindOf(frame[f].at)] = f

(* The timer of an awaiter with a period is armed only while its frame     *)
(* waits there: await_resume clears it, whatever resumed the frame.        *)
TimerOnlyWhileWaiting ==
  \A f \in Frames : frame[f].timer => frame[f].at \in {"connect", "read", "drain"}

(* A frame in a_read is served: once the bytes it waits for have come, or  *)
(* the other side has ended the connection, which is not reported yet,    *)
(* or the connection is reset, it is resumed. (One that starts to wait     *)
(* while, or after, the end is reported waits for the close.)              *)
ReaderServed ==
  (/\ sock.used
   /\ \E f \in Frames :
        /\ frame[f].at = "read"
        /\ \/ net.conn = "err"
           \/ /\ net.conn = "up" /\ ~sock.rend /\ ~loop.ended
              /\ \/ used_size(sock.rb) + Len(Waiting) >= frame[f].min
                 \/ net.pfin)
  ~> (failed # "" \/ \A f \in Frames : frame[f].at # "read")

(* read_ready_data_until asserts that it starts with an empty Buffer, so   *)
(* a_readUntil relies on finding no line in two pieces.                    *)
LineBufferEmpty == failed # "b.size() == 0"

=============================================================================
