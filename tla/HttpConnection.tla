--------------------------- MODULE HttpConnection ---------------------------
(***************************************************************************)
(* One connection of the HTTP server: HttpSocketBase with its queue of     *)
(* request and response pairs and the coroutine run() that reads requests, *)
(* HttpServerResponse, and the handing over of requests by HttpServerBase. *)
(*                                                                         *)
(* The socket below is what CoroutineSocket shows it to be: a read gives   *)
(* run() the waiting bytes if it waits for them and the data handlers if   *)
(* not; a write is complete at once, or its coroutine waits until the      *)
(* socket is closed and gets an exception. Bytes are lines here, and each  *)
(* arrives whole.                                                          *)
(*                                                                         *)
(* Everything that runs on the stack of run() or of a release runs to its  *)
(* end before the loop goes on: run.at and todo say what is on it. User    *)
(* code runs inside onNewRequest and, for answers given later, between the *)
(* events of the loop.                                                     *)
(***************************************************************************)
EXTENDS Integers, Sequences, FiniteSetsExt

CONSTANTS
  SizeExps,  \* values of the template parameter sizeExp; the code uses 0
  MaxLines,  \* bound: lines the client sends
  MaxCalls   \* bound: calls user code makes

(* The last conjunct holds of any set of natural numbers; it is stated for *)
(* the proofs, whose provers know nothing about powers.                    *)
ASSUME HttpAssumption ==
  /\ SizeExps \subseteq Nat /\ MaxLines \in Nat /\ MaxCalls \in Nat
  /\ \A e \in SizeExps : 2 ^ e \in Nat \ {0}

(* A request line, a header entry, the empty line, and anything else. *)
Lines == {"method", "entry", "empty", "other"}

VARIABLES
  q,       \* RRQueue: exp, head, tail, and idx and active of each pair
  msg,     \* the pairs: readStatus of the request; writeStatus of the response
           \* and what is set in it, its status line and its headers
  job,     \* for each pair, the call of its response that waits in a_write
  run,     \* the coroutine run(): where it is, in which part of getRequest, and
           \* its pair
  held,    \* the pairs user code has been given and may answer
  server,  \* whether it has a handler; ahd_request: h, and the pair last put
           \* there; the coroutine that calls a_request, and its timer
  conn,    \* the socket: st, the lines waiting, readBuffer, the client's FIN,
           \* and whether it has been seen
  writer,  \* ahd_write.h, as the pair whose call waits; NoPair is nullptr
  todo,    \* what is left on the stack of a release: <<what, pair>>, or <<>>
  count,   \* how many lines were sent and calls made
  astray,  \* history: a write has thrown, or a_request has timed out
  failed   \* the assertion that ended the program

vars == <<q, msg, job, run, held, server, conn, writer, todo, count, astray, failed>>

Capacity == 2 ^ q.exp
Pairs == 0 .. Capacity - 1
NoPair == -1

(* A pair as RRQueue::init makes it. *)
NewMessage == [req |-> "noinit", ws |-> "notyet", set |-> {}]

(* HttpServerResponse::clear *)
ClearResponse(m) == [m EXCEPT !.ws = "notyet", !.set = {}]

(* IncomingHttpMessageAtServer::clear *)
ClearRequest(m) == [m EXCEPT !.req = "noinit"]

-----------------------------------------------------------------------------
(* RRQueue                                                                 *)

CanPushOneMore(r) == r.head - r.tail <= 2 ^ r.exp

canPush(r) == r.head - r.tail < 2 ^ r.exp

getHead(r) ==
  LET p == r.head % 2 ^ r.exp
  IN  [r EXCEPT !.active[p] = TRUE, !.idx[p] = r.head, !.head = @ + 1]

(* What release asserts of its argument. *)
CanRelease(r, i) == i >= r.tail /\ i < r.head

ReleaseOneOnly(r, i) ==
  LET a == [r.active EXCEPT ![i % 2 ^ r.exp] = FALSE]
  IN  [r EXCEPT !.active = a, !.tail = IF i = r.tail THEN @ + 1 ELSE @]

(* release: the pair is free; if it was the oldest, so are those after it  *)
(* that have been released already.                                        *)
release(r, i) ==
  LET a    == [r.active EXCEPT ![i % 2 ^ r.exp] = FALSE]
      busy == {k \in i + 1 .. r.head - 1 : a[k % 2 ^ r.exp]}
  IN  [r EXCEPT !.active = a,
                !.tail = IF i = r.tail THEN Min(busy \cup {r.head}) ELSE @]

-----------------------------------------------------------------------------
(* run()                                                                   *)

Suspended == run.at \in {"read", "continue", "ended"}

(* The loop of events runs: nothing is left on the stack. *)
Idle == failed = "" /\ Suspended /\ todo = <<>>

(* The head of the loop of run(): the next pair. r is the queue. *)
NextPair(r) ==
  IF canPush(r)
  THEN /\ q' = getHead(r)
       /\ run' = [at |-> "parse", stage |-> "method", pair |-> r.head % Capacity]
       /\ UNCHANGED failed
  ELSE failed' = "canPush()" /\ q' = r /\ UNCHANGED run

(* proceedToNext, after the queue has become r: run() is resumed where it  *)
(* waits in a_continueGetting.                                             *)
proceedToNext(r) ==
  IF canPush(r) /\ run.at = "continue"
  THEN NextPair(r)
  ELSE q' = r /\ UNCHANGED <<run, failed>>

(* readLine finds no line in readBuffer, and waits. *)
ReadLineWaits ==
  /\ failed = "" /\ run.at = "parse" /\ conn.rb = <<>>
  /\ run' = [run EXCEPT !.at = "read"]
  /\ UNCHANGED <<q, msg, job, held, server, conn, writer, todo, count, astray, failed>>

(* SocketBase::end: once the client has ended too, the socket is closing. *)
EndOf(c) ==
  [c EXCEPT !.st = IF @ # "open" THEN @ ELSE IF c.rend THEN "closing" ELSE "ended"]

(* getRequest does not return ok: run() ends the socket, and itself. *)
RequestBad(c) ==
  /\ conn' = EndOf(c)
  /\ run' = [run EXCEPT !.at = "ended"]
  /\ UNCHANGED <<msg, held, server, failed>>

(* onNewRequest: the coroutine in a_request gets the pair, else a handler  *)
(* or the listeners, else nobody.                                          *)
onNewRequest ==
  IF server.h
  THEN /\ server' = [server EXCEPT !.h = FALSE, !.pair = run.pair, !.at = "run",
                                   !.timer = FALSE]
       /\ held' = held \cup {run.pair}
       /\ failed' = IF server.at = "wait" THEN "" ELSE "resumed while not waiting"
  ELSE /\ held' = IF server.handler THEN held \cup {run.pair} ELSE held
       /\ UNCHANGED <<server, failed>>

(* parseMethod of the line readLine returns. *)
GetMethod ==
  /\ failed = "" /\ run.at = "parse" /\ run.stage = "method" /\ conn.rb # <<>>
  /\ LET c == [conn EXCEPT !.rb = Tail(@)]
     IN  \/ /\ msg[run.pair].req # "noinit"
            /\ failed' = "readStatus == ReadStatus::noinit"
            /\ UNCHANGED <<msg, run, held, server, conn>>
         \/ msg[run.pair].req = "noinit" /\ Head(conn.rb) # "method" /\ RequestBad(c)
         \/ /\ msg[run.pair].req = "noinit" /\ Head(conn.rb) = "method"
            /\ msg' = [msg EXCEPT ![run.pair].req = "in_hdr"]
            /\ run' = [run EXCEPT !.stage = "header"]
            /\ conn' = c
            /\ UNCHANGED <<held, server, failed>>
  /\ UNCHANGED <<q, job, writer, todo, count, astray>>

(* parseHeaderEntry of the line readLine returns. Whatever the headers say *)
(* contentLength is 0, so that the empty line completes the request.       *)
GetHeader ==
  /\ failed = "" /\ run.at = "parse" /\ run.stage = "header" /\ conn.rb # <<>>
  /\ LET c == [conn EXCEPT !.rb = Tail(@)]
     IN  \/ /\ msg[run.pair].req # "in_hdr"
            /\ failed' = "readStatus == ReadStatus::in_hdr"
            /\ UNCHANGED <<msg, run, held, server, conn>>
         \/ /\ msg[run.pair].req = "in_hdr" /\ Head(conn.rb) = "entry"
            /\ conn' = c
            /\ UNCHANGED <<msg, run, held, server, failed>>
         \/ /\ msg[run.pair].req = "in_hdr" /\ Head(conn.rb) = "empty"
            /\ msg' = [msg EXCEPT ![run.pair].req = "completed"]
            /\ run' = [run EXCEPT !.at = "handler"]
            /\ conn' = c
            /\ onNewRequest
         \/ /\ msg[run.pair].req = "in_hdr" /\ Head(conn.rb) \in {"method", "other"}
            /\ RequestBad(c)
  /\ UNCHANGED <<q, job, writer, todo, count, astray>>

(* onNewRequest returns to run(), which goes on or waits for room. *)
HandlerReturns ==
  /\ failed = "" /\ run.at = "handler"
  /\ IF canPush(q) THEN NextPair(q)
     ELSE run' = [run EXCEPT !.at = "continue"] /\ UNCHANGED <<q, failed>>
  /\ UNCHANGED <<msg, job, held, server, conn, writer, todo, count, astray>>

-----------------------------------------------------------------------------
(* HttpServerResponse, called by user code                                 *)

(* User code runs inside onNewRequest, and between the events until the    *)
(* socket object is destroyed with its connection.                         *)
UserRuns ==
  /\ failed = "" /\ count.calls < MaxCalls
  /\ run.at = "handler" \/ (Idle /\ conn.st # "closed")

Called == count' = [count EXCEPT !.calls = @ + 1]

(* writeHead and setStatus *)
writeHead(p) ==
  /\ UserRuns /\ p \in held /\ Called
  /\ msg' = [msg EXCEPT ![p].set = @ \cup {"status"}]
  /\ UNCHANGED <<q, job, run, held, server, conn, writer, todo, astray, failed>>

addHeader(p) ==
  /\ UserRuns /\ p \in held /\ Called
  /\ IF msg[p].ws = "notyet"
     THEN msg' = [msg EXCEPT ![p].set = @ \cup {"headers"}] /\ UNCHANGED failed
     ELSE failed' = "writeStatus == WriteStatus::notyet" /\ UNCHANGED msg
  /\ UNCHANGED <<q, job, run, held, server, conn, writer, todo, astray>>

serializeHeaders(m) ==
  IF m.ws = "notyet" THEN [m EXCEPT !.ws = "hdr_serialized", !.set = @ \ {"headers"}] ELSE m

FinishKeepingRequest(p, m) ==
  /\ msg' = [msg EXCEPT ![p] = ClearResponse(m)]
  /\ IF CanRelease(q, q.idx[p])
     THEN proceedToNext(release(q, q.idx[p]))
     ELSE failed' = "idx >= tail" /\ UNCHANGED <<q, run>>

FinishNotProceeding(p, m) ==
  /\ msg' = [msg EXCEPT ![p] = ClearResponse(ClearRequest(m))]
  /\ IF CanRelease(q, q.idx[p])
     THEN q' = release(q, q.idx[p]) /\ UNCHANGED <<run, failed>>
     ELSE failed' = "idx >= tail" /\ UNCHANGED <<q, run>>

(* What end() does when the response has been written. The connection is   *)
(* kept: connStatus of the response is never set.                          *)
Finish(p, m) ==
  /\ msg' = [msg EXCEPT ![p] = ClearResponse(ClearRequest(m))]
  /\ IF CanRelease(q, q.idx[p])
     THEN proceedToNext(release(q, q.idx[p]))
     ELSE failed' = "idx >= tail" /\ UNCHANGED <<q, run>>

(* Call j of the response of pair p, which has become m, waits in a_write. *)
(* After end() the socket takes no data and is closed for the error.       *)
Waits(p, j, m) ==
  /\ msg' = [msg EXCEPT ![p] = m]
  /\ job' = [job EXCEPT ![p] = j]
  /\ held' = held \ {p}
  /\ writer' = p
  /\ conn' = IF conn.st = "ended" THEN [conn EXCEPT !.st = "closing"] ELSE conn
  /\ UNCHANGED <<q, run, failed>>

(* co_await sock->a_write(...): the data is sent and Sent holds, or the    *)
(* call waits.                                                             *)
Writes(p, j, m, Sent) ==
  \/ conn.st # "ended" /\ Sent /\ UNCHANGED <<job, conn, writer>>
  \/ Waits(p, j, m)

Stop(a) == failed' = a /\ UNCHANGED <<q, msg, job, run, held, conn, writer>>

flushHeaders(p) ==
  /\ UserRuns /\ p \in held /\ Called
  /\ LET m == serializeHeaders(msg[p])
     IN  IF m.ws # "hdr_serialized" THEN Stop("writeStatus == WriteStatus::hdr_serialized")
         ELSE Writes(p, "flushHeaders", m,
                     /\ msg' = [msg EXCEPT ![p] = [m EXCEPT !.ws = "hdr_flushed"]]
                     /\ UNCHANGED <<q, run, held, failed>>)
  /\ UNCHANGED <<server, todo, astray>>

CanWriteBody(m) == m.ws \in {"hdr_serialized", "hdr_flushed"}

writeBodyPart(p) ==
  /\ UserRuns /\ p \in held /\ Called
  /\ LET m == serializeHeaders(msg[p])
     IN  IF ~CanWriteBody(m) THEN Stop("writeStatus == WriteStatus::hdr_flushed")
         ELSE Writes(p, "writeBodyPart", m,
                     /\ msg' = [msg EXCEPT ![p] = [m EXCEPT !.ws = "in_body"]]
                     /\ UNCHANGED <<q, run, held, failed>>)
  /\ UNCHANGED <<server, todo, astray>>

(* end(b), and the forms that make a Buffer of their argument *)
endWith(p) ==
  /\ UserRuns /\ p \in held /\ Called
  /\ LET m == serializeHeaders(msg[p])
     IN  IF msg[p].ws \notin {"in_body", "notyet"} THEN Stop("writeStatus == WriteStatus::notyet")
         ELSE IF ~CanWriteBody(m) THEN Stop("writeStatus == WriteStatus::hdr_flushed")
         ELSE Writes(p, "end", m, Finish(p, m) /\ held' = held \ {p})
  /\ UNCHANGED <<server, todo, astray>>

end(p) ==
  /\ UserRuns /\ p \in held /\ Called
  /\ LET m == serializeHeaders(msg[p])
     IN  IF m.ws = "hdr_flushed"
         THEN Finish(p, m) /\ held' = held \ {p} /\ UNCHANGED <<job, conn, writer>>
         ELSE IF m.ws # "hdr_serialized" THEN Stop("writeStatus == WriteStatus::hdr_serialized")
         ELSE Writes(p, "end", m, Finish(p, m) /\ held' = held \ {p})
  /\ UNCHANGED <<server, todo, astray>>

(* a_readBody: there is no body to wait for. *)
a_readBody(p) ==
  /\ UserRuns /\ p \in held /\ Called
  /\ proceedToNext(q)
  /\ UNCHANGED <<msg, job, held, server, conn, writer, todo, astray>>

(* a_request, without and with a period *)
a_request(timed) ==
  /\ UserRuns /\ server.at = "run" /\ Called
  /\ server' = [server EXCEPT !.h = TRUE, !.at = "wait", !.timer = timed]
  /\ UNCHANGED <<q, msg, job, run, held, conn, writer, todo, astray, failed>>

(* The timer of a_request resumes the coroutine. await_resume takes what   *)
(* ahd_request holds, and the handle stays there.                          *)
RequestTimesOut ==
  /\ Idle /\ server.at = "wait" /\ server.timer
  /\ IF server.pair = NoPair
     THEN failed' = "server.ahd_request.request != nullptr" /\ UNCHANGED <<held, server>>
     ELSE /\ server' = [server EXCEPT !.at = "run", !.timer = FALSE]
          /\ held' = held \cup {server.pair}
          /\ UNCHANGED failed
  /\ astray' = TRUE
  /\ UNCHANGED <<q, msg, job, run, conn, writer, todo, count>>

-----------------------------------------------------------------------------
(* The socket                                                              *)

PeerSends(l) ==
  /\ failed = "" /\ count.lines < MaxLines /\ ~conn.fin /\ conn.st # "closed"
  /\ conn' = [conn EXCEPT !.net = Append(@, l)]
  /\ count' = [count EXCEPT !.lines = @ + 1]
  /\ UNCHANGED <<q, msg, job, run, held, server, writer, todo, astray, failed>>

PeerEnds ==
  /\ failed = "" /\ ~conn.fin /\ conn.st # "closed"
  /\ conn' = [conn EXCEPT !.fin = TRUE]
  /\ UNCHANGED <<q, msg, job, run, held, server, writer, todo, count, astray, failed>>

(* A read event: the lines go to run() if it waits for one. If it does     *)
(* not, they go to the data handlers, which an HTTP socket has none of.    *)
ReadEvent ==
  /\ Idle /\ conn.st # "closed" /\ conn.net # <<>>
  /\ conn' = [conn EXCEPT !.net = <<>>,
                          !.rb = IF run.at = "read" THEN conn.net ELSE @]
  /\ run' = IF run.at = "read" THEN [run EXCEPT !.at = "parse"] ELSE run
  /\ UNCHANGED <<q, msg, job, held, server, writer, todo, count, astray, failed>>

(* The client has ended: a waiting run() gets an exception and ends, and   *)
(* the socket is closed once its data is gone.                             *)
RemoteEnd ==
  /\ Idle /\ conn.st # "closed" /\ conn.net = <<>> /\ conn.fin /\ ~conn.rend
  /\ conn' = [conn EXCEPT !.rend = TRUE, !.st = "closing"]
  /\ run' = IF run.at = "read" THEN [run EXCEPT !.at = "ended"] ELSE run
  /\ UNCHANGED <<q, msg, job, held, server, writer, todo, count, astray, failed>>

(* An error of the connection: errorClose. *)
ErrorClose ==
  /\ Idle /\ conn.st \in {"open", "ended"}
  /\ conn' = [conn EXCEPT !.st = "closing"]
  /\ UNCHANGED <<q, msg, job, run, held, server, writer, todo, count, astray, failed>>

(* The close event, with forceReleasingAllCoroHandles of SocketBase: the   *)
(* coroutine that waits to read, then the one that waits to write. The     *)
(* HTTP socket's own version, for a_continueGetting, is not called.        *)
CloseEvent ==
  /\ Idle /\ conn.st = "closing"
  /\ conn' = [conn EXCEPT !.st = "closed", !.net = <<>>]
  /\ run' = IF run.at = "read" THEN [run EXCEPT !.at = "ended"] ELSE run
  /\ todo' = IF writer = NoPair THEN <<>> ELSE <<"throw", writer>>
  /\ writer' = NoPair
  /\ UNCHANGED <<q, msg, job, held, server, count, astray, failed>>

(* a_write throws: the catch clause of flushHeaders and writeBodyPart. The *)
(* exception goes no further, so that end() goes on behind the call.       *)
WriteThrows ==
  /\ failed = "" /\ Suspended /\ todo # <<>> /\ todo[1] = "throw"
  /\ LET p == todo[2]
     IN  /\ msg' = [msg EXCEPT ![p] = ClearResponse(@)]
         /\ job' = [job EXCEPT ![p] = "none"]
         /\ IF CanRelease(q, q.idx[p])
            THEN proceedToNext(release(q, q.idx[p]))
            ELSE failed' = "idx >= tail" /\ UNCHANGED <<q, run>>
         /\ todo' = IF job[p] = "end" THEN <<"finish", p>> ELSE <<>>
  /\ astray' = TRUE
  /\ UNCHANGED <<held, server, conn, writer, count>>

(* The rest of end(), when what proceedToNext resumed has been suspended. *)
EndGoesOn ==
  /\ failed = "" /\ Suspended /\ todo # <<>> /\ todo[1] = "finish"
  /\ Finish(todo[2], msg[todo[2]])
  /\ todo' = <<>>
  /\ UNCHANGED <<job, held, server, conn, writer, count, astray>>

-----------------------------------------------------------------------------
(* RRQueue::init, and the constructor of HttpSocketBase, which calls run(). *)
Init ==
  /\ \E e \in SizeExps :
       /\ q = getHead([exp |-> e, head |-> 0, tail |-> 0,
                       idx |-> [p \in 0 .. 2 ^ e - 1 |-> -1],
                       active |-> [p \in 0 .. 2 ^ e - 1 |-> FALSE]])
       /\ msg = [p \in 0 .. 2 ^ e - 1 |-> NewMessage]
       /\ job = [p \in 0 .. 2 ^ e - 1 |-> "none"]
  /\ run = [at |-> "read", stage |-> "method", pair |-> 0]
  /\ held = {}
  /\ \E h \in BOOLEAN :
       server = [handler |-> h, h |-> FALSE, pair |-> NoPair, at |-> "run", timer |-> FALSE]
  /\ conn = [st |-> "open", net |-> <<>>, rb |-> <<>>, fin |-> FALSE, rend |-> FALSE]
  /\ writer = NoPair
  /\ todo = <<>>
  /\ count = [lines |-> 0, calls |-> 0]
  /\ astray = FALSE
  /\ failed = ""

Run == ReadLineWaits \/ GetMethod \/ GetHeader \/ HandlerReturns

User ==
  \/ \E p \in Pairs : \/ writeHead(p) \/ addHeader(p) \/ flushHeaders(p)
                      \/ writeBodyPart(p) \/ endWith(p) \/ end(p) \/ a_readBody(p)
  \/ \E timed \in BOOLEAN : a_request(timed)

Loop == ReadEvent \/ RemoteEnd \/ ErrorClose \/ CloseEvent \/ RequestTimesOut
        \/ WriteThrows \/ EndGoesOn

Next == Run \/ User \/ Loop \/ (\E l \in Lines : PeerSends(l)) \/ PeerEnds

Spec == Init /\ [][Next]_vars

-----------------------------------------------------------------------------
(* The types, and the queue: at most capacity() pairs between tail and     *)
(* head, which the assertions of release and getHead rely on.              *)
TypeOK ==
  /\ q \in [exp : SizeExps, head : Nat, tail : Nat,
            idx : [Pairs -> -1 .. q.head - 1], active : [Pairs -> BOOLEAN]]
  /\ q.tail <= q.head /\ q.head - q.tail <= Capacity
  /\ msg \in [Pairs -> [req : {"noinit", "in_hdr", "completed"},
                        ws : {"notyet", "hdr_serialized", "hdr_flushed", "in_body"},
                        set : SUBSET {"status", "headers"}]]
  /\ job \in [Pairs -> {"none", "flushHeaders", "writeBodyPart", "end"}]
  /\ run \in [at : {"read", "parse", "handler", "continue", "ended"},
              stage : {"method", "header"}, pair : Pairs]
  /\ held \subseteq Pairs
  /\ server \in [handler : BOOLEAN, h : BOOLEAN, pair : Pairs \cup {NoPair},
                 at : {"run", "wait"}, timer : BOOLEAN]
  /\ conn \in [st : {"open", "ended", "closing", "closed"}, net : Seq(Lines),
               rb : Seq(Lines), fin : BOOLEAN, rend : BOOLEAN]
  /\ writer \in Pairs \cup {NoPair}
  /\ todo \in {<<>>} \cup ({"throw", "finish"} \X Pairs)
  /\ count \in [lines : Nat, calls : Nat] /\ astray \in BOOLEAN

(* RRQueue::release leaves tail at a pair that is in use, if there is one: *)
(* pairs released out of order are given back with the one they waited     *)
(* for, and none between tail and head is lost to run().                   *)
TailIsActive == q.tail < q.head => q.active[q.tail % Capacity]

(* The objects of a pair are reused. A pair that is not in use holds       *)
(* nothing of the last exchange: its request is as parseMethod asserts it, *)
(* its response has no status or headers of the last one. The exchanges    *)
(* whose write has thrown are the exception (see WriteThrows).             *)
FreePairsAreClean ==
  ~astray => \A p \in Pairs : ~q.active[p] => msg[p] = NewMessage /\ job[p] = "none"

(* While user code answers a request, run() does not read the next one     *)
(* into its object, and the pair remains in use.                           *)
HeldUntouched ==
  (~astray /\ failed = "") =>
     \A p \in held \cup {p \in Pairs : job[p] # "none"} :
        /\ msg[p].req = "completed" /\ q.active[p]
        /\ ~(run.at \in {"read", "parse"} /\ run.pair = p)

(* run() waits in a_continueGetting only while the queue is full: the      *)
(* response that makes room resumes it, wherever it ends, also inside      *)
(* onNewRequest before run() has begun to wait.                            *)
ContinuesWhenRoom == (run.at = "continue" /\ failed = "") => ~canPush(q)

=============================================================================
