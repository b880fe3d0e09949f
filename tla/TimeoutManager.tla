--------------------------- MODULE TimeoutManager ---------------------------
(***************************************************************************)
(* The timers of a node: class TimeoutManager (src/timeout_manager.h and   *)
(* .cpp) and the Timeout handles given to user code (nodecpp/timers.h,     *)
(* src/infrastructure.cpp).                                                *)
(*                                                                         *)
(* User code runs only inside handlers of the single-threaded event loop,  *)
(* so the operations below interleave at handler granularity: the loop     *)
(* collects the due timers into a batch of handlers and then runs them one *)
(* by one, and every handler may set, refresh, clear or drop any timer,    *)
(* the ones still waiting in the batch included.                           *)
(*                                                                         *)
(* Callbacks and awaiting coroutines are treated alike by the manager, so  *)
(* what a handler does is left to the user actions that follow it.         *)
(***************************************************************************)
EXTENDS Integers, Sequences, FiniteSets, SequencesExt

CONSTANTS
  Delays,       \* arguments given to setTimeout, in milliseconds
  Ms,           \* clock ticks in a millisecond (1000 in the code)
  INT_MAX,      \* largest value of int32_t
  U64,          \* number of values of uint64_t
  MaxTimers,    \* bound: how many timers are ever created
  MaxArmings,   \* bound: how many times one timer is scheduled
  MaxClock      \* bound: last clock reading

ASSUME ConstantsAssumption ==
  /\ Delays \subseteq Int
  /\ Ms \in Nat \ {0}
  /\ INT_MAX \in Nat
  /\ U64 \in Nat \ {0}
  /\ MaxTimers \in Nat
  /\ MaxArmings \in Nat
  /\ MaxClock \in Nat
  /\ MaxClock + INT_MAX < U64

VARIABLES
  clock,        \* infraGetCurrentTime()
  lastId,
  timers,       \* id -> TimeoutEntry
  nextTimeouts, \* the multimap (due time -> id), in iteration order
  handlers,     \* the rest of the batch infraTimeoutEvents is running
  userRuns,     \* user code is running, or may run, right now
  held,         \* ids of the Timeout objects alive in user code
  cleared,      \* history: ids given to clearTimeout
  armings,      \* history: how many times each timer was scheduled
  firings       \* history: how many times each handler was run

vars == <<clock, lastId, timers, nextTimeouts, handlers, userRuns, held,
          cleared, armings, firings>>

Ids == 1 .. MaxTimers
Entry == [ms : Int, delay : 0 .. U64 - 1, lastSchedule : Nat,
          nextTimeout : 0 .. U64 - 1, handleDestroyed : BOOLEAN,
          active : BOOLEAN]
Due == [at : 0 .. U64 - 1, id : Ids]
Handler == [id : Ids, ms : Int, since : Nat]

-----------------------------------------------------------------------------
(* int32_t ms: 0 becomes 1 and a negative delay the largest one. *)
EffectiveMs(ms) == IF ms = 0 THEN 1 ELSE IF ms < 0 THEN INT_MAX ELSE ms

(* An int32_t product that overflows, wrapped to two's complement. *)
Wrapped(n) == ((n + INT_MAX + 1) % (2 * (INT_MAX + 1))) - (INT_MAX + 1)

(* entry.delay = ms * 1000: the product is an int32_t whose overflow is    *)
(* undefined, so it is either wrapped or carried out in 64 bits; it is     *)
(* stored as a uint64_t.                                                   *)
DelayOutcomes(ms) == {Wrapped(ms * Ms) % U64, (ms * Ms) % U64}

UpperBoundLate(q, t) == Cardinality({i \in DOMAIN q : q[i].at <= t + 1})

(* nextTimeouts.upper_bound(t): how many entries are not later than t. *)
UpperBound(q, t) == Cardinality({i \in DOMAIN q : q[i].at <= t})

InsertUnordered(q, at, id) == Append(q, [at |-> at, id |-> id])

(* multimap::insert puts an equal key after the ones already there. *)
Insert(q, at, id) ==
  InsertAt(q, UpperBound(q, at) + 1, [at |-> at, id |-> id])

(* appSetTimeout(TimeoutEntry&, now), but for the insertion. *)
Armed(e, now) ==
  [e EXCEPT !.lastSchedule = now,
            !.nextTimeout  = (now + e.delay) % U64,
            !.active       = TRUE]

(* The position of the timer's entry in equal_range(entry.nextTimeout). *)
Position(ts, q, id) ==
  {i \in DOMAIN q : q[i].at = ts[id].nextTimeout /\ q[i].id = id}

FoundOnlyFirst(ts, q, id) ==
  /\ ts[id].active
  /\ \E i \in Position(ts, q, id) : \A j \in 1 .. i - 1 : q[j].at # q[i].at

FoundActive(ts, q, id) == ts[id].active /\ Position(ts, q, id) # {}

QueueKept(ts, q, id) == q

(* appClearTimeout(TimeoutEntry&): the entry leaves nextTimeouts ... *)
ClearedQueue(ts, q, id) ==
  IF FoundActive(ts, q, id)
  THEN RemoveAt(q, CHOOSE i \in Position(ts, q, id) : TRUE)
  ELSE q

(* ... and is no longer active. *)
ClearedEntry(ts, q, id) ==
  IF FoundActive(ts, q, id) THEN [ts[id] EXCEPT !.active = FALSE] ELSE ts[id]

DestroyedKept(ts, id) ==
  IF id \notin DOMAIN ts
  THEN ts
  ELSE [ts EXCEPT ![id].handleDestroyed = TRUE]

(* appTimeoutDestructor(id), run by ~Timeout. *)
Destroyed(ts, id) ==
  IF id \notin DOMAIN ts
  THEN ts
  ELSE IF ts[id].active
       THEN [ts EXCEPT ![id].handleDestroyed = TRUE]
       ELSE [i \in DOMAIN ts \ {id} |-> ts[i]]

FiredStillActive(e) == e

(* What infraTimeoutEvents does to the entry of a due timer. *)
Fired(e) == [e EXCEPT !.active = FALSE]

RestOffByOne(q, k) == SubSeq(q, k + 2, Len(q))

(* nextTimeouts.erase(itBegin, itEnd), itEnd being k entries on. *)
Rest(q, k) == SubSeq(q, k + 1, Len(q))

NewIdPostfix == lastId

(* ++lastId *)
NewId == lastId + 1

-----------------------------------------------------------------------------
(* setTimeout and setTimeoutForAction: appSetTimeoutImpl. *)
setTimeout(ms) ==
  /\ userRuns
  /\ lastId < MaxTimers
  /\ MaxArmings > 0
  /\ \E delay \in DelayOutcomes(EffectiveMs(ms)) :
       LET id == NewId
           e  == Armed([ms |-> ms, delay |-> delay, lastSchedule |-> 0,
                        nextTimeout |-> 0, handleDestroyed |-> FALSE,
                        active |-> FALSE], clock)
       IN  /\ lastId' = id
           /\ timers' = [i \in DOMAIN timers \cup {id} |->
                           IF i = id THEN e ELSE timers[i]]
           /\ nextTimeouts' = Insert(nextTimeouts, e.nextTimeout, id)
           /\ held' = held \cup {id}
           /\ armings' = [armings EXCEPT ![id] = 1]
  /\ UNCHANGED <<clock, handlers, userRuns, cleared, firings>>

(* refreshTimeout: appRefresh clears the entry and schedules it again. *)
refreshTimeout(id) ==
  /\ userRuns
  /\ id \in held
  /\ id \in DOMAIN timers
  /\ armings[id] < MaxArmings
  /\ LET e == Armed(ClearedEntry(timers, nextTimeouts, id), clock)
     IN  /\ timers' = [timers EXCEPT ![id] = e]
         /\ nextTimeouts' = Insert(ClearedQueue(timers, nextTimeouts, id),
                                   e.nextTimeout, id)
  /\ armings' = [armings EXCEPT ![id] = @ + 1]
  /\ UNCHANGED <<clock, lastId, handlers, userRuns, held, cleared, firings>>

(* clearTimeout passes to.getId(), a number, where a Timeout is expected:  *)
(* the temporary Timeout built from it is destroyed when the call returns. *)
clearTimeout(id) ==
  /\ userRuns
  /\ id \in held
  /\ IF id \in DOMAIN timers
     THEN /\ nextTimeouts' = ClearedQueue(timers, nextTimeouts, id)
          /\ timers' = Destroyed([timers EXCEPT
                         ![id] = ClearedEntry(timers, nextTimeouts, id)], id)
     ELSE UNCHANGED <<nextTimeouts, timers>>
  /\ cleared' = cleared \cup {id}
  /\ UNCHANGED <<clock, lastId, handlers, userRuns, held, armings, firings>>

(* The user's Timeout object goes out of scope. *)
dropTimeout(id) ==
  /\ userRuns
  /\ id \in held
  /\ held' = held \ {id}
  /\ timers' = Destroyed(timers, id)
  /\ UNCHANGED <<clock, lastId, nextTimeouts, handlers, userRuns, cleared,
                 armings, firings>>

(* infraTimeoutEvents(now), up to the loop that runs the handlers. *)
infraTimeoutEvents ==
  LET k   == UpperBound(nextTimeouts, clock)
      ids == {nextTimeouts[i].id : i \in 1 .. k}
  IN  /\ handlers = <<>>
      /\ k > 0
      /\ handlers' = [i \in 1 .. k |->
                        LET id == nextTimeouts[i].id
                        IN  [id |-> id, ms |-> timers[id].ms,
                             since |-> timers[id].lastSchedule]]
      /\ timers' =
           [id \in {j \in DOMAIN timers :
                      ~(j \in ids /\ timers[j].handleDestroyed)} |->
              IF id \in ids THEN Fired(timers[id]) ELSE timers[id]]
      /\ nextTimeouts' = Rest(nextTimeouts, k)
      /\ userRuns' = FALSE
      /\ UNCHANGED <<clock, lastId, held, cleared, armings, firings>>

(* One iteration of the loop over the copied handlers. *)
runHandler ==
  /\ handlers # <<>>
  /\ handlers' = Tail(handlers)
  /\ userRuns' = TRUE
  /\ firings' = [firings EXCEPT ![Head(handlers).id] = @ + 1]
  /\ UNCHANGED <<clock, lastId, timers, nextTimeouts, held, cleared, armings>>

(* The monotonic clock. *)
tick ==
  /\ clock < MaxClock
  /\ clock' = clock + 1
  /\ UNCHANGED <<lastId, timers, nextTimeouts, handlers, userRuns, held,
                 cleared, armings, firings>>

Init ==
  /\ clock = 0
  /\ lastId = 0
  /\ timers = [i \in {} |-> 0]
  /\ nextTimeouts = <<>>
  /\ handlers = <<>>
  /\ userRuns = TRUE
  /\ held = {}
  /\ cleared = {}
  /\ armings = [id \in Ids |-> 0]
  /\ firings = [id \in Ids |-> 0]

Next ==
  \/ \E ms \in Delays : setTimeout(ms)
  \/ \E id \in Ids : refreshTimeout(id)
  \/ \E id \in Ids : clearTimeout(id)
  \/ \E id \in Ids : dropTimeout(id)
  \/ infraTimeoutEvents
  \/ runHandler
  \/ tick

Spec == Init /\ [][Next]_vars

(* The loop calls infraTimeoutEvents in every iteration, handlers return    *)
(* and the clock is monotonic: each of them always happens again.          *)
FairSpec ==
  Spec /\ WF_vars(infraTimeoutEvents) /\ WF_vars(runHandler) /\ WF_vars(tick)

-----------------------------------------------------------------------------
(* Ids are given out once and in order, entries, handles and histories are  *)
(* about ids given out, and delays and due times stay within uint64_t.      *)
TypeOK ==
  /\ clock \in 0 .. MaxClock
  /\ lastId \in 0 .. MaxTimers
  /\ DOMAIN timers \subseteq 1 .. lastId
  /\ timers \in [DOMAIN timers -> Entry]
  /\ nextTimeouts \in Seq(Due)
  /\ handlers \in Seq(Handler)
  /\ userRuns \in BOOLEAN
  /\ held \subseteq 1 .. lastId
  /\ cleared \subseteq 1 .. lastId
  /\ armings \in [Ids -> Nat]
  /\ firings \in [Ids -> Nat]

Matches(ts, q) ==
  /\ \A id \in DOMAIN ts : ts[id].active => Position(ts, q, id) # {}
  /\ \A i \in DOMAIN q :
       /\ q[i].id \in DOMAIN ts
       /\ ts[q[i].id].active
       /\ ts[q[i].id].nextTimeout = q[i].at
  /\ \A i, j \in DOMAIN q : q[i].id = q[j].id => i = j

(* The assertions of timeout_manager.cpp (lines 62, 92, 142 and 143): an   *)
(* active timer has its entry in nextTimeouts, under its current due time, *)
(* and every entry of nextTimeouts is the only one of an active timer.     *)
QueueMatchesTimers == Matches(timers, nextTimeouts)

(* "after that all resources will be discarded" (timeout_manager.h): an    *)
(* entry whose handle is gone stays only for as long as it is scheduled.   *)
NoLeakedEntry ==
  \A id \in DOMAIN timers :
    /\ timers[id].handleDestroyed <=> id \notin held
    /\ timers[id].handleDestroyed => timers[id].active

(* However timers are refreshed, cleared and dropped while a batch runs,   *)
(* one scheduling of a timer runs its handler at most once.                *)
OncePerArming ==
  \A id \in Ids :
    firings[id] + Cardinality({i \in DOMAIN handlers : handlers[i].id = id})
      + (IF id \in DOMAIN timers /\ timers[id].active THEN 1 ELSE 0)
      <= armings[id]

(* A delay whose product with 1000 fits int32_t is waited for in full      *)
(* before infraTimeoutEvents collects the handler.                         *)
NotEarly ==
  \A i \in DOMAIN handlers :
    EffectiveMs(handlers[i].ms) * Ms <= INT_MAX =>
      handlers[i].since + EffectiveMs(handlers[i].ms) * Ms <= clock

(* infraNextTimeout, by which the loop bounds its wait in poll, is not     *)
(* later than the due time of any active timer.                            *)
NextTimeoutIsEarliest ==
  \A id \in DOMAIN timers :
    timers[id].active => Head(nextTimeouts).at <= timers[id].nextTimeout

(* A timer given to clearTimeout is never collected again; only a handler  *)
(* that was already in the running batch can still be run.                 *)
ClearedNotCollected ==
  [][\A id \in cleared : \A i \in DOMAIN handlers' :
       handlers'[i].id = id =>
         \E j \in DOMAIN handlers : handlers[j] = handlers'[i]]_vars

(* A scheduled timer that becomes due is run, unless it is refreshed or    *)
(* cleared in the meantime.                                                *)
DueTimerFires ==
  \A id \in Ids, n \in 1 .. MaxArmings, f \in 0 .. MaxArmings :
    (/\ id \in DOMAIN timers /\ timers[id].active
     /\ timers[id].nextTimeout <= MaxClock
     /\ armings[id] = n /\ firings[id] = f)
      ~> (firings[id] > f \/ armings[id] > n \/ id \in cleared)

(* "if user keeps a living reference, then she may call 'refresh' to       *)
(* reschedule, so resources may not be discarded until user discards her   *)
(* reference" (timeout_manager.h): a living Timeout has its entry.         *)
HandleKeepsEntry == held \subseteq DOMAIN timers

=============================================================================
