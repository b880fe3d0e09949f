----------------------------- MODULE NetSockets -----------------------------
(***************************************************************************)
(* class NetSockets (tcp_socket.h): the table that ties the socket objects *)
(* of one event loop to the pollfd array it hands to poll(). These are the *)
(* operations on the table as functions of it; ClientSockets runs them.    *)
(*                                                                         *)
(* A table is a record:                                                    *)
(*   e      ourSide and osSide without the reserved element 0, followed by *)
(*          ourSideAccum and osSideAccum: entries added while the vectors  *)
(*          were full, which join them when the iteration ends             *)
(*   main   how many of the entries are in ourSide                         *)
(*   cap    ourSide.capacity(), which counts the reserved element          *)
(*   assoc  associatedCount                                                *)
(*   used   usedCount                                                      *)
(* Both counters are size_t: below zero they wrap to a huge number, which  *)
(* a negative number stands for. The flag refed is written and never read. *)
(***************************************************************************)
EXTENDS Integers, Sequences, FiniteSets, FiniteSetsExt

CONSTANT CompactionMinSize   \* compactionMinSize, 32 in the code

ASSUME TableAssumption == CompactionMinSize \in Nat

EntryStates == {"Unused", "SockIssued", "SockAssociated", "SockClosed"}

(* NetSocketEntry(index, ptr) and its pollfd: the descriptor is stored     *)
(* negated, which makes poll() skip it, until the socket is associated.    *)
Entry(s, i) == [st |-> "SockIssued", owner |-> s, index |-> i,
                fd |-> "negative", ev |-> {}, rev |-> {}]

(* capacity_, with reserved_capacity = 1 *)
InitialCapacity == 2

EmptyTable == [e |-> <<>>, main |-> 0, cap |-> InitialCapacity,
               assoc |-> 0, used |-> 0]

Used(e) == e.st # "Unused"

(* The range assertions every accessor makes on an index. *)
InRange(t, i) ==
  \/ i \in 1 .. t.main
  \/ t.main + 1 = t.cap /\ i \in t.main + 1 .. Len(t.e)

isValidId(t, i) == i \in 1 .. Len(t.e)

isUsed(t, i) == Used(t.e[i])

(* Slots that addEntry reuses: it does not look at the accumulated ones. *)
FreeSlots(t) == {i \in 1 .. t.main : ~isUsed(t, i)}

(* The index addEntry gives to a new entry. *)
NewIndex(t) == IF FreeSlots(t) # {} THEN Min(FreeSlots(t)) ELSE Len(t.e) + 1

AddIgnoringCapacity(t, s) ==
  LET i == NewIndex(t)
  IN  IF i <= t.main
      THEN [t EXCEPT !.e[i] = Entry(s, i), !.used = @ + 1]
      ELSE [t EXCEPT !.e = Append(@, Entry(s, i)), !.used = @ + 1]

(* addEntry: the first unused slot, else the end of ourSide if that does   *)
(* not reallocate it, else the end of ourSideAccum.                        *)
addEntry(t, s) ==
  LET i == NewIndex(t)
  IN  IF i <= t.main
      THEN [t EXCEPT !.e[i] = Entry(s, i), !.used = @ + 1]
      ELSE [t EXCEPT !.e = Append(@, Entry(s, i)), !.used = @ + 1,
                     !.main = IF t.main + 1 < t.cap THEN @ + 1 ELSE @]

(* What setAssociated asserts of the entry before and after it. *)
CanAssociate(t, i) ==
  /\ InRange(t, i)
  /\ t.e[i].st = "SockIssued"
  /\ t.e[i].fd = "negative" /\ t.e[i].ev = {} /\ t.e[i].rev = {}

setAssociated(t, i) ==
  [t EXCEPT !.e[i].st = "SockAssociated", !.e[i].fd = "positive",
            !.assoc = @ + 1]

setEvent(t, i, b) == [t EXCEPT !.e[i].ev = @ \cup {b}]
unsetEvent(t, i, b) == [t EXCEPT !.e[i].ev = @ \ {b}]

(* setUnused: the destructor's way out. Any descriptor that is not         *)
(* INVALID_SOCKET lowers associatedCount, the negated ones included.       *)
setUnused(t, i) ==
  [t EXCEPT !.e[i].st = "Unused", !.e[i].index = 0, !.e[i].fd = "invalid",
            !.assoc = IF t.e[i].fd # "invalid" THEN @ - 1 ELSE @,
            !.used = @ - 1]

SetClosedStillCounted(t, i) ==
  [t EXCEPT !.e[i].st = "SockClosed", !.e[i].fd = "invalid"]

setSocketClosed(t, i) ==
  [t EXCEPT !.e[i].st = "SockClosed", !.e[i].fd = "invalid",
            !.assoc = IF t.e[i].st = "SockAssociated" THEN @ - 1 ELSE @]

(* entry = NetSocketEntry(index), at the end of infraGetCloseEvent. *)
resetEntry(t, i) == [t EXCEPT !.e[i].st = "Unused", !.e[i].index = i]

-----------------------------------------------------------------------------
(* The capacity of a vector of capacity c after it has grown to n elements *)
(* one by one: it doubles.                                                 *)
Grown(c, n) == Min({d \in {c * 2 ^ k : k \in 0 .. n} : d >= n})

(* The assertion of reworkIfNecessary on each accumulated entry. *)
AccumInPlace(t) == \A i \in t.main + 1 .. Len(t.e) : t.e[i].index = i

JoinedOneTooMany(t) ==
  [t EXCEPT !.main = Len(t.e) + 1,
            !.cap = IF Len(t.e) > t.main THEN Grown(@, Len(t.e) + 1) ELSE @]

(* reworkIfNecessary, its first half: the accumulated entries join. *)
Joined(t) ==
  [t EXCEPT !.main = Len(t.e),
            !.cap = IF Len(t.e) > t.main THEN Grown(@, Len(t.e) + 1) ELSE @]

(* makeCompactIfNecessary returns early unless this holds. *)
MustCompact(t) ==
  /\ t.main + 1 > CompactionMinSize
  /\ t.used \notin 0 .. ((t.main + 1) \div 2) - 1

(* The used entries up to i: as many places from the start is where        *)
(* compaction moves entry i, if it is used.                                *)
UsedUpTo(t, i) == {j \in 1 .. i : isUsed(t, j)}

(* The entry that is moved to place n. *)
MovedFrom(t, n) ==
  CHOOSE i \in UsedUpTo(t, Len(t.e)) : Cardinality(UsedUpTo(t, i)) = n

(* "usedCountNew == usedCount" *)
UsedCountRight(t) == t.used = Cardinality(UsedUpTo(t, Len(t.e)))

CompactedNotRenumbered(t) ==
  LET n == Cardinality(UsedUpTo(t, Len(t.e)))
  IN  [t EXCEPT !.e = [k \in 1 .. n |-> t.e[MovedFrom(t, k)]],
                !.main = n,
                !.cap = Grown(InitialCapacity, n + 1)]

(* makeCompactIfNecessary: the used entries move up and are renumbered. *)
Compacted(t) ==
  LET n == Cardinality(UsedUpTo(t, Len(t.e)))
  IN  [t EXCEPT !.e = [k \in 1 .. n |-> [t.e[MovedFrom(t, k)] EXCEPT !.index = k]],
                !.main = n,
                !.cap = Grown(InitialCapacity, n + 1)]

reworkIfNecessary(t) ==
  IF MustCompact(Joined(t)) THEN Compacted(Joined(t)) ELSE Joined(t)

=============================================================================
