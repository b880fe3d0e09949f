------------------------- MODULE CircularByteBuffer -------------------------
(***************************************************************************)
(* class CircularByteBuffer (net_common.h), the operations of a socket's   *)
(* readBuffer. A buffer is a record: m is the allocated memory, b and e    *)
(* are the offsets of the pointers begin and end. One cell stays free, so  *)
(* that b = e only in an empty buffer.                                     *)
(*                                                                         *)
(* A byte stands for its place in the stream that the other side sends:    *)
(* 1, 2, ...; 0 is memory never written.                                   *)
(***************************************************************************)
EXTENDS Integers, Sequences, FiniteSetsExt

CONSTANTS
  SizeExp,   \* size_exp, 12 in the code
  Newlines   \* the bytes of the stream that are the delimiter '\n'

alloc_size == 2 ^ SizeExp

(* The last conjunct follows from the first; the proofs use it. *)
ASSUME BufferAssumption ==
  /\ SizeExp \in Nat \ {0} /\ Newlines \subseteq Nat
  /\ alloc_size \in Nat \ {0, 1}

EmptyBuffer == [m |-> [i \in 0 .. alloc_size - 1 |-> 0], b |-> 0, e |-> 0]

used_size(c) == IF c.b <= c.e THEN c.e - c.b ELSE alloc_size - (c.b - c.e)

(* n bytes from offset i on, which do not reach past the memory. *)
Span(c, i, n) == [k \in 1 .. n |-> c.m[i + k - 1]]

(* What the buffer holds, in the order in which it came. *)
Contents(c) ==
  IF c.b <= c.e
  THEN Span(c, c.b, c.e - c.b)
  ELSE Span(c, c.b, alloc_size - c.b) \o Span(c, 0, c.e)

Wrapped(c) == c.b > c.e

(* How many bytes lie between begin and the end of the memory, or end. *)
Forward(c) == IF Wrapped(c) THEN alloc_size - c.b ELSE c.e - c.b

(* get_ready_data: at most n bytes; where the memory ends begin goes back  *)
(* to its start.                                                           *)
get_ready_data(c, n) ==
  LET near == Min({n, Forward(c)})
      turn == Wrapped(c) /\ near = Forward(c)
      far  == IF turn THEN Min({n - near, c.e}) ELSE 0
  IN  [buff |-> [c EXCEPT !.b = IF turn THEN far ELSE @ + near],
       out  |-> Span(c, c.b, near) \o Span(c, 0, far)]

(* read_ready_data_until: bytes up to the delimiter, for a caller's buffer *)
(* of the given capacity. A delimiter just past the capacity still fits,   *)
(* unless the memory ends there.                                           *)
read_ready_data_until(c, capacity) ==
  LET s    == Contents(c)
      edge == Wrapped(c) /\ Forward(c) = capacity
      ends == {k \in 1 .. Len(s) : /\ s[k] \in Newlines
                                   /\ k <= IF edge THEN capacity ELSE capacity + 1}
      n    == IF ends # {} THEN Min(ends) ELSE Min({Len(s), capacity})
  IN  [buff   |-> [c EXCEPT !.b = (@ + n) % alloc_size],
       out    |-> SubSeq(s, 1, n),
       status |-> CASE ends # {}                   -> "ok"
                    [] ends = {} /\ n = capacity   -> "insufficient_buffer"
                    [] ends = {} /\ n # capacity   -> "in_progress"]

(* The bytes s are stored from end on, without reaching past the memory;   *)
(* where it ends, end goes back to its start.                              *)
Store(c, s) ==
  [c EXCEPT !.m = [i \in DOMAIN @ |-> IF i - c.e + 1 \in DOMAIN s
                                      THEN s[i - c.e + 1] ELSE @[i]],
            !.e = (@ + Len(s)) % alloc_size]

(* How many bytes read() asks the operating system for first. *)
FirstRead(c) ==
  IF Wrapped(c) THEN c.b - c.e - 1
  ELSE IF c.b # 0 THEN alloc_size - c.e
  ELSE alloc_size - 1 - c.e

ReadOverrunning(c, s, target) ==
  LET n == Min({Len(s), FirstRead(c)})
      d == Store(c, SubSeq(s, 1, n))
  IN  IF Wrapped(c) \/ d.e # 0 \/ n = 0 \/ alloc_size >= c.b + target
      THEN [buff |-> d, taken |-> n]
      ELSE LET k == Min({Len(s) - n, c.b})
           IN  [buff |-> Store(d, SubSeq(s, n + 1, n + k)), taken |-> n + k]

(* read: as many of the waiting bytes s as there is room for. Once end is  *)
(* back at the start of the memory it asks again, unless the caller's      *)
(* target already fits behind begin.                                       *)
read(c, s, target) ==
  LET n == Min({Len(s), FirstRead(c)})
      d == Store(c, SubSeq(s, 1, n))
  IN  IF Wrapped(c) \/ d.e # 0 \/ n = 0 \/ alloc_size >= c.b + target
      THEN [buff |-> d, taken |-> n]
      ELSE LET k == Min({Len(s) - n, c.b - 1})
           IN  [buff |-> Store(d, SubSeq(s, n + 1, n + k)), taken |-> n + k]

=============================================================================
