--------------------------- MODULE NetSocketsProofs ---------------------------
(***************************************************************************)
(* What the operations on the table of sockets do to its entries, for      *)
(* every table: lemmas for the proofs about ClientSockets and Servers.     *)
(***************************************************************************)
EXTENDS NetSockets, FiniteSetLaws, TLAPS

(* The entries and tables of objects in O. *)
Entries(O) == [st : EntryStates, owner : O, index : Nat,
               fd : {"negative", "positive", "invalid"},
               ev : SUBSET {"IN", "OUT"},
               rev : SUBSET {"IN", "OUT", "HUP", "ERR"}]

Tables(O) == [e : Seq(Entries(O)), main : Nat, cap : Nat, assoc : Int, used : Int]

Places(t) == 1 .. Len(t.e)

(* u is t but for the counters and for entry i, which is x in u. *)
Changed(O, t, u, i, x) ==
  /\ u \in Tables(O)
  /\ Len(u.e) = Len(t.e) /\ u.main = t.main /\ u.cap = t.cap
  /\ u.e[i] = x
  /\ \A j \in Places(t) : j # i => u.e[j] = t.e[j]

(* The empty sequence is one of elements of any set. *)
LEMMA NoElements ==
  ASSUME NEW S
  PROVE  <<>> \in Seq(S) /\ Len(<<>>) = 0
OBVIOUS

(* A function on the numbers up to n is a sequence of length n. *)
LEMMA SeqOfLength ==
  ASSUME NEW S, NEW n \in Nat, NEW q \in [1 .. n -> S]
  PROVE  q \in Seq(S) /\ Len(q) = n
OBVIOUS

Table(q, m, c, a, n) == [e |-> q, main |-> m, cap |-> c, assoc |-> a, used |-> n]

(* A table put together from fields of the right types has them and is     *)
(* one.                                                                    *)
LEMMA TableType ==
  ASSUME NEW O, NEW q \in Seq(Entries(O)), NEW m \in Nat, NEW c \in Nat,
         NEW a \in Int, NEW n \in Int
  PROVE  /\ Table(q, m, c, a, n) \in Tables(O)
         /\ Table(q, m, c, a, n).e = q /\ Table(q, m, c, a, n).main = m
         /\ Table(q, m, c, a, n).cap = c /\ Table(q, m, c, a, n).assoc = a
         /\ Table(q, m, c, a, n).used = n
<1> DEFINE S == Seq(Entries(O))
<1> HIDE DEF S
<1>1. q \in S
  BY DEF S
<1>2. Table(q, m, c, a, n) \in [e : S, main : Nat, cap : Nat, assoc : Int, used : Int]
  BY <1>1 DEF Table
<1> QED BY <1>2 DEF Table, Tables, S

(* Replacing one entry, and the counters, changes the table there only. *)
LEMMA UpdateLemma ==
  ASSUME NEW O, NEW t \in Tables(O), NEW i \in Places(t), NEW x \in Entries(O),
         NEW a \in Int, NEW n \in Int
  PROVE  LET u == Table([t.e EXCEPT ![i] = x], t.main, t.cap, a, n)
         IN  Changed(O, t, u, i, x) /\ u.assoc = a /\ u.used = n
<1>1. t.e \in Seq(Entries(O)) /\ t.main \in Nat /\ t.cap \in Nat
  BY DEF Tables
<1> DEFINE q == [t.e EXCEPT ![i] = x]
           u == Table(q, t.main, t.cap, a, n)
<1>2. /\ q \in Seq(Entries(O)) /\ Len(q) = Len(t.e) /\ q[i] = x
      /\ \A j \in Places(t) : j # i => q[j] = t.e[j]
  BY <1>1 DEF Places
<1> HIDE DEF q
<1>3. /\ u \in Tables(O) /\ u.e = q /\ u.main = t.main /\ u.cap = t.cap
      /\ u.assoc = a /\ u.used = n
  BY <1>1, <1>2, TableType
<1> HIDE DEF u
<1>4. Changed(O, t, u, i, x) /\ u.assoc = a /\ u.used = n
  BY <1>2, <1>3 DEF Changed
<1> QED BY <1>4 DEF u, q

(* A table is the record of its fields. *)
Fields == {"e", "main", "cap", "assoc", "used"}

(* A table is the record of its fields. *)
LEMMA TableFields ==
  ASSUME NEW O, NEW t \in Tables(O)
  PROVE  t = [e |-> t.e, main |-> t.main, cap |-> t.cap, assoc |-> t.assoc,
              used |-> t.used]
BY DEF Tables

(* A table is a function on its field names. *)
LEMMA TableIsFunction ==
  ASSUME NEW O, NEW t \in Tables(O)
  PROVE  t = [f \in Fields |-> t[f]]
BY DEF Tables, Fields

(* A function on the field names is the record of its values. *)
LEMMA RecordOfFields ==
  ASSUME NEW u, u = [f \in Fields |-> u[f]]
  PROVE  u = [e |-> u.e, main |-> u.main, cap |-> u.cap, assoc |-> u.assoc,
              used |-> u.used]
BY DEF Fields

(* What stands at a place of the table is an entry. *)
LEMMA EntryFields ==
  ASSUME NEW O, NEW t \in Tables(O), NEW i \in Places(t)
  PROVE  /\ t.e[i] \in Entries(O)
         /\ t.e[i] = [st |-> t.e[i].st, owner |-> t.e[i].owner, index |-> t.e[i].index,
                      fd |-> t.e[i].fd, ev |-> t.e[i].ev, rev |-> t.e[i].rev]
<1>1. t.e[i] \in Entries(O)
  BY DEF Tables, Places
<1> QED BY <1>1 DEF Entries

(* setAssociated changes one entry, which poll() then looks at, and counts *)
(* it in associatedCount.                                                  *)
LEMMA SetAssociatedLemma ==
  ASSUME NEW O, NEW t \in Tables(O), NEW i \in Places(t)
  PROVE  LET x == [t.e[i] EXCEPT !.st = "SockAssociated", !.fd = "positive"]
         IN  /\ x \in Entries(O)
             /\ Changed(O, t, setAssociated(t, i), i, x)
             /\ setAssociated(t, i).assoc = (t.assoc + 1)
             /\ setAssociated(t, i).used = t.used
<1> DEFINE x == [t.e[i] EXCEPT !.st = "SockAssociated", !.fd = "positive"]
           a == t.assoc + 1
           n == t.used
<1>1. x \in Entries(O)
  <2>1. t.e[i] \in Entries(O)
    BY Zenon, EntryFields
  <2>2. i \in Nat
    BY DEF Places
  <2> QED BY Zenon, <2>1, <2>2 DEF Entries, EntryStates
<1>2. setAssociated(t, i) = Table([t.e EXCEPT ![i] = x], t.main, t.cap, a, n)
  <2>1. setAssociated(t, i) = Table([t.e EXCEPT ![i].st = "SockAssociated", ![i].fd = "positive"], t.main, t.cap, a, n)
    <3> DEFINE u == setAssociated(t, i)
    <3>1. u = [e |-> u.e, main |-> u.main, cap |-> u.cap, assoc |-> u.assoc, used |-> u.used]
      <4>1. u = [f \in Fields |-> u[f]]
        BY TableIsFunction, ZenonT(60) DEF setAssociated
      <4> HIDE DEF u
      <4> QED BY <4>1, RecordOfFields
    <3>2. u.e = [t.e EXCEPT ![i].st = "SockAssociated", ![i].fd = "positive"]
      BY TableFields DEF setAssociated
    <3>3. u.main = t.main /\ u.cap = t.cap
      BY TableFields DEF setAssociated
    <3>4. u.assoc = a /\ u.used = n
      BY TableFields DEF setAssociated
    <3> HIDE DEF u, a, n
    <3>5. u = Table([t.e EXCEPT ![i].st = "SockAssociated", ![i].fd = "positive"], t.main, t.cap, a, n)
      BY <3>1, <3>2, <3>3, <3>4 DEF Table
    <3> QED BY <3>5 DEF u
  <2>2. [t.e EXCEPT ![i].st = "SockAssociated", ![i].fd = "positive"] = [t.e EXCEPT ![i] = x]
    BY Zenon, EntryFields DEF Tables, Places
  <2> QED BY <2>1, <2>2
<1>3. a \in Int /\ n \in Int
  BY DEF Tables
<1> HIDE DEF x, a, n
<1>4. /\ Changed(O, t, setAssociated(t, i), i, x)
      /\ setAssociated(t, i).assoc = a /\ setAssociated(t, i).used = n
  BY <1>1, <1>2, <1>3, UpdateLemma
<1> QED BY <1>1, <1>4 DEF x, a, n

(* setting a bit of the pollfd's events changes one entry and no counter. *)
LEMMA SetEventLemma ==
  ASSUME NEW O, NEW t \in Tables(O), NEW i \in Places(t), NEW b \in {"IN", "OUT"}
  PROVE  LET x == [t.e[i] EXCEPT !.ev = t.e[i].ev \cup {b}]
         IN  /\ x \in Entries(O)
             /\ Changed(O, t, setEvent(t, i, b), i, x)
             /\ setEvent(t, i, b).assoc = (t.assoc)
             /\ setEvent(t, i, b).used = t.used
<1> DEFINE x == [t.e[i] EXCEPT !.ev = t.e[i].ev \cup {b}]
           a == t.assoc
           n == t.used
<1>1. x \in Entries(O)
  <2>1. t.e[i] \in Entries(O)
    BY Zenon, EntryFields
  <2>2. i \in Nat
    BY DEF Places
  <2> QED BY <2>1, <2>2 DEF Entries, EntryStates
<1>2. setEvent(t, i, b) = Table([t.e EXCEPT ![i] = x], t.main, t.cap, a, n)
  <2>1. setEvent(t, i, b) = Table([t.e EXCEPT ![i].ev = t.e[i].ev \cup {b}], t.main, t.cap, a, n)
    <3> DEFINE u == setEvent(t, i, b)
    <3>1. u = [e |-> u.e, main |-> u.main, cap |-> u.cap, assoc |-> u.assoc, used |-> u.used]
      <4>1. u = [f \in Fields |-> u[f]]
        BY TableIsFunction, ZenonT(60) DEF setEvent
      <4> HIDE DEF u
      <4> QED BY <4>1, RecordOfFields
    <3>2. u.e = [t.e EXCEPT ![i].ev = t.e[i].ev \cup {b}]
      BY TableFields DEF setEvent
    <3>3. u.main = t.main /\ u.cap = t.cap
      BY TableFields DEF setEvent
    <3>4. u.assoc = a /\ u.used = n
      BY TableFields DEF setEvent
    <3> HIDE DEF u, a, n
    <3>5. u = Table([t.e EXCEPT ![i].ev = t.e[i].ev \cup {b}], t.main, t.cap, a, n)
      BY <3>1, <3>2, <3>3, <3>4 DEF Table
    <3> QED BY <3>5 DEF u
  <2>2. [t.e EXCEPT ![i].ev = t.e[i].ev \cup {b}] = [t.e EXCEPT ![i] = x]
    BY EntryFields DEF Tables, Places
  <2> QED BY <2>1, <2>2
<1>3. a \in Int /\ n \in Int
  BY DEF Tables
<1> HIDE DEF x, a, n
<1>4. /\ Changed(O, t, setEvent(t, i, b), i, x)
      /\ setEvent(t, i, b).assoc = a /\ setEvent(t, i, b).used = n
  BY <1>1, <1>2, <1>3, UpdateLemma
<1> QED BY <1>1, <1>4 DEF x, a, n

(* clearing a bit of the pollfd's events changes one entry and no counter. *)
LEMMA UnsetEventLemma ==
  ASSUME NEW O, NEW t \in Tables(O), NEW i \in Places(t), NEW b \in {"IN", "OUT"}
  PROVE  LET x == [t.e[i] EXCEPT !.ev = t.e[i].ev \ {b}]
         IN  /\ x \in Entries(O)
             /\ Changed(O, t, unsetEvent(t, i, b), i, x)
             /\ unsetEvent(t, i, b).assoc = (t.assoc)
             /\ unsetEvent(t, i, b).used = t.used
<1> DEFINE x == [t.e[i] EXCEPT !.ev = t.e[i].ev \ {b}]
           a == t.assoc
           n == t.used
<1>1. x \in Entries(O)
  <2>1. t.e[i] \in Entries(O)
    BY Zenon, EntryFields
  <2>2. i \in Nat
    BY DEF Places
  <2> QED BY <2>1, <2>2 DEF Entries, EntryStates
<1>2. unsetEvent(t, i, b) = Table([t.e EXCEPT ![i] = x], t.main, t.cap, a, n)
  <2>1. unsetEvent(t, i, b) = Table([t.e EXCEPT ![i].ev = t.e[i].ev \ {b}], t.main, t.cap, a, n)
    <3> DEFINE u == unsetEvent(t, i, b)
    <3>1. u = [e |-> u.e, main |-> u.main, cap |-> u.cap, assoc |-> u.assoc, used |-> u.used]
      <4>1. u = [f \in Fields |-> u[f]]
        BY TableIsFunction, ZenonT(60) DEF unsetEvent
      <4> HIDE DEF u
      <4> QED BY <4>1, RecordOfFields
    <3>2. u.e = [t.e EXCEPT ![i].ev = t.e[i].ev \ {b}]
      BY TableFields DEF unsetEvent
    <3>3. u.main = t.main /\ u.cap = t.cap
      BY TableFields DEF unsetEvent
    <3>4. u.assoc = a /\ u.used = n
      BY TableFields DEF unsetEvent
    <3> HIDE DEF u, a, n
    <3>5. u = Table([t.e EXCEPT ![i].ev = t.e[i].ev \ {b}], t.main, t.cap, a, n)
      BY <3>1, <3>2, <3>3, <3>4 DEF Table
    <3> QED BY <3>5 DEF u
  <2>2. [t.e EXCEPT ![i].ev = t.e[i].ev \ {b}] = [t.e EXCEPT ![i] = x]
    BY EntryFields DEF Tables, Places
  <2> QED BY <2>1, <2>2
<1>3. a \in Int /\ n \in Int
  BY DEF Tables
<1> HIDE DEF x, a, n
<1>4. /\ Changed(O, t, unsetEvent(t, i, b), i, x)
      /\ unsetEvent(t, i, b).assoc = a /\ unsetEvent(t, i, b).used = n
  BY <1>1, <1>2, <1>3, UpdateLemma
<1> QED BY <1>1, <1>4 DEF x, a, n

(* setUnused frees one entry; it lowers usedCount, and associatedCount     *)
(* unless the descriptor was INVALID_SOCKET.                               *)
LEMMA SetUnusedLemma ==
  ASSUME NEW O, NEW t \in Tables(O), NEW i \in Places(t)
  PROVE  LET x == [t.e[i] EXCEPT !.st = "Unused", !.index = 0, !.fd = "invalid"]
         IN  /\ x \in Entries(O)
             /\ Changed(O, t, setUnused(t, i), i, x)
             /\ setUnused(t, i).assoc = (IF t.e[i].fd # "invalid" THEN t.assoc - 1 ELSE t.assoc)
             /\ setUnused(t, i).used = t.used - 1
<1> DEFINE x == [t.e[i] EXCEPT !.st = "Unused", !.index = 0, !.fd = "invalid"]
           a == IF t.e[i].fd # "invalid" THEN t.assoc - 1 ELSE t.assoc
           n == t.used - 1
<1>1. x \in Entries(O)
  <2>1. t.e[i] \in Entries(O)
    BY Zenon, EntryFields
  <2>2. i \in Nat
    BY DEF Places
  <2> QED BY Zenon, <2>1, <2>2 DEF Entries, EntryStates
<1>2. setUnused(t, i) = Table([t.e EXCEPT ![i] = x], t.main, t.cap, a, n)
  <2>1. setUnused(t, i) = Table([t.e EXCEPT ![i].st = "Unused", ![i].index = 0, ![i].fd = "invalid"], t.main, t.cap, a, n)
    <3> DEFINE u == setUnused(t, i)
    <3>1. u = [e |-> u.e, main |-> u.main, cap |-> u.cap, assoc |-> u.assoc, used |-> u.used]
      <4>1. u = [f \in Fields |-> u[f]]
        BY TableIsFunction, ZenonT(60) DEF setUnused
      <4> HIDE DEF u
      <4> QED BY <4>1, RecordOfFields
    <3>2. u.e = [t.e EXCEPT ![i].st = "Unused", ![i].index = 0, ![i].fd = "invalid"]
      BY TableFields DEF setUnused
    <3>3. u.main = t.main /\ u.cap = t.cap
      BY TableFields DEF setUnused
    <3>4. u.assoc = a /\ u.used = n
      BY TableFields DEF setUnused
    <3> HIDE DEF u, a, n
    <3>5. u = Table([t.e EXCEPT ![i].st = "Unused", ![i].index = 0, ![i].fd = "invalid"], t.main, t.cap, a, n)
      BY <3>1, <3>2, <3>3, <3>4 DEF Table
    <3> QED BY <3>5 DEF u
  <2>2. [t.e EXCEPT ![i].st = "Unused", ![i].index = 0, ![i].fd = "invalid"] = [t.e EXCEPT ![i] = x]
    BY Zenon, EntryFields DEF Tables, Places
  <2> QED BY <2>1, <2>2
<1>3. a \in Int /\ n \in Int
  BY DEF Tables
<1> HIDE DEF x, a, n
<1>4. /\ Changed(O, t, setUnused(t, i), i, x)
      /\ setUnused(t, i).assoc = a /\ setUnused(t, i).used = n
  BY <1>1, <1>2, <1>3, UpdateLemma
<1> QED BY <1>1, <1>4 DEF x, a, n

(* setSocketClosed invalidates the descriptor of one entry; it lowers      *)
(* associatedCount if the entry was associated.                            *)
LEMMA SetSocketClosedLemma ==
  ASSUME NEW O, NEW t \in Tables(O), NEW i \in Places(t)
  PROVE  LET x == [t.e[i] EXCEPT !.st = "SockClosed", !.fd = "invalid"]
         IN  /\ x \in Entries(O)
             /\ Changed(O, t, setSocketClosed(t, i), i, x)
             /\ setSocketClosed(t, i).assoc = (IF t.e[i].st = "SockAssociated" THEN t.assoc - 1 ELSE t.assoc)
             /\ setSocketClosed(t, i).used = t.used
<1> DEFINE x == [t.e[i] EXCEPT !.st = "SockClosed", !.fd = "invalid"]
           a == IF t.e[i].st = "SockAssociated" THEN t.assoc - 1 ELSE t.assoc
           n == t.used
<1>1. x \in Entries(O)
  <2>1. t.e[i] \in Entries(O)
    BY Zenon, EntryFields
  <2>2. i \in Nat
    BY DEF Places
  <2> QED BY Zenon, <2>1, <2>2 DEF Entries, EntryStates
<1>2. setSocketClosed(t, i) = Table([t.e EXCEPT ![i] = x], t.main, t.cap, a, n)
  <2>1. setSocketClosed(t, i) = Table([t.e EXCEPT ![i].st = "SockClosed", ![i].fd = "invalid"], t.main, t.cap, a, n)
    <3> DEFINE u == setSocketClosed(t, i)
    <3>1. u = [e |-> u.e, main |-> u.main, cap |-> u.cap, assoc |-> u.assoc, used |-> u.used]
      <4>1. u = [f \in Fields |-> u[f]]
        BY TableIsFunction, ZenonT(60) DEF setSocketClosed
      <4> HIDE DEF u
      <4> QED BY <4>1, RecordOfFields
    <3>2. u.e = [t.e EXCEPT ![i].st = "SockClosed", ![i].fd = "invalid"]
      BY TableFields DEF setSocketClosed
    <3>3. u.main = t.main /\ u.cap = t.cap
      BY TableFields DEF setSocketClosed
    <3>4. u.assoc = a /\ u.used = n
      BY TableFields DEF setSocketClosed
    <3> HIDE DEF u, a, n
    <3>5. u = Table([t.e EXCEPT ![i].st = "SockClosed", ![i].fd = "invalid"], t.main, t.cap, a, n)
      BY <3>1, <3>2, <3>3, <3>4 DEF Table
    <3> QED BY <3>5 DEF u
  <2>2. [t.e EXCEPT ![i].st = "SockClosed", ![i].fd = "invalid"] = [t.e EXCEPT ![i] = x]
    BY Zenon, EntryFields DEF Tables, Places
  <2> QED BY <2>1, <2>2
<1>3. a \in Int /\ n \in Int
  BY DEF Tables
<1> HIDE DEF x, a, n
<1>4. /\ Changed(O, t, setSocketClosed(t, i), i, x)
      /\ setSocketClosed(t, i).assoc = a /\ setSocketClosed(t, i).used = n
  BY <1>1, <1>2, <1>3, UpdateLemma
<1> QED BY <1>1, <1>4 DEF x, a, n

(* The reset at the end of a close event frees one entry and keeps both    *)
(* counters.                                                               *)
LEMMA ResetEntryLemma ==
  ASSUME NEW O, NEW t \in Tables(O), NEW i \in Places(t)
  PROVE  LET x == [t.e[i] EXCEPT !.st = "Unused", !.index = i]
         IN  /\ x \in Entries(O)
             /\ Changed(O, t, resetEntry(t, i), i, x)
             /\ resetEntry(t, i).assoc = (t.assoc)
             /\ resetEntry(t, i).used = t.used
<1> DEFINE x == [t.e[i] EXCEPT !.st = "Unused", !.index = i]
           a == t.assoc
           n == t.used
<1>1. x \in Entries(O)
  <2>1. t.e[i] \in Entries(O)
    BY Zenon, EntryFields
  <2>2. i \in Nat
    BY DEF Places
  <2> QED BY Zenon, <2>1, <2>2 DEF Entries, EntryStates
<1>2. resetEntry(t, i) = Table([t.e EXCEPT ![i] = x], t.main, t.cap, a, n)
  <2>1. resetEntry(t, i) = Table([t.e EXCEPT ![i].st = "Unused", ![i].index = i], t.main, t.cap, a, n)
    <3> DEFINE u == resetEntry(t, i)
    <3>1. u = [e |-> u.e, main |-> u.main, cap |-> u.cap, assoc |-> u.assoc, used |-> u.used]
      <4>1. u = [f \in Fields |-> u[f]]
        BY TableIsFunction, ZenonT(60) DEF resetEntry
      <4> HIDE DEF u
      <4> QED BY <4>1, RecordOfFields
    <3>2. u.e = [t.e EXCEPT ![i].st = "Unused", ![i].index = i]
      BY TableFields DEF resetEntry
    <3>3. u.main = t.main /\ u.cap = t.cap
      BY TableFields DEF resetEntry
    <3>4. u.assoc = a /\ u.used = n
      BY TableFields DEF resetEntry
    <3> HIDE DEF u, a, n
    <3>5. u = Table([t.e EXCEPT ![i].st = "Unused", ![i].index = i], t.main, t.cap, a, n)
      BY <3>1, <3>2, <3>3, <3>4 DEF Table
    <3> QED BY <3>5 DEF u
  <2>2. [t.e EXCEPT ![i].st = "Unused", ![i].index = i] = [t.e EXCEPT ![i] = x]
    BY Zenon, EntryFields DEF Tables, Places
  <2> QED BY <2>1, <2>2
<1>3. a \in Int /\ n \in Int
  BY DEF Tables
<1> HIDE DEF x, a, n
<1>4. /\ Changed(O, t, resetEntry(t, i), i, x)
      /\ resetEntry(t, i).assoc = a /\ resetEntry(t, i).used = n
  BY <1>1, <1>2, <1>3, UpdateLemma
<1> QED BY <1>1, <1>4 DEF x, a, n

-----------------------------------------------------------------------------
(* How the table grows. *)

(* A vector that has grown by doubling has room for its elements. One that *)
(* doubles its capacity n times has room for n elements, as the one-element*)
(* sets are among the 2^n subsets of 1 .. n.                               *)
LEMMA GrownLemma ==
  ASSUME Laws, NEW c \in Nat \ {0}, NEW n \in Nat \ {0}
  PROVE  Grown(c, n) \in Nat \ {0} /\ n <= Grown(c, n)
<1>1. ASSUME NEW m \in Nat PROVE 2 ^ m \in Nat /\ m <= 2 ^ m
  <2> DEFINE T == 1 .. m
             f == [x \in T |-> {x}]
  <2>1. IsFiniteSet(T) /\ Cardinality(T) = m
    BY DEF Laws, IntervalLaw
  <2>2. IsFiniteSet(SUBSET T) /\ Cardinality(SUBSET T) = 2 ^ m
    BY Zenon, <2>1 DEF Laws, PowersetLaw
  <2>3. f \in Injection(T, SUBSET T)
    BY DEF Injection, IsInjective
  <2> HIDE DEF T, f
  <2>4. Cardinality(T) <= Cardinality(SUBSET T)
    BY <2>2, <2>3 DEF Laws, InjectionLaw
  <2>5. Cardinality(SUBSET T) \in Nat
    BY <2>2 DEF Laws, CountLaw
  <2> QED BY <2>1, <2>2, <2>4, <2>5
<1> DEFINE S == {d \in {c * 2 ^ k : k \in 0 .. n} : d >= n}
<1>2. S \subseteq Nat
  BY <1>1
<1>3. c * 2 ^ n \in S
  <2> DEFINE p == 2 ^ n
  <2>1. p \in Nat /\ n <= p
    BY <1>1
  <2> HIDE DEF p
  <2>2. c * p >= p
    BY <2>1
  <2>3. c * p >= n
    BY <2>1, <2>2
  <2> QED BY <2>3 DEF p
<1>4. Grown(c, n) \in S
  BY Zenon, <1>2, <1>3 DEF Laws, LeastLaw, Grown
<1> QED BY <1>2, <1>4
-----------------------------------------------------------------------------
(* How many entries compaction keeps. *)
NUsed(t) == Cardinality(UsedUpTo(t, Len(t.e)))

(* Compaction moves every used entry to a place of its own, and fills all  *)
(* the places it leaves.                                                   *)
LEMMA MovedLemma ==
  ASSUME Laws, NEW O, NEW t \in Tables(O)
  PROVE  /\ NUsed(t) \in 0 .. Len(t.e)
         /\ \A k \in 1 .. NUsed(t) : /\ MovedFrom(t, k) \in Places(t)
                                     /\ isUsed(t, MovedFrom(t, k))
         /\ \A j, k \in 1 .. NUsed(t) : MovedFrom(t, j) = MovedFrom(t, k) => j = k
         /\ \A i \in Places(t) : isUsed(t, i) =>
              \E k \in 1 .. NUsed(t) : MovedFrom(t, k) = i
<1> DEFINE Rank(i) == Cardinality(UsedUpTo(t, i))
           U == UsedUpTo(t, Len(t.e))
           r == [i \in U |-> Rank(i)]
           n == NUsed(t)
<1>1. Len(t.e) \in Nat
  BY DEF Tables
<1>2. IsFiniteSet(Places(t)) /\ Cardinality(Places(t)) = Len(t.e)
  BY SMTT(30), <1>1 DEF Laws, IntervalLaw, Places
<1>3. U \subseteq Places(t)
  BY DEF UsedUpTo, Places
<1>4. IsFiniteSet(U) /\ n \in 0 .. Len(t.e)
  <2>1. IsFiniteSet(U) /\ Cardinality(U) <= Len(t.e)
    BY <1>2, <1>3 DEF Laws, SubsetLaw
  <2>2. Cardinality(U) \in Nat
    BY <2>1 DEF Laws, CountLaw
  <2> QED BY <1>1, <2>1, <2>2 DEF NUsed
<1>5. ASSUME NEW i \in U
      PROVE  IsFiniteSet(UsedUpTo(t, i)) /\ Rank(i) \in 1 .. n
  <2>1. UsedUpTo(t, i) \subseteq U /\ i \in UsedUpTo(t, i)
    BY <1>1 DEF UsedUpTo
  <2>2. IsFiniteSet(UsedUpTo(t, i)) /\ Rank(i) <= n
    BY <1>4, <2>1 DEF Laws, SubsetLaw, NUsed
  <2>3. Rank(i) \in Nat /\ Rank(i) # 0
    BY <2>1, <2>2 DEF Laws, CountLaw, EmptyLaw
  <2> QED BY <1>4, <2>2, <2>3
<1>6. ASSUME NEW i \in U, NEW j \in U, i < j
      PROVE  Rank(i) < Rank(j)
  <2> DEFINE V == UsedUpTo(t, j) \ {j}
  <2>1. UsedUpTo(t, i) \subseteq V /\ j \in UsedUpTo(t, j)
    BY <1>1, <1>6 DEF UsedUpTo
  <2>2. IsFiniteSet(V) /\ Cardinality(V) = Rank(j) - 1
    BY <1>5, <2>1 DEF Laws, RemoveLaw
  <2>3. Rank(i) <= Cardinality(V)
    BY <2>1, <2>2 DEF Laws, SubsetLaw
  <2> QED BY <1>5, <2>2, <2>3
<1>7. r \in Injection(U, 1 .. n)
  <2>1. r \in [U -> 1 .. n]
    BY <1>5
  <2>2. ASSUME NEW i \in U, NEW j \in U, r[i] = r[j] PROVE i = j
    <3>1. i \in Int /\ j \in Int
      BY <1>1 DEF UsedUpTo
    <3>2. Rank(i) \in Int /\ Rank(j) \in Int /\ Rank(i) = Rank(j)
      BY <1>5, <2>2
    <3>3. ~(i < j) /\ ~(j < i)
      BY <1>6, <3>2
    <3> QED BY <3>1, <3>3
  <2> QED BY <2>1, <2>2 DEF Injection, IsInjective
<1>8. \A k \in 1 .. n : \E i \in U : Rank(i) = k
  <2>1. IsFiniteSet(1 .. n) /\ Cardinality(1 .. n) = Cardinality(U)
    BY <1>4 DEF Laws, IntervalLaw, NUsed
  <2>2. r \in Surjection(U, 1 .. n)
    BY <1>7, <2>1 DEF Laws, InjectionLaw
  <2> HIDE DEF U, n
  <2> QED BY Zenon, <2>2 DEF Surjection
<1>9. ASSUME NEW k \in 1 .. n
      PROVE  MovedFrom(t, k) \in U /\ Rank(MovedFrom(t, k)) = k
  BY <1>8 DEF MovedFrom
<1>10. ASSUME NEW i \in Places(t), isUsed(t, i)
       PROVE  \E k \in 1 .. n : MovedFrom(t, k) = i
  <2>1. i \in U
    BY <1>1, <1>10 DEF UsedUpTo, Places
  <2>2. Rank(i) \in 1 .. n
    BY <1>5, <2>1
  <2>3. MovedFrom(t, Rank(i)) \in U /\ r[MovedFrom(t, Rank(i))] = r[i]
    BY <1>9, <2>1, <2>2
  <2>4. MovedFrom(t, Rank(i)) = i
    BY Zenon, <1>7, <2>1, <2>3 DEF Injection, IsInjective
  <2> QED BY <2>2, <2>4
<1>11. \A j, k \in 1 .. n : MovedFrom(t, j) = MovedFrom(t, k) => j = k
  BY <1>9
<1>12. \A k \in 1 .. n : MovedFrom(t, k) \in Places(t) /\ isUsed(t, MovedFrom(t, k))
  BY Zenon, <1>9, <1>3 DEF UsedUpTo
<1> QED BY <1>4, <1>10, <1>11, <1>12

-----------------------------------------------------------------------------
(* Updates of several fields at once. *)
LEMMA UpdatedMainCap ==
  ASSUME NEW O, NEW t \in Tables(O), NEW m, NEW c
  PROVE  [t EXCEPT !.main = m, !.cap = c] = Table(t.e, m, c, t.assoc, t.used)
<1> DEFINE u == [t EXCEPT !.main = m, !.cap = c]
<1>1. u = [f \in Fields |-> u[f]]
  BY TableIsFunction, ZenonT(60)
<1>2. u.e = t.e /\ u.main = m /\ u.cap = c /\ u.assoc = t.assoc /\ u.used = t.used
  BY TableFields
<1> HIDE DEF u
<1>3. u = [e |-> u.e, main |-> u.main, cap |-> u.cap, assoc |-> u.assoc, used |-> u.used]
  BY <1>1, RecordOfFields
<1>4. u = Table(t.e, m, c, t.assoc, t.used)
  BY <1>2, <1>3 DEF Table
<1> QED BY <1>4 DEF u

(* Compaction, as an update of three fields. *)
LEMMA UpdatedEntriesMainCap ==
  ASSUME NEW O, NEW t \in Tables(O), NEW q, NEW m, NEW c
  PROVE  [t EXCEPT !.e = q, !.main = m, !.cap = c] = Table(q, m, c, t.assoc, t.used)
<1> DEFINE u == [t EXCEPT !.e = q, !.main = m, !.cap = c]
<1>1. u = [f \in Fields |-> u[f]]
  BY TableIsFunction, ZenonT(60)
<1>2. u.e = q /\ u.main = m /\ u.cap = c /\ u.assoc = t.assoc /\ u.used = t.used
  BY TableFields
<1> HIDE DEF u
<1>3. u = [e |-> u.e, main |-> u.main, cap |-> u.cap, assoc |-> u.assoc, used |-> u.used]
  BY <1>1, RecordOfFields
<1>4. u = Table(q, m, c, t.assoc, t.used)
  BY <1>2, <1>3 DEF Table
<1> QED BY <1>4 DEF u

(* addEntry into a free slot, as an update of two fields. *)
LEMMA UpdatedEntriesUsed ==
  ASSUME NEW O, NEW t \in Tables(O), NEW q, NEW n
  PROVE  [t EXCEPT !.e = q, !.used = n] = Table(q, t.main, t.cap, t.assoc, n)
<1> DEFINE u == [t EXCEPT !.e = q, !.used = n]
<1>1. u = [f \in Fields |-> u[f]]
  BY TableIsFunction, ZenonT(60)
<1>2. u.e = q /\ u.main = t.main /\ u.cap = t.cap /\ u.assoc = t.assoc /\ u.used = n
  BY TableFields
<1> HIDE DEF u
<1>3. u = [e |-> u.e, main |-> u.main, cap |-> u.cap, assoc |-> u.assoc, used |-> u.used]
  BY <1>1, RecordOfFields
<1>4. u = Table(q, t.main, t.cap, t.assoc, n)
  BY <1>2, <1>3 DEF Table
<1> QED BY <1>4 DEF u

Recounted(t, q, a, n) == [t EXCEPT !.e = q, !.assoc = a, !.used = n]

(* Freeing several entries, as an update of three fields. *)
LEMMA UpdatedEntriesCounts ==
  ASSUME NEW O, NEW t \in Tables(O), NEW q, NEW a, NEW n
  PROVE  Recounted(t, q, a, n) = Table(q, t.main, t.cap, a, n)
<1> DEFINE u == Recounted(t, q, a, n)
<1>1. u = [f \in Fields |-> u[f]]
  BY TableIsFunction, ZenonT(60) DEF Recounted
<1>2. u.e = q /\ u.main = t.main /\ u.cap = t.cap /\ u.assoc = a /\ u.used = n
  BY TableFields DEF Recounted
<1> HIDE DEF u
<1>3. u = [e |-> u.e, main |-> u.main, cap |-> u.cap, assoc |-> u.assoc, used |-> u.used]
  BY <1>1, RecordOfFields
<1>4. u = Table(q, t.main, t.cap, a, n)
  BY <1>2, <1>3 DEF Table
<1> QED BY <1>4 DEF u

WithEntries(t, q) == [t EXCEPT !.e = q]

(* Storing revents, as an update of one field. *)
LEMMA UpdatedEntries ==
  ASSUME NEW O, NEW t \in Tables(O), NEW q \in Seq(Entries(O))
  PROVE  LET u == WithEntries(t, q)
         IN  /\ u \in Tables(O) /\ u.e = q /\ u.main = t.main /\ u.cap = t.cap
             /\ u.assoc = t.assoc /\ u.used = t.used
BY DEF Tables, WithEntries

(* addEntry at the end, as an update of three fields. *)
LEMMA UpdatedEntriesUsedMain ==
  ASSUME NEW O, NEW t \in Tables(O), NEW q, NEW n, NEW m
  PROVE  [t EXCEPT !.e = q, !.used = n, !.main = m] = Table(q, m, t.cap, t.assoc, n)
<1> DEFINE u == [t EXCEPT !.e = q, !.used = n, !.main = m]
<1>1. u = [f \in Fields |-> u[f]]
  BY TableIsFunction, ZenonT(60)
<1>2. u.e = q /\ u.main = m /\ u.cap = t.cap /\ u.assoc = t.assoc /\ u.used = n
  BY TableFields
<1> HIDE DEF u
<1>3. u = [e |-> u.e, main |-> u.main, cap |-> u.cap, assoc |-> u.assoc, used |-> u.used]
  BY <1>1, RecordOfFields
<1>4. u = Table(q, m, t.cap, t.assoc, n)
  BY <1>2, <1>3 DEF Table
<1> QED BY <1>4 DEF u

(* ourSide is a prefix of the table that fits its capacity, and entries    *)
(* accumulate only while it is full.                                       *)
Fits(t) ==
  /\ t.main <= Len(t.e) /\ t.main + 1 <= t.cap
  /\ Len(t.e) > t.main => t.main + 1 = t.cap

(* The first half of reworkIfNecessary moves the accumulated entries into  *)
(* ourSide, makes room for them and changes none.                          *)
LEMMA JoinedLemma ==
  ASSUME Laws, NEW O, NEW t \in Tables(O), Fits(t)
  PROVE  /\ Joined(t) \in Tables(O) /\ Fits(Joined(t))
         /\ Joined(t).e = t.e /\ Joined(t).main = Len(t.e)
         /\ Joined(t).assoc = t.assoc /\ Joined(t).used = t.used
<1> DEFINE n == Len(t.e)
           c == IF n > t.main THEN Grown(t.cap, n + 1) ELSE t.cap
<1>1. /\ t.e \in Seq(Entries(O)) /\ n \in Nat /\ t.main \in Nat /\ t.cap \in Nat
      /\ t.assoc \in Int /\ t.used \in Int
  BY DEF Tables
<1>2. t.cap \in Nat \ {0} /\ n + 1 \in Nat \ {0}
  BY <1>1 DEF Fits
<1>3. c \in Nat /\ n + 1 <= c
  <2>1. CASE n > t.main
    BY Zenon, <1>2, <2>1, GrownLemma
  <2>2. CASE ~(n > t.main)
    BY <1>1, <2>2 DEF Fits
  <2> QED BY <2>1, <2>2
<1>4. Joined(t) = Table(t.e, n, c, t.assoc, t.used)
  BY UpdatedMainCap, Zenon DEF Joined
<1> HIDE DEF c
<1>5. /\ Joined(t) \in Tables(O)
      /\ Joined(t).e = t.e /\ Joined(t).main = n /\ Joined(t).cap = c
      /\ Joined(t).assoc = t.assoc /\ Joined(t).used = t.used
  BY <1>1, <1>3, <1>4, TableType
<1>6. Fits(Joined(t))
  BY <1>1, <1>3, <1>5 DEF Fits
<1> QED BY <1>5, <1>6

(* makeCompactIfNecessary leaves the used entries, renumbered from the     *)
(* start, and the counters as they were.                                   *)
LEMMA CompactedLemma ==
  ASSUME Laws, NEW O, NEW t \in Tables(O)
  PROVE  /\ Compacted(t) \in Tables(O) /\ Fits(Compacted(t))
         /\ Len(Compacted(t).e) = NUsed(t) /\ Compacted(t).main = NUsed(t)
         /\ Compacted(t).assoc = t.assoc /\ Compacted(t).used = t.used
         /\ \A k \in 1 .. NUsed(t) :
              Compacted(t).e[k] = [t.e[MovedFrom(t, k)] EXCEPT !.index = k]
<1> DEFINE n == NUsed(t)
           q == [k \in 1 .. n |-> [t.e[MovedFrom(t, k)] EXCEPT !.index = k]]
           c == Grown(InitialCapacity, n + 1)
<1>1. n \in Nat
  BY MovedLemma DEF Tables
<1>2. c \in Nat /\ n + 1 <= c
  BY <1>1, GrownLemma DEF InitialCapacity
<1>3. ASSUME NEW k \in 1 .. n
      PROVE  [t.e[MovedFrom(t, k)] EXCEPT !.index = k] \in Entries(O)
  <2>1. t.e[MovedFrom(t, k)] \in Entries(O)
    BY Zenon, MovedLemma, EntryFields
  <2>2. k \in Nat
    BY <1>1
  <2> QED BY <2>1, <2>2 DEF Entries
<1>4. q \in Seq(Entries(O)) /\ Len(q) = n
  BY <1>1, <1>3
<1>5. Compacted(t) = Table(q, n, c, t.assoc, t.used)
  BY UpdatedEntriesMainCap, Zenon DEF Compacted, NUsed
<1>6. t.assoc \in Int /\ t.used \in Int
  BY DEF Tables
<1>7. \A k \in 1 .. n : q[k] = [t.e[MovedFrom(t, k)] EXCEPT !.index = k]
  OBVIOUS
<1> HIDE DEF c, q, n
<1>8. /\ Compacted(t) \in Tables(O)
      /\ Compacted(t).e = q /\ Compacted(t).main = n /\ Compacted(t).cap = c
      /\ Compacted(t).assoc = t.assoc /\ Compacted(t).used = t.used
  BY <1>1, <1>2, <1>4, <1>5, <1>6, TableType
<1>9. Fits(Compacted(t))
  BY <1>1, <1>2, <1>4, <1>8 DEF Fits
<1> QED BY <1>4, <1>7, <1>8, <1>9 DEF n

(* Entries d and f belong to the same object and are in the same state. *)
Alike(d, f) == f.owner = d.owner /\ f.st = d.st /\ f.fd = d.fd

(* The table t holds the used entries of table a, and no more than its     *)
(* entries.                                                                *)
KeepsUsed(O, a, t) ==
  /\ t \in Tables(O) /\ Fits(t) /\ Len(t.e) <= Len(a.e)
  /\ \A k \in Places(t) : \E i \in Places(a) : Alike(a.e[i], t.e[k])
  /\ \A i \in Places(a) : isUsed(a, i) =>
       \E k \in Places(t) : Alike(a.e[i], t.e[k])
  /\ \A j, k \in Places(t) : t.e[j].owner = t.e[k].owner => j = k

(* reworkIfNecessary loses no used entry, and gives no object two.         *)
LEMMA ReworkedLemma ==
  ASSUME Laws, NEW O, NEW a \in Tables(O), Fits(a),
         \A j, k \in Places(a) : a.e[j].owner = a.e[k].owner => j = k
  PROVE  KeepsUsed(O, a, reworkIfNecessary(a))
<1> DEFINE u == Joined(a)
           t == Compacted(u)
           n == NUsed(u)
<1>1. Len(a.e) \in Nat
  BY DEF Tables
<1>2. u \in Tables(O) /\ Fits(u) /\ u.e = a.e
  BY JoinedLemma
<1>3. Places(u) = Places(a)
  BY <1>2 DEF Places
<1>4. CASE ~MustCompact(u)
  <2>1. reworkIfNecessary(a) = u
    BY <1>4 DEF reworkIfNecessary
  <2> HIDE DEF u
  <2>2. \A k \in Places(a) : Alike(a.e[k], u.e[k])
    BY <1>2 DEF Alike
  <2>3. KeepsUsed(O, a, u)
    BY <1>1, <1>2, <1>3, <2>2 DEF KeepsUsed
  <2> QED BY <2>1, <2>3
<1>5. CASE MustCompact(u)
  <2>1. reworkIfNecessary(a) = t
    BY <1>5 DEF reworkIfNecessary
  <2> HIDE DEF u
  <2>2. /\ t \in Tables(O) /\ Fits(t) /\ Len(t.e) = n
        /\ \A k \in 1 .. n : t.e[k] = [u.e[MovedFrom(u, k)] EXCEPT !.index = k]
    BY <1>2, CompactedLemma
  <2>3. /\ n \in 0 .. Len(u.e)
        /\ \A k \in 1 .. n : MovedFrom(u, k) \in Places(u) /\ isUsed(u, MovedFrom(u, k))
        /\ \A j, k \in 1 .. n : MovedFrom(u, j) = MovedFrom(u, k) => j = k
        /\ \A i \in Places(u) : isUsed(u, i) => \E k \in 1 .. n : MovedFrom(u, k) = i
    BY <1>2, MovedLemma, ZenonT(60)
  <2> HIDE DEF t, n
  <2>4. Places(t) = 1 .. n /\ Len(t.e) <= Len(a.e)
    BY <1>1, <1>2, <2>2, <2>3 DEF Places
  <2>5. ASSUME NEW k \in 1 .. n
        PROVE  MovedFrom(u, k) \in Places(a) /\ Alike(a.e[MovedFrom(u, k)], t.e[k])
    <3>1. MovedFrom(u, k) \in Places(a)
      BY <1>3, <2>3
    <3>2. u.e[MovedFrom(u, k)] \in Entries(O)
      BY <1>2, <1>3, <3>1, EntryFields, Zenon
    <3>3. Alike(u.e[MovedFrom(u, k)], t.e[k])
      BY <2>2, <3>2, ZenonT(60) DEF Alike, Entries
    <3> QED BY <1>2, <3>1, <3>3, Zenon
  <2>6. ASSUME NEW i \in Places(a), isUsed(a, i)
        PROVE  \E k \in Places(t) : Alike(a.e[i], t.e[k])
    <3>1. PICK k \in 1 .. n : MovedFrom(u, k) = i
      BY <1>2, <1>3, <2>3, <2>6 DEF isUsed
    <3> QED BY <2>4, <2>5, <3>1
  <2>7. ASSUME NEW j \in 1 .. n, NEW k \in 1 .. n, t.e[j].owner = t.e[k].owner
        PROVE  j = k
    <3>1. MovedFrom(u, j) = MovedFrom(u, k)
      BY <2>5, <2>7 DEF Alike
    <3> QED BY <2>3, <3>1
  <2>8. KeepsUsed(O, a, t)
    BY <2>2, <2>4, <2>5, <2>6, <2>7 DEF KeepsUsed
  <2> QED BY <2>1, <2>8
<1> QED BY <1>4, <1>5

-----------------------------------------------------------------------------
(* addEntry takes the place of an entry that is not used, or a new one at  *)
(* the end, and touches no other entry.                                    *)
LEMMA AddEntryLemma ==
  ASSUME Laws, NEW O, NEW t \in Tables(O), Fits(t), NEW s \in O
  PROVE  LET u == addEntry(t, s)
             i == NewIndex(t)
         IN  /\ u \in Tables(O) /\ Fits(u) /\ t.main <= u.main
             /\ u.assoc = t.assoc /\ u.cap = t.cap
             /\ i \in Places(u) /\ u.e[i] = Entry(s, i)
             /\ \/ i \in Places(t) /\ ~isUsed(t, i) /\ Len(u.e) = Len(t.e)
                \/ i = Len(t.e) + 1 /\ Len(u.e) = Len(t.e) + 1
             /\ \A j \in Places(t) : j # i => u.e[j] = t.e[j]
<1> DEFINE i == NewIndex(t)
           u == addEntry(t, s)
           x == Entry(s, i)
           F == FreeSlots(t)
<1>1. /\ t.e \in Seq(Entries(O)) /\ Len(t.e) \in Nat /\ t.main \in Nat /\ t.cap \in Nat
      /\ t.assoc \in Int /\ t.used \in Int /\ t.used + 1 \in Int
      /\ t.main <= Len(t.e)
  BY DEF Tables, Fits
<1>2. F # {} => i \in F
  <2>1. F \subseteq Nat
    BY <1>1 DEF FreeSlots
  <2> QED BY <2>1 DEF Laws, LeastLaw, NewIndex
<1>3. i \in Nat
  BY <1>1, <1>2 DEF NewIndex, FreeSlots
<1>4. x \in Entries(O)
  <2> HIDE DEF i
  <2> QED BY <1>3 DEF Entry, Entries, EntryStates
<1>5. CASE F # {}
  <2>1. i \in 1 .. t.main /\ ~isUsed(t, i)
    BY <1>2, <1>5 DEF FreeSlots
  <2>2. i \in Places(t) /\ i <= t.main
    BY <1>1, <2>1 DEF Places
  <2>3. u = Table([t.e EXCEPT ![i] = x], t.main, t.cap, t.assoc, t.used + 1)
    <3>1. u = [t EXCEPT !.e = [t.e EXCEPT ![i] = x], !.used = t.used + 1]
      BY <2>2 DEF addEntry
    <3> HIDE DEF u, i, x
    <3> QED BY <3>1, UpdatedEntriesUsed, Zenon
  <2> HIDE DEF i, x, u
  <2>4. Changed(O, t, u, i, x) /\ u.assoc = t.assoc
    BY <1>1, <1>4, <2>2, <2>3, UpdateLemma
  <2>5. Fits(u) /\ u.cap = t.cap
    BY <2>4 DEF Changed, Fits
  <2>6. i \in Places(u) /\ t.main <= u.main
    BY <1>1, <2>2, <2>4 DEF Changed, Places
  <2>7. /\ u \in Tables(O) /\ u.e[i] = x /\ Len(u.e) = Len(t.e)
        /\ \A j \in Places(t) : j # i => u.e[j] = t.e[j]
    BY <2>4 DEF Changed
  <2> QED BY <2>1, <2>2, <2>4, <2>5, <2>6, <2>7 DEF i, x, u
<1>6. CASE F = {}
  <2> DEFINE q == Append(t.e, x)
             m == IF t.main + 1 < t.cap THEN t.main + 1 ELSE t.main
  <2>1. i = Len(t.e) + 1 /\ ~(i <= t.main)
    BY <1>1, <1>6 DEF NewIndex
  <2>2. u = Table(q, m, t.cap, t.assoc, t.used + 1)
    <3>1. u = [t EXCEPT !.e = q, !.used = t.used + 1, !.main = m]
      BY <2>1 DEF addEntry
    <3> HIDE DEF u, q, m
    <3> QED BY <3>1, UpdatedEntriesUsedMain, ZenonT(60)
  <2>3. m \in Nat /\ t.main <= m
    BY <1>1
  <2>4. /\ q \in Seq(Entries(O)) /\ Len(q) = Len(t.e) + 1 /\ q[Len(t.e) + 1] = x
        /\ \A j \in Places(t) : q[j] = t.e[j]
    BY <1>1, <1>4 DEF Places
  <2>5. /\ m <= Len(t.e) + 1 /\ m + 1 <= t.cap
        /\ Len(t.e) + 1 > m => m + 1 = t.cap
    BY <1>1 DEF Fits
  <2> HIDE DEF i, x, u, q, m
  <2>6. /\ u \in Tables(O) /\ u.e = q /\ u.main = m /\ u.cap = t.cap
        /\ u.assoc = t.assoc
    BY <1>1, <2>2, <2>3, <2>4, TableType
  <2>7. Fits(u)
    BY <2>4, <2>5, <2>6 DEF Fits
  <2>8. i \in Places(u)
    BY <1>1, <2>1, <2>4, <2>6 DEF Places
  <2> QED BY <2>1, <2>3, <2>4, <2>6, <2>7, <2>8 DEF i, x, u
<1> QED BY Zenon, <1>5, <1>6

(* In table u object o has the used entry i, which was free in table t or  *)
(* is new; the other entries are those of t.                               *)
TakesEntry(t, u, i, o) ==
  /\ t.main <= u.main /\ u.cap = t.cap
  /\ i \in Places(u) /\ Used(u.e[i]) /\ u.e[i].owner = o
  /\ \/ i \in Places(t) /\ ~isUsed(t, i) /\ Len(u.e) = Len(t.e)
     \/ i = Len(t.e) + 1 /\ Len(u.e) = Len(t.e) + 1
  /\ \A j \in Places(t) : j # i => u.e[j] = t.e[j]

(* Then no used entry is lost, and o has no other if it had none. Unless   *)
(* it is i, what ourSide holds from some index on it held before.          *)
EntryTaken(t, u, i, o) ==
  /\ i \in Nat /\ i <= Len(u.e) /\ Len(u.e) \in Nat /\ t.main \in Nat /\ u.main \in Nat
  /\ Places(t) \subseteq Places(u)
  /\ \A j \in Places(u) : j # i => j \in Places(t) /\ u.e[j] = t.e[j]
  /\ \A j \in Places(t) : isUsed(t, j) => j # i /\ isUsed(u, j)
  /\ (/\ \A j \in Places(t) : t.e[j].owner # o
      /\ \A j, k \in Places(t) : t.e[j].owner = t.e[k].owner => j = k) =>
       \A j, k \in Places(u) : u.e[j].owner = u.e[k].owner => j = k
  /\ \A n \in Nat : \A j \in n + 1 .. u.main : j # i =>
       j \in Places(t) /\ u.e[j] = t.e[j] /\ j \in n + 1 .. t.main

LEMMA TakesEntryLemma ==
  ASSUME NEW O, NEW t \in Tables(O), NEW u \in Tables(O), Fits(t), Fits(u),
         NEW i, NEW o, TakesEntry(t, u, i, o)
  PROVE  EntryTaken(t, u, i, o)
<1>1. /\ t.main \in Nat /\ t.cap \in Nat /\ u.main \in Nat
      /\ Len(t.e) \in Nat /\ Len(u.e) \in Nat
  BY DEF Tables
<1>2. /\ \/ i \in Places(t) /\ ~isUsed(t, i) /\ Len(u.e) = Len(t.e)
         \/ i = Len(t.e) + 1 /\ Len(u.e) = Len(t.e) + 1
      /\ i \in Places(u) /\ u.e[i].owner = o /\ u.cap = t.cap
      /\ \A j \in Places(t) : j # i => u.e[j] = t.e[j]
  BY Zenon DEF TakesEntry
<1>3. Places(t) \subseteq Places(u) /\ i \in Nat /\ i <= Len(u.e)
  BY <1>1, <1>2 DEF Places
<1>4. \A j \in Places(u) : j # i => j \in Places(t)
  BY <1>1, <1>2 DEF Places
<1>5. \A j \in Places(u) : j # i => u.e[j] = t.e[j]
  BY <1>2, <1>4, Zenon
<1>6. \A j \in Places(t) : isUsed(t, j) => j # i
  BY <1>1, <1>2 DEF Places
<1>7. \A j \in Places(t) : isUsed(t, j) => isUsed(u, j)
  BY <1>3, <1>5, <1>6, Zenon DEF isUsed
<1>8. ASSUME \A j \in Places(t) : t.e[j].owner # o,
             \A j, k \in Places(t) : t.e[j].owner = t.e[k].owner => j = k,
             NEW j \in Places(u), NEW k \in Places(u), u.e[j].owner = u.e[k].owner
      PROVE  j = k
  BY <1>2, <1>4, <1>5, <1>8, Zenon
<1>9. ASSUME NEW n \in Nat, NEW j \in n + 1 .. u.main, j # i
      PROVE  j \in Places(t) /\ u.e[j] = t.e[j] /\ j \in n + 1 .. t.main
  <2>1. j \in Places(u) /\ j \in Nat /\ n + 1 <= j /\ j <= u.main
    BY <1>1, <1>9 DEF Places, Fits
  <2>2. j \in Places(t) /\ j <= Len(t.e)
    BY <1>1, <1>4, <1>9, <2>1 DEF Places
  <2>3. j <= t.main
    BY <1>1, <1>2, <2>1, <2>2 DEF Fits
  <2> QED BY <1>1, <1>5, <1>9, <2>1, <2>2, <2>3
<1> QED BY <1>1, <1>3, <1>4, <1>5, <1>6, <1>7, <1>8, <1>9, Zenon DEF EntryTaken

(* addEntry gives its object an entry in this way. *)
LEMMA AddEntryTakes ==
  ASSUME Laws, NEW O, NEW t \in Tables(O), Fits(t), NEW s \in O
  PROVE  /\ addEntry(t, s) \in Tables(O) /\ Fits(addEntry(t, s))
         /\ TakesEntry(t, addEntry(t, s), NewIndex(t), s)
         /\ addEntry(t, s).e[NewIndex(t)] = Entry(s, NewIndex(t))
<1> DEFINE u == addEntry(t, s)
           i == NewIndex(t)
<1>1. /\ u \in Tables(O) /\ Fits(u) /\ t.main <= u.main /\ u.cap = t.cap
      /\ i \in Places(u) /\ u.e[i] = Entry(s, i)
      /\ \/ i \in Places(t) /\ ~isUsed(t, i) /\ Len(u.e) = Len(t.e)
         \/ i = Len(t.e) + 1 /\ Len(u.e) = Len(t.e) + 1
      /\ \A j \in Places(t) : j # i => u.e[j] = t.e[j]
  BY AddEntryLemma
<1> HIDE DEF u, i
<1>2. Used(Entry(s, i)) /\ Entry(s, i).owner = s
  BY DEF Entry, Used
<1>3. TakesEntry(t, u, i, s)
  BY <1>1, <1>2, Zenon DEF TakesEntry
<1> QED BY <1>1, <1>3, Zenon DEF u, i

(* It still does when the entry then changes, as long as it is used by the *)
(* same object.                                                            *)
LEMMA ChangedTakes ==
  ASSUME NEW O, NEW t \in Tables(O), NEW u \in Tables(O), Fits(t), Fits(u),
         NEW i, NEW o, TakesEntry(t, u, i, o),
         NEW x, NEW w, Changed(O, u, w, i, x), Used(x), x.owner = o
  PROVE  /\ w \in Tables(O) /\ Fits(w) /\ w.e[i] = x
         /\ TakesEntry(t, w, i, o)
<1>1. /\ w \in Tables(O) /\ Len(w.e) = Len(u.e) /\ w.main = u.main
      /\ w.cap = u.cap /\ w.e[i] = x
      /\ \A j \in Places(u) : j # i => w.e[j] = u.e[j]
  BY Zenon DEF Changed
<1>2. Fits(w) /\ Places(w) = Places(u)
  BY <1>1, Zenon DEF Fits, Places
<1>3. EntryTaken(t, u, i, o)
  BY TakesEntryLemma
<1>4. \A j \in Places(t) : j # i => w.e[j] = t.e[j]
  BY <1>1, <1>3, Zenon DEF EntryTaken
<1>5. TakesEntry(t, w, i, o)
  BY <1>1, <1>2, <1>4, Zenon DEF TakesEntry
<1> QED BY <1>1, <1>2, <1>5, Zenon

=============================================================================
