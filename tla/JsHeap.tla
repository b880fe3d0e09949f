------------------------------- MODULE JsHeap -------------------------------
(***************************************************************************)
(* The JavaScript layer at work (js_compat.h, js_compat.cpp): objects and  *)
(* arrays that own each other through owning pointers and refer to each    *)
(* other through soft ones, and calls, which publish their arguments in    *)
(* threadLocalData.currentArgs.                                            *)
(*                                                                         *)
(* User code holds JSVars and JSOwnObjs in local variables. An expression  *)
(* such as a[k][l] = v is a chain of steps through ref, the JSRLValue that *)
(* the last operator [] returned; it is a temporary, which dies with the   *)
(* expression. Storing a JSRLValue, a raw pointer, is not modelled.        *)
(*                                                                         *)
(* A place where the code executes "throw;" or fails an assertion ends the *)
(* program. Dereferencing an empty or a stale pointer throws an exception  *)
(* of the memory safety library and changes nothing: no step.              *)
(***************************************************************************)
EXTENDS JsValues, FiniteSets, FiniteSetsExt, Functions

CONSTANTS
  Objs,       \* bound: the objects ever made
  Vars,       \* the JSVars of the program
  Owns,       \* its JSOwnObjs
  Literals,   \* the values it assigns from literals
  IndexKeys,  \* the numbers it indexes with
  StringKeys, \* the strings it indexes with
  MaxCalls,   \* bound: operations the program performs
  MaxValueOps,\* bound: operators on values are among the first so many
  MaxMakeOps, \* bound: objects are made among the first so many
  MaxDepth,   \* bound: depth of calls
  MaxNum,     \* bound: numbers stay at most this
  MaxLen      \* bound: strings stay at most this long

VARIABLES
  heap,     \* the objects
  var,      \* the JSVars
  own,      \* the object each JSOwnObj owns, or Null
  ref,      \* the JSRLValue of the expression being evaluated
  args,     \* threadLocalData.currentArgs
  frames,   \* the running calls: each owns its arguments, and its JSStackMan
            \* holds the arguments of its caller
  calls,    \* bound: operations performed
  ended     \* the program has been terminated

vars == <<heap, var, own, ref, args, frames, calls, ended>>

-----------------------------------------------------------------------------
(* JSVarOrOwn, what an object holds at a key or an index. *)
EmptySlot == [t |-> "undef"]
VarSlot(v) == [t |-> "var", v |-> v]
ObjSlot(o) == [t |-> "obj", o |-> o]

Dead == [kind |-> "dead"]
Free == [kind |-> "free"]
Object(p) == [kind |-> "object", props |-> p, elems |-> <<>>, cap |-> 0]

(* The capacity of a vector after push_back: it doubles when it is full.   *)
Doubled(cap, n) ==
  LET c == IF cap = 0 THEN 1 ELSE cap
  IN  IF n <= cap THEN cap ELSE Min({c * 2 ^ k : k \in 0 .. n} \ (0 .. n - 1))

Array(slots) == [kind |-> "array", props |-> <<>>, elems |-> slots,
                 cap |-> Doubled(0, Len(slots))]

Live(h) == {o \in Objs : h[o].kind \in {"object", "array"}}
IsArray(h, o) == h[o].kind = "array"

(* The object the next make_owning creates. *)
Fresh(h) == CHOOSE o \in Objs : h[o] = Free
CanMake == calls < MaxMakeOps /\ \E o \in Objs : heap[o] = Free

SlotsOf(h, o) == Range(h[o].props) \cup Range(h[o].elems)

(* The objects o owns directly. *)
OwnedBy(h, o) == {s.o : s \in {s \in SlotsOf(h, o) : s.t = "obj"}} \ {Null}

(* o and what dies with it: the destructors follow the owning pointers,    *)
(* at most as many links as there are objects.                             *)
Subtree(h, o) ==
  FoldSet(LAMBDA link, s : s \cup UNION {OwnedBy(h, b) : b \in s \cap Live(h)},
          {o}, Objs)

(* The destructor of an owning pointer to o. *)
Destroy(h, o) ==
  IF o = Null THEN h
  ELSE LET dying == Subtree(h, o)
       IN  [b \in Objs |-> IF b \in dying THEN Dead ELSE h[b]]

(* o is in a loop of owners with one of these. Nothing but a slot in the   *)
(* loop owns any object of it, and when that slot lets go, the destructors *)
(* come back to the object they started from. What that does is not said:  *)
(* the program ends.                                                       *)
InLoop(h, o, owned) == \E d \in owned \ {Null} : o \in Subtree(h, d)

-----------------------------------------------------------------------------
(* A place in an object is [in |-> "props", k |-> key] or                  *)
(* [in |-> "elems", i |-> position from 0].                                *)
SlotAt(h, o, p) ==
  IF p.in = "props" THEN h[o].props[p.k] ELSE h[o].elems[p.i + 1]

WithSlot(h, o, p, s) ==
  IF p.in = "props" THEN [h EXCEPT ![o].props[p.k] = s]
  ELSE [h EXCEPT ![o].elems[p.i + 1] = s]

(* What an indexing returns: the heap it leaves and the place. *)
Found(h, o, p) == [h |-> h, r |-> [t |-> "value", o |-> o, p |-> p]]
NotFound(h) == [h |-> h, r |-> [t |-> "undef"]]
FoundVar(h, v) == [h |-> h, r |-> [t |-> "var", v |-> v]]

(* findOrAdd: reading an absent key adds it. *)
findOrAdd(h, o, k) ==
  Found(IF k \in DOMAIN h[o].props THEN h
        ELSE [h EXCEPT ![o].props = (k :> EmptySlot) @@ @],
        o, [in |-> "props", k |-> k])

ElementAtShort(h, o, i) ==
  LET a == h[o]
      cap == IF a.cap > i THEN a.cap ELSE i
  IN  Found(IF i < Len(a.elems) THEN h
            ELSE [h EXCEPT ![o].cap = cap,
                           ![o].elems = [j \in 1 .. cap |->
                             IF j <= Len(a.elems) THEN a.elems[j]
                             ELSE EmptySlot]],
            o, [in |-> "elems", i |-> i])

(* JSArray::operator [] (size_t): reading past the end makes the array as  *)
(* long as the capacity reserve() leaves.                                  *)
elementAt(h, o, i) ==
  LET a == h[o]
      cap == IF a.cap > i + 1 THEN a.cap ELSE i + 1
  IN  Found(IF i < Len(a.elems) THEN h
            ELSE [h EXCEPT ![o].cap = cap,
                           ![o].elems = [j \in 1 .. cap |->
                             IF j <= Len(a.elems) THEN a.elems[j]
                             ELSE EmptySlot]],
            o, [in |-> "elems", i |-> i])

(* A key is [k |-> "index", i |-> n], [k |-> "string", s |-> s] or         *)
(* [k |-> "var", v |-> v]. JSObject's operator [] turns it into a string.  *)
objectAt(h, o, key) ==
  findOrAdd(h, o, CASE key.k = "index" -> Digits[key.i]
                    [] key.k = "string" -> key.s
                    [] key.k = "var" -> toString(key.v))

(* JSArray's operator []: a JSVar that holds a string is a key even where  *)
(* the same string passed as a string is an index.                         *)
arrayAt(h, o, key) ==
  CASE key.k = "index" -> elementAt(h, o, key.i)
    [] key.k = "string" ->
         IF AllDigits(key.s) THEN elementAt(h, o, Decimal(key.s))
         ELSE findOrAdd(h, o, key.s)
    [] key.k = "var" ->
         IF key.v.t = "num" THEN elementAt(h, o, key.v.n)
         ELSE findOrAdd(h, o, toString(key.v))

pointerAt(h, o, key) ==
  IF IsArray(h, o) THEN arrayAt(h, o, key) ELSE objectAt(h, o, key)

(* JSVar::operator [] on a string. Only the numeric overloads compare the  *)
(* index with the size.                                                    *)
stringAt(h, s, key) ==
  LET Char1(i) == FoundVar(h, Str(charAt(s, i)))
      ByNumber(n) == IF n < Len(s) THEN Char1(n) ELSE NotFound(h)
      ByString(k) == IF AllDigits(k) THEN Char1(Decimal(k)) ELSE NotFound(h)
  IN  CASE key.k = "index" -> ByNumber(key.i)
        [] key.k = "string" -> ByString(key.s)
        [] key.k = "var" -> CASE key.v.t = "num" -> ByNumber(key.v.n)
                              [] key.v.t = "string" -> ByString(key.v.s)
                              [] OTHER -> NotFound(h)

(* JSVar::operator [], where it neither terminates nor dereferences a bad  *)
(* pointer.                                                                *)
varAt(h, v, key) ==
  CASE v.t \in {"boolean", "num"} -> NotFound(h)
    [] v.t = "string" -> stringAt(h, v.s, key)
    [] v.t = "softptr" -> pointerAt(h, v.o, key)

(* "throw;" on undefined, an assertion on a function. *)
CannotIndex(v) == v.t \in {"undef", "fn"}

(* A key that can be used at all: a JSVar index is not negative and not    *)
(* NAN (both are undefined as a size_t), and its object is alive.          *)
UsableKey(h, key) ==
  key.k = "var" => /\ key.v.t = "num" => key.v.n \in IndexKeys
                   /\ key.v.t = "softptr" => key.v.o \in Live(h)

(* JSRLValue::operator JSVar: an owned object is read as a soft pointer. *)
load(h, r) ==
  CASE r.t = "undef" -> Undef
    [] r.t = "var" -> r.v
    [] r.t = "value" ->
         LET s == SlotAt(h, r.o, r.p)
         IN  CASE s.t = "undef" -> Undef
               [] s.t = "var" -> s.v
               [] s.t = "obj" -> Soft(s.o)

(* JSVarOrOwn::operator = (JSVarOrOwn&&) into the slot r points to: what   *)
(* the slot owned is destroyed.                                            *)
store(h, r, slot) ==
  LET old == SlotAt(h, r.o, r.p)
      h1 == WithSlot(h, r.o, r.p, slot)
  IN  IF old.t = "obj" THEN Destroy(h1, old.o) ELSE h1

Releases(h, r) ==
  LET s == SlotAt(h, r.o, r.p) IN IF s.t = "obj" THEN {s.o} ELSE {}

-----------------------------------------------------------------------------
(* JSArray operations. *)

pushBack(h, o, s) ==
  [h EXCEPT ![o].elems = Append(@, s),
            ![o].cap = Doubled(@, Len(h[o].elems) + 1)]

(* The objects in the tail setLength erases. *)
Cut(h, o, n) ==
  LET es == h[o].elems
  IN  {es[i].o : i \in {i \in n + 1 .. Len(es) : es[i].t = "obj"}}

(* setLength: erases the tail, or appends undefined variables. *)
setLength(h, o, n) ==
  LET es == h[o].elems
      h1 == [h EXCEPT ![o].elems =
               [i \in 1 .. n |-> IF i <= Len(es) THEN es[i] ELSE VarSlot(Undef)],
             ![o].cap = Doubled(@, n)]
  IN  FoldSet(LAMBDA d, acc : Destroy(acc, d), h1, Cut(h, o, n))

ConcatSharingOwners(h, o) ==
  IF IsArray(h, o) THEN h[o].elems ELSE <<VarSlot(Soft(o))>>

(* concat_impl_add_me: what an object or an array adds to a concatenation. *)
concat_impl_add_me(h, o) ==
  IF IsArray(h, o)
  THEN [i \in 1 .. Len(h[o].elems) |->
          LET s == h[o].elems[i]
          IN  IF s.t = "obj" THEN VarSlot(Soft(s.o)) ELSE s]
  ELSE <<VarSlot(Soft(o))>>

(* Its assertion: an element is a variable or an object. Indexing past the *)
(* end leaves elements that are neither.                                   *)
CanConcat(h, o) ==
  IsArray(h, o) => \A i \in 1 .. Len(h[o].elems) : h[o].elems[i].t # "undef"

(* concat_impl_1 *)
concat_impl_1(h, v) ==
  IF v.t = "softptr" THEN concat_impl_add_me(h, v.o) ELSE <<VarSlot(v)>>

(* indexof_impl(var, idx), with idx from 0; -1 when there is none. *)
indexof_impl(h, o, v, from) ==
  LET Same(s) == CASE s.t = "var" -> isStrictlyTheSame(v, s.v)
                   [] s.t = "obj" -> isStrictlyTheSame(v, Soft(s.o))
                   [] s.t = "undef" -> v.t = "undef"
      hits == {i \in from .. Len(h[o].elems) - 1 : Same(h[o].elems[i + 1])}
  IN  IF from < 0 \/ hits = {} THEN -1 ELSE Min(hits)

(* indexOf(var, idx): a negative idx counts from the end. *)
indexOf(h, o, v, idx) ==
  indexof_impl(h, o, v, IF idx < 0 THEN idx + Len(h[o].elems) ELSE idx)

(* has(var): JSArray, too, looks among the keys only. *)
has(h, o, v) == toString(v) \in DOMAIN h[o].props

(* keys(), in the order of the map. *)
keys(h, o) ==
  LET ks == SetToSortSeq(DOMAIN h[o].props, KeyBefore)
  IN  [i \in 1 .. Len(ks) |-> VarSlot(Str(ks[i]))]

-----------------------------------------------------------------------------
(* What the program can hand to an initialiser list or to push(): a        *)
(* variable, an object it gives away, or an object it goes on owning.      *)
Items == [i : {"var"}, x : Vars] \cup [i : {"move", "keep"}, x : Owns]

NoItem == [i |-> "none"]

(* JSInit::toValue and push_single *)
slotOf(item) ==
  CASE item.i = "var" -> VarSlot(var[item.x])
    [] item.i = "move" -> ObjSlot(own[item.x])
    [] item.i = "keep" -> VarSlot(Soft(own[item.x]))

AfterGiving(item) ==
  IF item.i = "move" THEN [own EXCEPT ![item.x] = Null] ELSE own

(* The objects the program has a pointer to. *)
Bases == Live(heap) \cap ({own[y] : y \in Owns}
                          \cup {var[x].o : x \in {x \in Vars : var[x].t = "softptr"}})

Keys == [k : {"index"}, i : IndexKeys] \cup [k : {"string"}, s : StringKeys]
          \cup {[k |-> "var", v |-> var[x]] : x \in Vars}

InBounds(v) == /\ v.t = "num" => v.n = NaN \/ v.n \in -MaxNum .. MaxNum
               /\ v.t = "string" => Len(v.s) <= MaxLen

NoRef == [t |-> "undef"]

Init ==
  /\ heap = [o \in Objs |-> Free]
  /\ var = [x \in Vars |-> Undef]
  /\ own = [y \in Owns |-> Null]
  /\ ref = NoRef
  /\ args = Null
  /\ frames = <<>>
  /\ calls = 0
  /\ ended = FALSE

Running == ~ended /\ calls < MaxCalls /\ calls' = calls + 1

Computing == Running /\ calls < MaxValueOps

(* bound: what only prepares an operand, in a variable or in the temporary *)
(* of an index, is not the last operation.                                 *)
Preparing == Running /\ calls + 1 < MaxCalls

Terminate ==
  /\ ended' = TRUE
  /\ UNCHANGED <<heap, var, own, ref, args, frames>>

(* The expression ends, and with it the temporary. *)
Done == ref' = NoRef /\ UNCHANGED <<args, frames, ended>>

Assign(x, v) == InBounds(v) /\ var' = [var EXCEPT ![x] = v]

(* own[y] = a new object: what own[y] owned before is destroyed. *)
AssignOwn(h, y, owns, o) ==
  /\ heap' = Destroy(h, owns[y])
  /\ own' = [owns EXCEPT ![y] = o]

-----------------------------------------------------------------------------
(* Variables. *)

(* The constructors and assignments of JSVar from a literal. *)
AssignLiteral(x, v) == Computing /\ Assign(x, v) /\ Done /\ UNCHANGED <<heap, own>>

(* JSVarBase::init(const JSVarBase&) *)
CopyVar(x, y) ==
  Computing /\ Assign(x, var[y]) /\ Done /\ UNCHANGED <<heap, own>>

(* JSVar's move assignment, which empties the source, itself included. *)
MoveVar(x, y) ==
  /\ Preparing
  /\ var' = [var EXCEPT ![x] = var[y], ![y] = Undef]
  /\ Done /\ UNCHANGED <<heap, own>>

(* JSVar(const JSOwnObj&) *)
TakeSoft(x, y) ==
  Preparing /\ Assign(x, Soft(own[y])) /\ Done /\ UNCHANGED <<heap, own>>

(* Operators that compute a value. *)
Computed(v, w) ==
  {or(v, w), and(v, w), remainder(v, w), plus(v, w), times(v, w), floor(v),
   Bool(isFalseValue(v)), Bool(isStrictlyTheSame(v, w))}
    \cup {Bool(b) : b \in looseEquals(v, w)}

(* A pointer to a destroyed object cannot be compared or printed. *)
Usable(v) == v.t = "softptr" => v.o \in Live(heap) \cup {Null}

Compute(x, y, z) ==
  /\ Computing
  /\ Usable(var[y]) /\ Usable(var[z])
  /\ \E v \in Computed(var[y], var[z]) :
       \/ v = Terminates /\ Terminate
       \/ v # Terminates /\ Assign(x, v) /\ Done /\ UNCHANGED <<heap, own>>

(* operator +=, operator *=, the increments and the decrements. *)
Update(x, y) ==
  /\ Computing
  /\ \E v \in {plusAssign(var[x], var[y]), timesAssign(var[x], var[y]),
              increment(var[x], 1), increment(var[x], -1)} :
       \/ v = Terminates /\ Terminate
       \/ v # Terminates /\ Assign(x, v) /\ Done /\ UNCHANGED <<heap, own>>

(* length, has and indexOf of an object. JSObject::length executes         *)
(* "throw;"; its indexOf throws an exception.                              *)
Query(x, o, v) ==
  /\ Computing
  /\ v.t = "softptr" => v.o \in Live(heap)
  /\ \/ ~IsArray(heap, o) /\ Terminate
     \/ /\ \/ IsArray(heap, o) /\ Assign(x, Num(Len(heap[o].elems)))
           \/ Assign(x, Bool(has(heap, o, v)))
           \/ /\ IsArray(heap, o)
              /\ \E i \in {-1, 0} : Assign(x, Num(indexOf(heap, o, v, i)))
        /\ Done /\ UNCHANGED <<heap, own>>

(* A variable that holds no object has no keys and no elements. *)
QueryNoObject(x, z) ==
  /\ Computing
  /\ var[z].t # "softptr"
  /\ Assign(x, Bool(FALSE)) \/ Assign(x, Num(-1))
  /\ Done /\ UNCHANGED <<heap, own>>

(* push, length, setLength, concat and keys of a variable that holds no    *)
(* object: an assertion or "throw;".                                       *)
MisuseVar(x) == Computing /\ var[x].t # "softptr" /\ Terminate

-----------------------------------------------------------------------------
(* Indexing, and what an expression does with the result. *)

IndexOwn(y, key) ==
  /\ Preparing
  /\ own[y] # Null /\ UsableKey(heap, key)
  /\ LET f == pointerAt(heap, own[y], key)
     IN  heap' = f.h /\ ref' = f.r
  /\ UNCHANGED <<var, own, args, frames, ended>>

IndexValue(v, key) ==
  \/ CannotIndex(v) /\ Terminate
  \/ /\ ~CannotIndex(v) /\ UsableKey(heap, key)
     /\ v.t = "softptr" => v.o \in Live(heap)
     /\ LET f == varAt(heap, v, key)
        IN  heap' = f.h /\ ref' = f.r
     /\ UNCHANGED <<var, own, args, frames, ended>>

IndexVar(x, key) == Preparing /\ IndexValue(var[x], key)

(* JSRLValue::operator []: an absent or undefined slot gives undefined,    *)
(* a variable that is undefined terminates.                                *)
IndexRef(key) ==
  /\ Preparing
  /\ ref # NoRef
  /\ IF ref.t = "value" /\ SlotAt(heap, ref.o, ref.p) = EmptySlot
     THEN ref' = NoRef /\ UNCHANGED <<heap, var, own, args, frames, ended>>
     ELSE IndexValue(load(heap, ref), key)

(* operator [] (const JSRLValue&): a key that points to a slot is not      *)
(* read; the result is undefined.                                          *)
IndexByRef(x) ==
  /\ Preparing
  /\ ref # NoRef
  /\ IF ref.t = "var" THEN IndexValue(var[x], [k |-> "var", v |-> ref.v])
     ELSE ref' = NoRef /\ UNCHANGED <<heap, var, own, args, frames, ended>>

(* JSVar x = a[k] *)
LoadRef(x) ==
  Preparing /\ Assign(x, load(heap, ref)) /\ Done /\ UNCHANGED <<heap, own>>

SetLengthOf(o, n) ==
  /\ IsArray(heap, o)
  /\ \/ InLoop(heap, o, Cut(heap, o, n)) /\ Terminate
     \/ /\ ~InLoop(heap, o, Cut(heap, o, n))
        /\ heap' = setLength(heap, o, n)
        /\ Done /\ UNCHANGED <<var, own>>

(* a[k].length() and a[k].setLength(n), for an object that a owns: for a   *)
(* slot that holds a variable, even one that points to an array, "throw;". *)
LengthOfRef(x, n) ==
  /\ Running
  /\ ref.t = "value"
  /\ LET s == SlotAt(heap, ref.o, ref.p)
     IN  \/ s.t # "obj" /\ Terminate
         \/ /\ s.t = "obj" /\ s.o # Null
            /\ \/ ~IsArray(heap, s.o) /\ Terminate
               \/ /\ IsArray(heap, s.o)
                  /\ Assign(x, Num(Len(heap[s.o].elems)))
                  /\ Done /\ UNCHANGED <<heap, own>>
               \/ SetLengthOf(s.o, n)

StoreInLoop == ref.t = "value" /\ InLoop(heap, ref.o, Releases(heap, ref))

(* a[k] = x: JSRLValue::operator = (const JSVar&) *)
StoreVar(x) ==
  /\ Running
  /\ \/ (ref.t = "undef" \/ StoreInLoop) /\ Terminate
     \/ /\ ref.t # "undef" /\ ~StoreInLoop
        /\ heap' = IF ref.t = "value" THEN store(heap, ref, VarSlot(var[x]))
                   ELSE heap
        /\ Done /\ UNCHANGED <<var, own>>

(* a[k] = std::move(o): JSRLValue::operator = (JSOwnObj&&). Nothing stops  *)
(* a program from moving an object into itself, or into one it owns.       *)
StoreOwn(y) ==
  /\ Running
  /\ \/ (ref.t # "value" \/ StoreInLoop) /\ Terminate
     \/ /\ ref.t = "value" /\ ~StoreInLoop
        /\ heap' = store(heap, ref, ObjSlot(own[y]))
        /\ own' = [own EXCEPT ![y] = Null]
        /\ Done /\ UNCHANGED var

-----------------------------------------------------------------------------
(* Objects. *)

(* y = makeJSArray(), y = makeJSArray({ item }) and                        *)
(* y = makeJSObject({ { key, item } })                                     *)
Make(y, item, o) ==
  /\ Running
  /\ LET new == Fresh(heap)
     IN  AssignOwn([heap EXCEPT ![new] = o], y, AfterGiving(item), new)
  /\ Done /\ UNCHANGED var

MakeArray(y, item) ==
  CanMake /\ Make(y, item, Array(IF item = NoItem THEN <<>> ELSE <<slotOf(item)>>))

MakeObject(y, k, item) ==
  CanMake /\ Make(y, item, Object(k :> slotOf(item)))

(* y = std::move(z) *)
MoveOwn(y, z) ==
  /\ Running
  /\ y # z
  /\ AssignOwn(heap, y, [own EXCEPT ![z] = Null], own[z])
  /\ Done /\ UNCHANGED var

(* The end of the scope of y. *)
DropOwn(y) == Running /\ AssignOwn(heap, y, own, Null) /\ Done /\ UNCHANGED var

(* push: JSObject::push_single throws an exception. *)
Push(o, item) ==
  /\ Running
  /\ IsArray(heap, o)
  /\ heap' = pushBack(heap, o, slotOf(item))
  /\ own' = AfterGiving(item)
  /\ Done /\ UNCHANGED var

SetLength(o, n) ==
  /\ Running
  /\ \/ ~IsArray(heap, o) /\ Terminate
     \/ SetLengthOf(o, n)

(* y = o.concat(v) *)
Concat(y, o, v) ==
  /\ Running
  /\ CanMake
  /\ v.t = "softptr" => v.o \in Live(heap)
  /\ \/ /\ ~CanConcat(heap, o) \/ (v.t = "softptr" /\ ~CanConcat(heap, v.o))
        /\ Terminate
     \/ /\ CanConcat(heap, o) /\ (v.t = "softptr" => CanConcat(heap, v.o))
        /\ LET new == Fresh(heap)
               a == Array(concat_impl_add_me(heap, o) \o concat_impl_1(heap, v))
           IN  AssignOwn([heap EXCEPT ![new] = a], y, own, new)
        /\ Done /\ UNCHANGED var

(* y = o.keys(), and y = v.split() or v.split(sep, 2) *)
ListOf(y, slots) ==
  /\ Running
  /\ CanMake
  /\ LET new == Fresh(heap)
     IN  AssignOwn([heap EXCEPT ![new] = Array(slots)], y, own, new)
  /\ Done /\ UNCHANGED var

KeysOf(y, o) == ListOf(y, keys(heap, o))

Split(y, v) ==
  /\ v.t = "softptr" => v.o \in Live(heap)
  /\ ListOf(y, <<VarSlot(Str(toString(v)))>>)

SplitAt(y, v, sep) ==
  /\ CanSplit(sep)
  /\ v.t = "softptr" => v.o \in Live(heap)
  /\ LET parts == split(v, sep, 2)
     IN  ListOf(y, [i \in 1 .. Len(parts) |-> VarSlot(Str(parts[i]))])

(* The assertion on the separator comes first, whatever is to be split. *)
SplitAtNoString(sep) == Running /\ ~CanSplit(sep) /\ Terminate

-----------------------------------------------------------------------------
(* Calls. *)

(* The arguments a function of k parameters is called with. *)
Padded(given, k) ==
  [i \in 1 .. k |-> IF i <= Len(given) THEN given[i] ELSE Undef]

(* JSVar::operator() up to the start of the body: the array of the         *)
(* arguments, and JSStackMan's constructor.                                *)
Enter(f, given) ==
  /\ CanMake /\ Len(frames) < MaxDepth
  /\ LET new == Fresh(heap)
         slots == [i \in 1 .. Len(given) |-> VarSlot(given[i])]
     IN  /\ heap' = [heap EXCEPT ![new] = Array(slots)]
         /\ frames' = Append(frames, [args |-> new, saved |-> args,
                                      params |-> Padded(given, f.k)])
         /\ args' = new
  /\ ref' = NoRef
  /\ UNCHANGED <<var, own, ended>>

CallValue(f, given) ==
  \/ f.t # "fn" /\ Terminate
  \/ f.t = "fn" /\ Enter(f, given)

Call(x, given) == Running /\ CallValue(var[x], given)

(* a[k](...): JSRLValue::operator() *)
CallRef(given) == Running /\ ref # NoRef /\ CallValue(load(heap, ref), given)

LeaveNotRestoring ==
  /\ heap' = Destroy(heap, Last(frames).args)
  /\ frames' = Front(frames)
  /\ ref' = NoRef
  /\ UNCHANGED <<args, own, ended>>

(* The destructors of operator(): JSStackMan, then the array. *)
Leave ==
  /\ args' = Last(frames).saved
  /\ heap' = Destroy(heap, Last(frames).args)
  /\ frames' = Front(frames)
  /\ ref' = NoRef
  /\ UNCHANGED <<own, ended>>

(* The body returns one of its parameters or arguments(), which the caller *)
(* assigns, or it throws an exception, which the caller catches.           *)
Return(x) ==
  /\ Running
  /\ frames # <<>>
  /\ \/ \E v \in Range(Last(frames).params) \cup {Undef, Soft(args)} : Assign(x, v)
     \/ UNCHANGED var
  /\ Leave

(* arguments() *)
ReadArguments(x) ==
  /\ Preparing
  /\ Assign(x, IF args = Null THEN Undef ELSE Soft(args))
  /\ Done /\ UNCHANGED <<heap, own>>

-----------------------------------------------------------------------------
(* Whatever the key or the arguments, a value that has no elements cannot  *)
(* be indexed and one that is no function cannot be called.                *)
KeysOn(v) == IF CannotIndex(v) THEN {CHOOSE key \in Keys : TRUE} ELSE Keys

Given == {<<>>} \cup {<<var[x]>> : x \in Vars} \cup {<<var[x], Undef>> : x \in Vars}

GivenTo(f) == IF f.t = "fn" THEN Given ELSE {<<>>}

Next ==
  \/ \E x \in Vars, v \in Literals : AssignLiteral(x, v)
  \/ \E x, y \in Vars : CopyVar(x, y) \/ MoveVar(x, y) \/ Update(x, y) \/ QueryNoObject(x, y)
  \/ \E x, y, z \in Vars : Compute(x, y, z)
  \/ \E x \in Vars, y \in Owns : TakeSoft(x, y)
  \/ \E x, z \in Vars, o \in Bases : Query(x, o, var[z])
  \/ \E x \in Vars : MisuseVar(x) \/ IndexByRef(x) \/ LoadRef(x) \/ StoreVar(x)
  \/ \E y \in Owns, key \in Keys : IndexOwn(y, key)
  \/ \E x \in Vars : \E key \in KeysOn(var[x]) : IndexVar(x, key)
  \/ \E key \in Keys : IndexRef(key)
  \/ \E x \in Vars, n \in IndexKeys : LengthOfRef(x, n)
  \/ \E y \in Owns : StoreOwn(y) \/ DropOwn(y)
  \/ \E y \in Owns, item \in Items \cup {NoItem} : MakeArray(y, item)
  \/ \E y \in Owns, item \in Items, k \in StringKeys : MakeObject(y, k, item)
  \/ \E y, z \in Owns : MoveOwn(y, z)
  \/ \E o \in Bases, item \in Items : Push(o, item)
  \/ \E o \in Bases, n \in IndexKeys : SetLength(o, n)
  \/ \E y \in Owns, o \in Bases, x \in Vars : Concat(y, o, var[x])
  \/ \E y \in Owns, o \in Bases : KeysOf(y, o)
  \/ \E y \in Owns, x \in Vars : Split(y, var[x])
  \/ \E y \in Owns, x, z \in Vars : SplitAt(y, var[x], var[z])
  \/ \E z \in Vars : SplitAtNoString(var[z])
  \/ \E x \in Vars : \E g \in GivenTo(var[x]) : Call(x, g)
  \/ \E g \in GivenTo(load(heap, ref)) : CallRef(g)
  \/ \E x \in Vars : Return(x) \/ ReadArguments(x)

Spec == Init /\ [][Next]_vars

-----------------------------------------------------------------------------
(* Properties. *)

(* How many owning pointers own o: JSOwnObjs of the program, arguments of  *)
(* calls, and slots of live objects.                                       *)
OwnerCount(o) ==
  LET InObject(p) ==
        Cardinality({k \in DOMAIN heap[p].props : heap[p].props[k] = ObjSlot(o)})
          + Cardinality({i \in DOMAIN heap[p].elems : heap[p].elems[i] = ObjSlot(o)})
  IN  Cardinality({y \in Owns : own[y] = o})
        + Cardinality({i \in 1 .. Len(frames) : frames[i].args = o})
        + FoldSet(LAMBDA p, acc : acc + InObject(p), 0, Live(heap))

Roots == ({own[y] : y \in Owns} \cup {f.args : f \in Range(frames)}) \ {Null}

(* Every object that is alive has exactly one owner, and no owner outlives *)
(* what it owns. So ownership is a forest, and all of it hangs from what   *)
(* the program or a call owns, as long as no object has been moved into    *)
(* itself or into one it owns: then nothing but itself owns it. The code   *)
(* copies and moves slots in JSInit, JSVarOrOwn, concat, push and the      *)
(* assignments of JSRLValue; a slot copied with its owning pointer would   *)
(* be destroyed twice.                                                     *)
OwnersFormForest ==
  /\ \A o \in Objs : OwnerCount(o) = IF o \in Live(heap) THEN 1 ELSE 0
  /\ \A o \in Live(heap) \ UNION {Subtree(heap, r) : r \in Roots} :
       \E p \in Live(heap) :
         /\ InLoop(heap, p, OwnedBy(heap, p))
         /\ o \in Subtree(heap, p)

(* A JSRLValue is a raw pointer to a slot of a vector or a map that        *)
(* operator [] may just have made longer: while the expression goes on,    *)
(* the slot is there, and its object is alive.                             *)
RefIsASlot ==
  ref.t = "value" =>
    /\ ref.o \in Live(heap)
    /\ IF ref.p.in = "props" THEN ref.p.k \in DOMAIN heap[ref.o].props
       ELSE ref.p.i + 1 \in DOMAIN heap[ref.o].elems

(* Whatever nested calls have returned or thrown, arguments() gives the    *)
(* array of the innermost call still running, and that array is alive:     *)
(* JSStackMan restores what it saved before the array of the call dies.    *)
ArgumentsOfCurrentCall ==
  /\ args = IF frames = <<>> THEN Null ELSE Last(frames).args
  /\ args # Null => IsArray(heap, args)

(* isStrictlyTheSame is the finer of the two comparisons: what it accepts  *)
(* operator == accepts, in either order. The two are separate tables over  *)
(* the types of the operands, with separate rules for NAN and functions.   *)
StrictImpliesEqual ==
  \A x, y \in Vars :
    isStrictlyTheSame(var[x], var[y]) =>
      /\ isStrictlyTheSame(var[y], var[x])
      /\ looseEquals(var[x], var[y]) = {TRUE}
      /\ looseEquals(var[y], var[x]) = {TRUE}

=============================================================================
