------------------------------ MODULE JsValues ------------------------------
(***************************************************************************)
(* class JSVar (js_compat.h, js_compat.cpp): the values of the JavaScript  *)
(* layer and the operators on them, as functions of the values.            *)
(*                                                                         *)
(* A value is a record with the tag JSVarBase::Type and a payload. Numbers *)
(* are whole. A string is a sequence of characters; the words the library  *)
(* itself prints ("undefined", "true", ...) are one character each.        *)
(***************************************************************************)
EXTENDS Integers, Sequences, SequencesExt

CONSTANTS
  NaN,    \* not a number
  Null    \* nullptr, the object of an empty pointer

Undef == [t |-> "undef"]
Bool(b) == [t |-> "boolean", b |-> b]
Num(n) == [t |-> "num", n |-> n]
Str(s) == [t |-> "string", s |-> s]
Soft(o) == [t |-> "softptr", o |-> o]
(* A function of k parameters: the types fn0 to fn10. *)
Fn(k) == [t |-> "fn", k |-> k]

(* What an operator that executes "throw;" stands for: there is no         *)
(* exception to rethrow, so std::terminate() ends the program.             *)
Terminates == [t |-> "terminates"]

Minus == -1
LetterA == 10
WordNan == 11
WordUndefined == 12
WordTrue == 13
WordFalse == 14
WordFunction == 15
WordObject == 16    \* the text of an object, whatever it contains
Char == Minus .. WordObject

-----------------------------------------------------------------------------
(* Conversions. *)

IsDigit(c) == c \in 0 .. 9

(* format("{}", n) of a natural number. *)
Digits[n \in Nat] ==
  IF n < 10 THEN <<n>> ELSE Append(Digits[n \div 10], n % 10)

AllDigits(s) == s # <<>> /\ \A i \in 1 .. Len(s) : IsDigit(s[i])

(* strtol and strtod on a string of digits. *)
Decimal(s) == FoldLeft(LAMBDA acc, d : 10 * acc + d, 0, s)

NumToString(n) ==
  IF n = NaN THEN <<WordNan>>
  ELSE IF n < 0 THEN <<Minus>> \o Digits[-n] ELSE Digits[n]

toString(v) ==
  CASE v.t = "undef" -> <<WordUndefined>>
    [] v.t = "boolean" -> IF v.b THEN <<WordTrue>> ELSE <<WordFalse>>
    [] v.t = "num" -> NumToString(v.n)
    [] v.t = "string" -> v.s
    [] v.t = "softptr" -> <<WordObject>>
    [] v.t = "fn" -> <<WordFunction>>

(* strtod must consume the whole string; it consumes the empty one. *)
StringToNum(s) ==
  IF s = <<>> THEN 0
  ELSE IF AllDigits(s) THEN Decimal(s)
  ELSE IF s[1] = Minus /\ AllDigits(Tail(s)) THEN -Decimal(Tail(s))
  ELSE NaN

toNumber(v) ==
  CASE v.t = "num" -> v.n
    [] v.t = "boolean" -> IF v.b THEN 1 ELSE 0
    [] v.t = "string" -> StringToNum(v.s)
    [] OTHER -> NaN

isFalseValue(v) ==
  \/ v.t = "undef"
  \/ v.t = "boolean" /\ ~v.b
  \/ v.t = "num" /\ v.n \in {0, NaN}
  \/ v.t = "string" /\ v.s = <<>>
  \/ v.t = "softptr" /\ v.o = Null

-----------------------------------------------------------------------------
(* Operators. *)

SameNum(m, n) == m # NaN /\ n # NaN /\ m = n

StrictWithNaN(v, w) ==
  /\ v.t = w.t
  /\ v.t # "fn"
  /\ v = w

(* isStrictlyTheSame: two functions are never the same. *)
isStrictlyTheSame(v, w) ==
  /\ v.t = w.t
  /\ v.t # "fn"
  /\ v = w
  /\ v.t = "num" => v.n # NaN

AsBit(b) == IF b THEN 1 ELSE 0

(* operator ==, as the set of its possible results. With an undefined left *)
(* operand and an object on the right it reads a pointer that was never    *)
(* written. With a Boolean on the left and a string on the right it tests  *)
(* the address of the Boolean, not the Boolean.                            *)
looseEquals(v, w) ==
  CASE v.t = "undef" ->
         CASE w.t = "undef" -> {TRUE}
           [] w.t = "softptr" -> BOOLEAN
           [] OTHER -> {FALSE}
    [] v.t = "boolean" ->
         CASE w.t = "undef" -> {~v.b}
           [] w.t = "boolean" -> {v.b = w.b}
           [] w.t = "num" -> {SameNum(AsBit(v.b), w.n)}
           [] w.t = "string" -> {SameNum(toNumber(w), 1)}
           [] OTHER -> {FALSE}
    [] v.t = "num" ->
         {/\ w.t \in {"boolean", "num", "string"}
          /\ SameNum(v.n, toNumber(w))}
    [] v.t = "string" ->
         CASE w.t = "string" -> {v.s = w.s}
           [] w.t \in {"boolean", "num"} -> {SameNum(toNumber(v), toNumber(w))}
           [] w.t = "softptr" -> {w.o # Null /\ v.s = toString(w)}
           [] OTHER -> {FALSE}
    [] v.t = "softptr" ->
         CASE w.t = "undef" -> {v.o = Null}
           [] w.t = "softptr" -> {v.o = w.o}
           [] OTHER -> {FALSE}
    [] v.t = "fn" -> {FALSE}

Primitive == {"boolean", "num", "string"}

PlusNum(m, n) == IF NaN \in {m, n} THEN NaN ELSE m + n
TimesNum(m, n) == IF NaN \in {m, n} THEN NaN ELSE m * n

(* operator + *)
plus(v, w) ==
  IF ~({v.t, w.t} \subseteq Primitive) THEN Terminates
  ELSE IF "string" \in {v.t, w.t} THEN Str(toString(v) \o toString(w))
  ELSE Num(PlusNum(toNumber(v), toNumber(w)))

(* operator +=, as what is left in the left operand: its table of the      *)
(* operands is a copy of the one of operator +.                            *)
plusAssign(v, w) == plus(v, w)

(* operator *: a string on the left is NAN times anything. *)
times(v, w) ==
  IF v.t = "string" THEN Num(NaN)
  ELSE IF ~({v.t, w.t} \subseteq Primitive) THEN Terminates
  ELSE IF w.t = "string" THEN Num(NaN)
  ELSE Num(TimesNum(toNumber(v), toNumber(w)))

(* operator *=, as what is left in the left operand: a string stays. *)
timesAssign(v, w) == IF v.t = "string" THEN v ELSE times(v, w)

(* operator %: the sign of the left operand. Zero divided by zero is NAN;  *)
(* another number divided by zero is its own remainder.                    *)
remainder(v, w) ==
  LET m == toNumber(v)
      n == toNumber(w)
      Abs(i) == IF i < 0 THEN -i ELSE i
      rem == IF n = 0 THEN Abs(m) ELSE Abs(m) % Abs(n)
  IN  IF NaN \in {m, n} \/ {m, n} = {0} THEN Num(NaN)
      ELSE Num(IF m < 0 THEN -rem ELSE rem)

or(v, w) == IF isFalseValue(v) THEN w ELSE v
and(v, w) == IF isFalseValue(v) THEN v ELSE w

(* operator++ and operator--, which leave a number in their operand. *)
increment(v, by) == Num(PlusNum(toNumber(v), by))

(* JSMath::floor, on whole numbers. *)
floor(v) ==
  IF v.t = "softptr" /\ v.o = Null THEN Num(0) ELSE Num(toNumber(v))

-----------------------------------------------------------------------------
(* Strings. *)

(* JSString(charAt(i)): the loop decodes i characters, and the last one it *)
(* decoded is the result, so position 0 gives the empty string.            *)
charAt(s, i) ==
  IF i = 0 \/ s = <<>> THEN <<>> ELSE <<s[IF i < Len(s) THEN i ELSE Len(s)]>>

(* split(separator, maxCount), with the assertion on the separator.        *)
CanSplit(sep) == sep.t = "string" /\ Len(sep.s) <= 1

split(v, sep, max) ==
  LET str == toString(v)
      Cut(acc, c) == IF <<c>> = sep.s THEN Append(acc, <<>>)
                     ELSE [acc EXCEPT ![Len(acc)] = Append(@, c)]
      pieces == FoldLeft(Cut, << <<>> >>, str)
  IN  IF sep.s = <<>> THEN [i \in 1 .. Len(str) |-> <<str[i]>>]
      ELSE SubSeq(pieces, 1, IF max < Len(pieces) THEN max ELSE Len(pieces))

(* The order of nodecpp::map on its keys. *)
KeyBefore(k, l) ==
  \E i \in 1 .. Len(l) :
    /\ \A j \in 1 .. i - 1 : j <= Len(k) /\ k[j] = l[j]
    /\ i > Len(k) \/ k[i] < l[i]

=============================================================================
