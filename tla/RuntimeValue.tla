---------------------------- MODULE RuntimeValue ----------------------------
(***************************************************************************)
(* The values the stack machine computes with (class RuntimeValue) and the *)
(* arithmetic the interpreter does on them.                                *)
(*                                                                         *)
(* A value carries, like the C++ class, one field per representation: num  *)
(* (over den for a Real) for the three numeric kinds and txt for a String. *)
(* A double is modelled by an exact fraction; rounding is left out, the    *)
(* loss of finiteness is kept (RealMax).  A text is a sequence of words: a *)
(* word is an input token, and all that is kept of it is what the C++      *)
(* conversions (stoi, stod, the boolean test) can tell apart.              *)
(***************************************************************************)
EXTENDS Integers, Sequences

CONSTANTS
  IntMax,            \* INT_MAX
  RealMax,           \* the largest finite double
  Words,             \* the words that may occur in literals and in the input
  CharCode,          \* the code of the first character of each word
  TextBefore(_, _)   \* lexicographic order of texts, operator< of std::string

IntMin == -IntMax - 1
Int32  == IntMin .. IntMax

Kind == {"Integer", "Real", "Boolean", "String"}

WordClass == {"number", "truth", "word"}

Word == [cls : WordClass, num : Int, den : Nat \ {0}]

Text == Seq(Word)

Value == [kind : Kind, num : Int, den : Nat \ {0}, txt : Text]

(* The values the machine may hold: no Integer leaves the 32 bits.         *)
StackValue ==
  {v \in Value : v.kind \in {"Integer", "Boolean"} => v.num \in Int32 /\ v.den = 1}

ASSUME IntMaxAssumption == IntMax \in Nat /\ IntMax > 2

ASSUME WordsAssumption == Words \subseteq Word /\ CharCode \in [Words -> 0 .. IntMax]

ASSUME RealMaxAssumption == RealMax \in Nat /\ RealMax > IntMax

-----------------------------------------------------------------------------
(* Constructors: RuntimeValue::integer, real, boolean and string.          *)

IntegerValue(n) == [kind |-> "Integer", num |-> n, den |-> 1, txt |-> << >>]

BooleanValue(b) ==
  [kind |-> "Boolean", num |-> IF b THEN 1 ELSE 0, den |-> 1, txt |-> << >>]

StringValue(t) == [kind |-> "String", num |-> 0, den |-> 1, txt |-> t]

(* A whole real is kept over the denominator 1, so that the values that    *)
(* print alike are equal.                                                  *)
RealValue(n, d) ==
  [kind |-> "Real", num |-> IF n % d = 0 THEN n \div d ELSE n,
   den |-> IF n % d = 0 THEN 1 ELSE d, txt |-> << >>]

-----------------------------------------------------------------------------
(* toString: a whole Real prints without its decimal point.                *)
ToText(v) ==
  IF v.kind = "String" THEN v.txt
  ELSE << [cls |-> IF v.kind = "Boolean" THEN "truth" ELSE "number",
           num |-> v.num, den |-> v.den] >>

(* asReal succeeds on every kind but String; asInteger on Integer alone.   *)
IsNumeric(v) == v.kind # "String"
IsInteger(v) == v.kind = "Integer"

Below(l, r) == l.num * r.den < r.num * l.den
SameNumber(l, r) == l.num * r.den = r.num * l.den

(* static_cast<int>(double): truncation towards zero.                      *)
Truncated(v) ==
  IF v.num >= 0 THEN v.num \div v.den ELSE -((-v.num) \div v.den)

(* The C++ % : the sign of the result is that of the dividend.             *)
CxxRem(a, b) ==
  LET AbsOf(x) == IF x < 0 THEN -x ELSE x
      m == AbsOf(a) % AbsOf(b)
  IN  IF a < 0 THEN -m ELSE m

-----------------------------------------------------------------------------
(* binaryArithmetic.                                                       *)

ArithOps == {"ADD", "SUB", "MUL", "DIV", "MOD"}

(* Real arithmetic as soon as one operand is a Real, and for every DIV.    *)
UsesReal(op, l, r) == l.kind = "Real" \/ r.kind = "Real" \/ op = "DIV"

RealResult(op, l, r) ==
  CASE op = "ADD" -> RealValue(l.num * r.den + r.num * l.den, l.den * r.den)
    [] op = "SUB" -> RealValue(l.num * r.den - r.num * l.den, l.den * r.den)
    [] op = "MUL" -> RealValue(l.num * r.num, l.den * r.den)
    [] op = "DIV" -> IF r.num > 0 THEN RealValue(l.num * r.den, l.den * r.num)
                     ELSE RealValue(-(l.num * r.den), l.den * (-r.num))

IntResult(op, a, b) ==
  CASE op = "ADD" -> a + b
    [] op = "SUB" -> a - b
    [] op = "MUL" -> a * b
    [] op = "MOD" -> CxxRem(a, b)

IsFinite(v) == -RealMax * v.den <= v.num /\ v.num <= RealMax * v.den

(* Mutant: the result of an int operation is not checked for overflow.     *)
ArithFaultUnchecked(op, l, r) ==
  \/ ~IsNumeric(l) \/ ~IsNumeric(r)
  \/ op = "MOD" /\ UsesReal(op, l, r)
  \/ op \in {"DIV", "MOD"} /\ r.num = 0
  \/ UsesReal(op, l, r) /\ ~IsFinite(RealResult(op, l, r))

(* The conditions under which binaryArithmetic throws.                     *)
ArithFault(op, l, r) ==
  \/ ~IsNumeric(l) \/ ~IsNumeric(r)
  \/ op = "MOD" /\ UsesReal(op, l, r)
  \/ op \in {"DIV", "MOD"} /\ r.num = 0
  \/ UsesReal(op, l, r) /\ ~IsFinite(RealResult(op, l, r))
  \/ ~UsesReal(op, l, r) /\ IntResult(op, l.num, r.num) \notin Int32

Arith(op, l, r) ==
  IF UsesReal(op, l, r) THEN RealResult(op, l, r)
  ELSE IntegerValue(IntResult(op, l.num, r.num))

-----------------------------------------------------------------------------
(* binaryComparison: texts as soon as one operand is a String.             *)

CompareOps == {"EQL", "NEQ", "LSS", "GEQ", "GTR", "LEQ"}

Compare(op, l, r) ==
  LET texts == l.kind = "String" \/ r.kind = "String"
      same  == IF texts THEN ToText(l) = ToText(r) ELSE SameNumber(l, r)
      less  == IF texts THEN TextBefore(ToText(l), ToText(r)) ELSE Below(l, r)
  IN  BooleanValue(CASE op = "EQL" -> same
                     [] op = "NEQ" -> ~same
                     [] op = "LSS" -> less
                     [] op = "GEQ" -> ~less
                     [] op = "GTR" -> ~less /\ ~same
                     [] op = "LEQ" -> less \/ same)

(* unaryNeg: only -INT_MIN leaves the integers.                            *)
NegFault(v) == ~IsNumeric(v) \/ (v.kind # "Real" /\ -v.num \notin Int32)

Negated(v) ==
  IF v.kind = "Real" THEN RealValue(-v.num, v.den) ELSE IntegerValue(-v.num)

(* popCondition: everything but a String has a truth value.                *)
Holds(v) == v.num # 0

-----------------------------------------------------------------------------
(* executeRead's conversion of a non-empty text to the target's type code: *)
(* stoi and stod take the prefix they understand, the rest is ignored; the *)
(* boolean test takes the whole text.                                      *)

ReadFault(code, t) ==
  LET w == Head(t) IN
  CASE code = 1 -> w.cls # "number" \/ Truncated(w) \notin Int32
    [] code = 2 -> w.cls # "number" \/ ~IsFinite(w)
    [] code = 4 -> Len(t) # 1 \/ w.cls # "truth"
    [] code \in {3, 5} -> FALSE
    [] OTHER -> TRUE

ReadResult(code, t) ==
  LET w == Head(t) IN
  CASE code = 1 -> IntegerValue(Truncated(w))
    [] code = 2 -> RealValue(w.num, w.den)
    [] code = 3 -> IntegerValue(CharCode[w])
    [] code = 4 -> BooleanValue(Holds(w))
    [] OTHER -> StringValue(t)

=============================================================================
