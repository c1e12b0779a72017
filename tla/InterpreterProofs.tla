------------------------- MODULE InterpreterProofs -------------------------
(***************************************************************************)
(* The interpreter keeps its types on every program and every input: the   *)
(* stack holds well-formed values and stays within its bound, no Integer   *)
(* leaves the 32 bits, and the registers hold what an int converts to.     *)
(* TypeOK is inductive: each instruction is taken in turn.                 *)
(***************************************************************************)
EXTENDS Interpreter, SequenceTheorems, TLAPS

-----------------------------------------------------------------------------
(* What the operators of RuntimeValue and StackMachine return: every       *)
(* computation that does not throw yields a value the stack may hold.      *)

LEMMA IntegerValueType ==
  ASSUME NEW n \in Int32
  PROVE  IntegerValue(n) \in StackValue
<1>1. n \in Int  BY IntMaxAssumption DEF Int32, IntMin
<1>2. << >> \in Text  BY EmptySeq DEF Text
<1>. QED  BY <1>1, <1>2 DEF IntegerValue, StackValue, Value, Kind

LEMMA BooleanValueType ==
  ASSUME NEW b \in BOOLEAN
  PROVE  BooleanValue(b) \in StackValue
<1>1. << >> \in Text  BY EmptySeq DEF Text
<1>. QED
  BY <1>1, IntMaxAssumption DEF BooleanValue, StackValue, Value, Kind, Int32, IntMin

LEMMA StringValueType ==
  ASSUME NEW t \in Text
  PROVE  StringValue(t) \in StackValue
BY DEF StringValue, StackValue, Value, Kind

LEMMA RealValueType ==
  ASSUME NEW n \in Int, NEW d \in Nat \ {0}
  PROVE  RealValue(n, d) \in StackValue
<1>1. << >> \in Text  BY EmptySeq DEF Text
<1>2. n \div d \in Int  OBVIOUS
<1>. QED  BY <1>1, <1>2 DEF RealValue, StackValue, Value, Kind

LEMMA ProductPositive ==
  ASSUME NEW a \in Nat \ {0}, NEW b \in Nat \ {0}
  PROVE  a * b \in Nat \ {0}
OBVIOUS

LEMMA ValueFields ==
  ASSUME NEW v \in StackValue
  PROVE  /\ v.num \in Int /\ v.den \in Nat \ {0} /\ v.txt \in Text /\ v.kind \in Kind
         /\ v.kind \in {"Integer", "Boolean"} => v.num \in Int32
BY DEF StackValue, Value

LEMMA ToTextType ==
  ASSUME NEW v \in StackValue
  PROVE  ToText(v) \in Text
<1>. DEFINE w == [cls |-> IF v.kind = "Boolean" THEN "truth" ELSE "number",
                  num |-> v.num, den |-> v.den]
<1>1. w \in Word  BY ValueFields DEF Word, WordClass
<1>2. << w >> \in Text  BY <1>1 DEF Text
<1>. QED  BY <1>2, ValueFields DEF ToText

-----------------------------------------------------------------------------
(* Arithmetic.                                                             *)

LEMMA RealResultType ==
  ASSUME NEW l \in StackValue, NEW r \in StackValue, NEW op \in {"ADD", "SUB", "MUL", "DIV"},
         op = "DIV" => r.num # 0
  PROVE  RealResult(op, l, r) \in StackValue
<1>1. l.num \in Int /\ r.num \in Int /\ l.den \in Nat \ {0} /\ r.den \in Nat \ {0}
  BY ValueFields
<1>2. l.den * r.den \in Nat \ {0}  BY <1>1, ProductPositive
<1>3. l.num * r.den \in Int /\ r.num * l.den \in Int /\ l.num * r.num \in Int
  BY <1>1
<1>4. CASE op = "ADD"
  <2>1. l.num * r.den + r.num * l.den \in Int  BY <1>3
  <2>. QED  BY <1>4, <1>2, <2>1, RealValueType DEF RealResult
<1>5. CASE op = "SUB"
  <2>1. l.num * r.den - r.num * l.den \in Int  BY <1>3
  <2>. QED  BY <1>5, <1>2, <2>1, RealValueType DEF RealResult
<1>6. CASE op = "MUL"  BY <1>6, <1>2, <1>3, RealValueType DEF RealResult
<1>7. CASE op = "DIV" /\ r.num > 0
  <2>1. l.den * r.num \in Nat \ {0}  BY <1>7, <1>1, ProductPositive
  <2>. QED  BY <1>7, <2>1, <1>3, RealValueType DEF RealResult
<1>8. CASE op = "DIV" /\ ~(r.num > 0)
  <2>1. -r.num \in Nat \ {0}  BY <1>8, <1>1
  <2>2. l.den * (-r.num) \in Nat \ {0}  BY <2>1, <1>1, ProductPositive
  <2>3. -(l.num * r.den) \in Int  BY <1>3
  <2>. QED  BY <1>8, <2>2, <2>3, RealValueType DEF RealResult
<1>. QED  BY <1>4, <1>5, <1>6, <1>7, <1>8

(* An operation of binaryArithmetic that does not throw yields a value of  *)
(* the stack; when it yields an Integer, one within the 32 bits.           *)
LEMMA ArithType ==
  ASSUME NEW l \in StackValue, NEW r \in StackValue, NEW op \in ArithOps,
         ~ArithFault(op, l, r)
  PROVE  Arith(op, l, r) \in StackValue
<1>1. CASE UsesReal(op, l, r)
  <2>1. op \in {"ADD", "SUB", "MUL", "DIV"} /\ (op = "DIV" => r.num # 0)
    BY <1>1 DEF ArithFault, ArithOps
  <2>2. RealResult(op, l, r) \in StackValue  BY <2>1, RealResultType
  <2>. QED  BY <1>1, <2>2 DEF Arith
<1>2. CASE ~UsesReal(op, l, r)
  <2>1. IntResult(op, l.num, r.num) \in Int32  BY <1>2 DEF ArithFault
  <2>. QED  BY <1>2, <2>1, IntegerValueType DEF Arith
<1>. QED  BY <1>1, <1>2

LEMMA NegatedType ==
  ASSUME NEW v \in StackValue, ~NegFault(v)
  PROVE  Negated(v) \in StackValue
<1>1. v.num \in Int /\ v.den \in Nat \ {0} /\ -v.num \in Int  BY ValueFields
<1>2. CASE v.kind = "Real"  BY <1>1, <1>2, RealValueType DEF Negated
<1>3. CASE v.kind # "Real"
  <2>1. -v.num \in Int32  BY <1>3 DEF NegFault
  <2>. QED  BY <1>3, <2>1, IntegerValueType DEF Negated
<1>. QED  BY <1>2, <1>3

LEMMA CompareType ==
  ASSUME NEW l, NEW r, NEW op \in CompareOps
  PROVE  Compare(op, l, r) \in StackValue
<1>1. \A p : BooleanValue(p) \in StackValue
  <2>. TAKE p
  <2>1. BooleanValue(p) = BooleanValue(TRUE) \/ BooleanValue(p) = BooleanValue(FALSE)
    BY DEF BooleanValue
  <2>. QED  BY <2>1, BooleanValueType
<1>. QED  BY <1>1 DEF Compare

(* executeRead stores only what the target's type code admits.             *)
LEMMA ReadResultType ==
  ASSUME NEW code \in Int, NEW t \in Seq(Words) \ {<< >>}, ~ReadFault(code, t)
  PROVE  ReadResult(code, t) \in StackValue
<1>. DEFINE w == Head(t)
<1>1. w \in Words  BY HeadTailProperties
<1>2. w \in Word  BY <1>1, WordsAssumption
<1>3. w.num \in Int /\ w.den \in Nat \ {0}  BY <1>2 DEF Word
<1>4. t \in Text  BY WordsAssumption, SeqMonotonic DEF Text
<1>5. CASE code = 1
  <2>1. Truncated(w) \in Int32  BY <1>5 DEF ReadFault
  <2>. QED  BY <1>5, <2>1, IntegerValueType DEF ReadResult
<1>6. CASE code = 2  BY <1>6, <1>3, RealValueType DEF ReadResult
<1>7. CASE code = 3
  <2>1. CharCode[w] \in Int32
    BY <1>1, WordsAssumption, IntMaxAssumption DEF Int32, IntMin
  <2>. QED  BY <1>7, <2>1, IntegerValueType DEF ReadResult
<1>8. CASE code = 4
  <2>1. Holds(w) \in BOOLEAN  BY DEF Holds
  <2>. QED  BY <1>8, <2>1, BooleanValueType DEF ReadResult
<1>9. CASE code \notin {1, 2, 3, 4}
  <2>1. StringValue(t) \in StackValue  BY <1>4, StringValueType
  <2>. QED  BY <1>9, <2>1 DEF ReadResult
<1>. QED  BY <1>5, <1>6, <1>7, <1>8, <1>9

-----------------------------------------------------------------------------
(* Registers, addresses and the stack.                                     *)

LEMMA SizeOfInt ==
  ASSUME NEW n \in Int32
  PROVE  AsSize(n) \in Register
BY IntMaxAssumption, StackAssumption DEF AsSize, Register, Int32, IntMin

LEMMA IntOfSize ==
  ASSUME NEW s \in Register
  PROVE  AsInt(s) \in Int32
BY IntMaxAssumption, StackAssumption DEF AsInt, Register, Int32, IntMin

LEMMA RegisterBasics ==
  /\ 0 .. IntMax \subseteq Register
  /\ Register \subseteq Nat
  /\ Int32 \subseteq Int
BY IntMaxAssumption, StackAssumption DEF Register, Int32, IntMin

LEMMA WrapIntType ==
  ASSUME NEW n \in Int
  PROVE  WrapInt(n) \in Int32
<1>. DEFINE w == IntMax - IntMin + 1
<1>1. w \in Nat /\ w > 0 /\ IntMin \in Int /\ w = 2 * IntMax + 2
  BY IntMaxAssumption DEF IntMin
<1>2. (n - IntMin) % w \in 0 .. w - 1
  <2>1. n - IntMin \in Int  BY <1>1
  <2>. HIDE DEF w
  <2>. QED  BY <2>1, <1>1
<1>3. ((n - IntMin) % w) + IntMin \in IntMin .. IntMax
  <2>. DEFINE m == (n - IntMin) % w
  <2>1. m \in 0 .. w - 1  BY <1>2
  <2>. HIDE DEF m, w
  <2>2. m + IntMin \in IntMin .. IntMax
    BY <2>1, <1>1, IntMaxAssumption DEF IntMin
  <2>. QED  BY <2>2 DEF m
<1>. QED  BY <1>3 DEF WrapInt, Int32

LEMMA WrapIntSame ==
  ASSUME NEW n \in Int32
  PROVE  WrapInt(n) = n
<1>. DEFINE w == IntMax - IntMin + 1
            m == n - IntMin
<1>1. w \in Nat /\ w > 0 /\ m \in 0 .. w - 1 /\ m + IntMin = n
  BY IntMaxAssumption DEF IntMin, Int32
<1>2. m % w = m
  <2>. HIDE DEF m, w
  <2>. QED  BY <1>1
<1>. QED  BY <1>1, <1>2 DEF WrapInt

(* The sum of two ints that overflows upwards wraps to a negative one.     *)
LEMMA WrapIntOver ==
  ASSUME NEW n \in Int, n > IntMax, n <= 2 * IntMax
  PROVE  WrapInt(n) < 0
<1>. DEFINE w == IntMax - IntMin + 1
            m == n - IntMin
<1>1. w \in Nat /\ w > 0 /\ m \in Int /\ w <= m /\ m < 2 * w /\ m - w + IntMin < 0
      /\ IntMin \in Int
  BY IntMaxAssumption DEF IntMin
<1>2. m % w = m - w
  <2>. HIDE DEF m, w
  <2>. QED  BY <1>1
<1>3. WrapInt(n) = (m % w) + IntMin  BY DEF WrapInt
<1>. QED  BY <1>1, <1>2, <1>3

(* A walk along the static links that succeeds ends at a register's value: *)
(* in the stack, or where it started.                                      *)
LEMMA FrameFoundType ==
  ASSUME NEW stk \in Seq(StackValue), Len(stk) <= MaxStackSize,
         NEW base \in Register, NEW levels \in Int, FrameFound(stk, base, levels)
  PROVE  /\ WalkStaticChain(stk, base, levels) \in Register
         /\ AsInt(WalkStaticChain(stk, base, levels)) \in Int32
<1>. DEFINE b == WalkStaticChain(stk, base, levels)
<1>1. CASE levels = 0
  <2>1. b = base  BY <1>1 DEF FrameFound
  <2>. QED  BY <2>1, IntOfSize
<1>2. CASE levels # 0
  <2>1. b \in 0 .. Len(stk) - 1  BY <1>2 DEF FrameFound
  <2>2. Len(stk) \in Nat  BY LenProperties
  <2>. HIDE DEF b
  <2>3. b \in 0 .. IntMax  BY <2>1, <2>2, StackAssumption, IntMaxAssumption
  <2>4. b \in Register  BY <2>3, RegisterBasics
  <2>. QED  BY <2>4, IntOfSize DEF b
<1>. QED  BY <1>1, <1>2

LEMMA PopToProperties ==
  ASSUME NEW S, NEW stk \in Seq(S), NEW n \in 0 .. Len(stk)
  PROVE  /\ PopTo(stk, n) \in Seq(S)
         /\ Len(PopTo(stk, n)) = n
         /\ \A i \in 1 .. n : PopTo(stk, n)[i] = stk[i]
<1>1. \A i \in 1 .. n : stk[i] \in S  BY ElementOfSeq, LenProperties
<1>2. n \in Int /\ 1 \in Int  BY LenProperties
<1>3. /\ SubSeq(stk, 1, n) \in Seq(S)
      /\ Len(SubSeq(stk, 1, n)) = IF 1 <= n THEN n - 1 + 1 ELSE 0
      /\ \A i \in 1 .. n - 1 + 1 : SubSeq(stk, 1, n)[i] = stk[1 + i - 1]
  BY <1>1, <1>2, SubSeqProperties
<1>. QED  BY <1>2, <1>3, LenProperties DEF PopTo

LEMMA PoppedProperties ==
  ASSUME NEW S, NEW stk \in Seq(S), NEW n \in 0 .. Len(stk)
  PROVE  /\ Popped(stk, n) \in Seq(S)
         /\ Len(Popped(stk, n)) = Len(stk) - n
         /\ \A i \in 1 .. Len(stk) - n : Popped(stk, n)[i] = stk[i]
<1>1. Len(stk) \in Nat  BY LenProperties
<1>2. Len(stk) - n \in 0 .. Len(stk)  BY <1>1
<1>. QED  BY <1>2, PopToProperties DEF Popped

LEMMA AtType ==
  ASSUME NEW S, NEW stk \in Seq(S), NEW i \in Int, Within(stk, i)
  PROVE  At(stk, i) \in S
<1>1. i + 1 \in 1 .. Len(stk)  BY LenProperties DEF Within
<1>. QED  BY <1>1, ElementOfSeq DEF At

LEMMA TopType ==
  ASSUME NEW S, NEW stk \in Seq(S), stk # << >>
  PROVE  Len(stk) \in Nat \ {0} /\ Top(stk) \in S
<1>1. Len(stk) \in Nat \ {0}  BY EmptySeq
<1>. QED  BY <1>1, ElementOfSeq DEF Top

LEMMA SecondType ==
  ASSUME NEW S, NEW stk \in Seq(S), Holds2(stk)
  PROVE  /\ Len(stk) \in Nat /\ Len(stk) >= 2 /\ stk # << >>
         /\ Top(stk) \in S /\ Second(stk) \in S
<1>1. Len(stk) \in Nat /\ Len(stk) >= 2  BY LenProperties DEF Holds2
<1>2. Len(stk) \in 1 .. Len(stk) /\ Len(stk) - 1 \in 1 .. Len(stk)  BY <1>1
<1>3. stk # << >>  BY <1>1, EmptySeq
<1>. QED  BY <1>1, <1>2, <1>3, ElementOfSeq DEF Top, Second

LEMMA SetAtProperties ==
  ASSUME NEW S, NEW stk \in Seq(S), NEW i \in Int, Within(stk, i), NEW v \in S
  PROVE  /\ SetAt(stk, i, v) \in Seq(S)
         /\ Len(SetAt(stk, i, v)) = Len(stk)
         /\ \A j \in Int : Within(stk, j) /\ j # i => At(SetAt(stk, i, v), j) = At(stk, j)
<1>1. i + 1 \in 1 .. Len(stk)  BY LenProperties DEF Within
<1>2. /\ SetAt(stk, i, v) \in Seq(S)
      /\ Len(SetAt(stk, i, v)) = Len(stk)
      /\ \A j \in 1 .. Len(stk) : SetAt(stk, i, v)[j] = IF j = i + 1 THEN v ELSE stk[j]
  BY <1>1, ExceptSeq DEF SetAt
<1>3. \A j \in Int : Within(stk, j) => j + 1 \in 1 .. Len(stk)
  BY LenProperties DEF Within
<1>. QED  BY <1>2, <1>3 DEF At

LEMMA AppendType ==
  ASSUME NEW S, NEW stk \in Seq(S), NEW v \in S
  PROVE  /\ Append(stk, v) \in Seq(S)
         /\ Len(Append(stk, v)) = Len(stk) + 1
OBVIOUS

-----------------------------------------------------------------------------
(* The machine.                                                            *)

LEMMA ConstantBounds ==
  /\ IntMax \in Nat /\ IntMax > 2
  /\ MaxStackSize \in Nat /\ 3 <= MaxStackSize /\ MaxStackSize <= IntMax
  /\ SizeModulus \in Nat /\ SizeModulus > 4 * (IntMax + 1)
BY IntMaxAssumption, StackAssumption

LEMMA InitTypeOK == Init => TypeOK
<1>. SUFFICES ASSUME Init PROVE TypeOK  OBVIOUS
<1>1. program \in Program /\ Len(program.code) <= IntMax
  BY ProgramsAssumption DEF Init, Ready
<1>2. IntegerValue(0) \in StackValue
  <2>1. 0 \in Int32  BY ConstantBounds DEF Int32, IntMin
  <2>. QED  BY <2>1, IntegerValueType
<1>3. stack \in Seq(StackValue) /\ Len(stack) = 3  BY <1>2 DEF Init, Ready
<1>4. bp \in Register /\ ip \in Register
  BY ConstantBounds, RegisterBasics DEF Init, Ready
<1>5. input \in Seq(Seq(Words) \ {<< >>})  BY InputsAssumption DEF Init, Ready
<1>6. output \in Seq(OutputItem)  BY EmptySeq DEF Init, Ready
<1>. QED
  BY <1>1, <1>3, <1>4, <1>5, <1>6, ConstantBounds DEF TypeOK, Init, Ready, Status

-----------------------------------------------------------------------------
(* The instruction under execution is an instruction of the program, and   *)
(* the address after it is an address of the program or its end.           *)
LEMMA FetchType ==
  ASSUME TypeOK, Fetching
  PROVE  /\ Cur \in Instruction
         /\ Cur.level \in Int32 /\ Cur.operand \in Int32 /\ Cur.opcode \in OpCode
         /\ ip \in Nat
         /\ ip + 1 \in 0 .. IntMax
         /\ ip + 1 \in Register /\ ip + 1 \in Int32
<1>1. program.code \in Seq(Instruction) /\ Len(program.code) <= IntMax
  BY DEF TypeOK, Program
<1>2. ip \in Nat  BY RegisterBasics DEF TypeOK
<1>3. ip < Len(program.code) /\ Len(program.code) \in Nat
  BY <1>1, LenProperties DEF Fetching
<1>4. ip + 1 \in 1 .. Len(program.code)  BY <1>2, <1>3
<1>5. Cur \in Instruction  BY <1>1, <1>4, ElementOfSeq DEF Cur
<1>6. ip + 1 \in 0 .. IntMax  BY <1>1, <1>3, <1>4, ConstantBounds
<1>7. ip + 1 \in Int32  BY <1>6, ConstantBounds DEF Int32, IntMin
<1>. QED  BY <1>2, <1>5, <1>6, <1>7, RegisterBasics DEF Instruction

LEMMA StackFacts ==
  ASSUME TypeOK
  PROVE  /\ stack \in Seq(StackValue) /\ Len(stack) \in Nat
         /\ Len(stack) <= MaxStackSize
         /\ bp \in Nat /\ ip \in Nat
BY LenProperties, RegisterBasics DEF TypeOK

(* An instruction that leaves the registers and the input alone preserves  *)
(* the types as soon as its new stack is a stack.                          *)
LEMMA LeaveTypeOK ==
  ASSUME TypeOK, Fetching, NEW s \in Seq(StackValue), Len(s) <= MaxStackSize, Leave(s)
  PROVE  TypeOK'
<1>1. ip + 1 \in Register  BY FetchType
<1>. QED  BY <1>1 DEF Leave, TypeOK

LEMMA PushTypeOK ==
  ASSUME TypeOK, Fetching, HasRoom(stack, 1), NEW v \in StackValue, PushValue(v)
  PROVE  TypeOK'
<1>1. Append(stack, v) \in Seq(StackValue) /\ Len(Append(stack, v)) = Len(stack) + 1
  BY StackFacts, AppendType
<1>2. Len(Append(stack, v)) <= MaxStackSize  BY <1>1 DEF HasRoom
<1>. QED  BY <1>1, <1>2, LeaveTypeOK DEF PushValue

(* The address of a variable access that does not throw.                   *)
LEMMA AddressType ==
  ASSUME TypeOK, Fetching, FrameFound(stack, bp, Cur.level)
  PROVE  Address(Cur) \in Int32
<1>1. AsInt(FrameBase(Cur)) \in Int32
  <2>1. stack \in Seq(StackValue) /\ Len(stack) <= MaxStackSize /\ bp \in Register
    BY DEF TypeOK
  <2>2. Cur.level \in Int  BY FetchType, RegisterBasics
  <2>. QED  BY <2>1, <2>2, FrameFoundType DEF FrameBase
<1>2. AsInt(FrameBase(Cur)) + Cur.operand \in Int
  <2>1. Cur.operand \in Int32  BY FetchType
  <2>. DEFINE b == AsInt(FrameBase(Cur))
              d == Cur.operand
  <2>2. b \in Int /\ d \in Int  BY <1>1, <2>1, RegisterBasics
  <2>. HIDE DEF b, d
  <2>3. b + d \in Int  BY <2>2
  <2>. QED  BY <2>3 DEF b, d
<1>. QED  BY <1>2, WrapIntType DEF Address

(* Replacing the top, or the two topmost values, by one value.             *)
LEMMA ReplaceTopTypeOK ==
  ASSUME TypeOK, Fetching, NEW n \in {1, 2}, Len(stack) >= n,
         NEW v \in StackValue, Leave(Append(Popped(stack, n), v))
  PROVE  TypeOK'
<1>1. n \in 0 .. Len(stack)  BY StackFacts
<1>2. Popped(stack, n) \in Seq(StackValue) /\ Len(Popped(stack, n)) = Len(stack) - n
  BY <1>1, StackFacts, PoppedProperties
<1>. DEFINE s == Append(Popped(stack, n), v)
<1>3. s \in Seq(StackValue) /\ Len(s) = Len(Popped(stack, n)) + 1
  BY <1>2, AppendType
<1>4. Len(s) <= MaxStackSize
  <2>1. Len(stack) \in Nat /\ Len(stack) <= MaxStackSize /\ MaxStackSize \in Nat
    BY StackFacts, ConstantBounds
  <2>2. Len(s) = Len(stack) - n + 1  BY <1>2, <1>3
  <2>. HIDE DEF s
  <2>. QED  BY <2>1, <2>2
<1>. QED  BY <1>3, <1>4, LeaveTypeOK

(* Popping n values and storing one of them below.                         *)
LEMMA StoreTypeOK ==
  ASSUME TypeOK, Fetching, NEW n \in {1, 2}, Len(stack) >= n, NEW i \in Int,
         0 <= i, i < Len(stack) - n, NEW v \in StackValue
  PROVE  /\ SetAt(Popped(stack, n), i, v) \in Seq(StackValue)
         /\ Len(SetAt(Popped(stack, n), i, v)) <= MaxStackSize
<1>1. n \in 0 .. Len(stack)  BY StackFacts
<1>2. Popped(stack, n) \in Seq(StackValue) /\ Len(Popped(stack, n)) = Len(stack) - n
  BY <1>1, StackFacts, PoppedProperties
<1>3. Within(Popped(stack, n), i)  BY <1>2 DEF Within
<1>. DEFINE s == SetAt(Popped(stack, n), i, v)
<1>4. s \in Seq(StackValue) /\ Len(s) = Len(Popped(stack, n))
  BY <1>2, <1>3, SetAtProperties
<1>5. Len(s) <= MaxStackSize
  <2>1. Len(stack) \in Nat /\ Len(stack) <= MaxStackSize /\ MaxStackSize \in Nat
    BY StackFacts, ConstantBounds
  <2>2. Len(s) = Len(stack) - n  BY <1>2, <1>4
  <2>. HIDE DEF s
  <2>. QED  BY <2>1, <2>2
<1>. QED  BY <1>4, <1>5

-----------------------------------------------------------------------------
(* One lemma per instruction.                                              *)

LEMMA INTTypeOK == TypeOK /\ INT => TypeOK'
<1>. SUFFICES ASSUME TypeOK, INT PROVE TypeOK'  OBVIOUS
<1>. DEFINE n == Cur.operand - HeaderSize
            zeros == [k \in 1 .. n |-> IntegerValue(0)]
<1>1. Fetching /\ Cur.opcode = "INT" /\ ~Fault  BY DEF INT, Step, Succeeds
<1>2. ~InvalidInstruction(Cur) /\ HasRoom(stack, n)  BY <1>1 DEF Fault
<1>3. Cur.operand \in Int  BY <1>1, FetchType, RegisterBasics
<1>4. n \in Nat
  <2>1. ~(Cur.operand < HeaderSize)  BY <1>1, <1>2 DEF InvalidInstruction
  <2>. QED  BY <1>3, <2>1 DEF HeaderSize
<1>5. IntegerValue(0) \in StackValue
  <2>1. 0 \in Int32  BY ConstantBounds DEF Int32, IntMin
  <2>. QED  BY <2>1, IntegerValueType
<1>6. zeros \in Seq(StackValue) /\ Len(zeros) = n
  <2>. HIDE DEF n
  <2>. QED  BY <1>4, <1>5
<1>7. /\ stack \o zeros \in Seq(StackValue)
      /\ Len(stack \o zeros) = Len(stack) + Len(zeros)
  <2>. HIDE DEF zeros
  <2>. QED  BY <1>6, StackFacts, ConcatProperties
<1>8. Len(stack \o zeros) <= MaxStackSize
  <2>. HIDE DEF zeros, n
  <2>. QED  BY <1>2, <1>6, <1>7 DEF HasRoom
<1>9. Leave(stack \o zeros)  BY DEF INT
<1>. QED  BY <1>1, <1>7, <1>8, <1>9, LeaveTypeOK

LEMMA PoolElement ==
  ASSUME NEW S, NEW pool \in Seq(S), NEW index \in Int, InPool(pool, index)
  PROVE  pool[index + 1] \in S
<1>1. index + 1 \in 1 .. Len(pool)  BY LenProperties DEF InPool
<1>. QED  BY <1>1, ElementOfSeq

LEMMA LiteralTypeOK == TypeOK /\ (LIT \/ LITB \/ LITS \/ LITR) => TypeOK'
<1>. SUFFICES ASSUME TypeOK, LIT \/ LITB \/ LITS \/ LITR PROVE TypeOK'  OBVIOUS
<1>1. Fetching /\ HasRoom(stack, 1)
  BY DEF LIT, LITB, LITS, LITR, Step, Succeeds, Fault
<1>2. Cur.operand \in Int32  BY <1>1, FetchType
<1>3. program.strings \in Seq(Text)
      /\ program.reals \in Seq({v \in Value : v.kind = "Real"})
  BY DEF TypeOK, Program
<1>4. CASE LIT
  <2>1. IntegerValue(Cur.operand) \in StackValue  BY <1>2, IntegerValueType
  <2>. QED  BY <1>1, <1>4, <2>1, PushTypeOK DEF LIT
<1>5. CASE LITB
  <2>1. (Cur.operand # 0) \in BOOLEAN  OBVIOUS
  <2>2. BooleanValue(Cur.operand # 0) \in StackValue
    <3>1. \/ BooleanValue(Cur.operand # 0) = BooleanValue(TRUE)
          \/ BooleanValue(Cur.operand # 0) = BooleanValue(FALSE)
      BY DEF BooleanValue
    <3>. QED  BY <3>1, BooleanValueType
  <2>. QED  BY <1>1, <1>5, <2>2, PushTypeOK DEF LITB
<1>6. CASE LITS
  <2>1. InPool(program.strings, Cur.operand)
    BY <1>6 DEF LITS, Step, Succeeds, Fault
  <2>2. program.strings[Cur.operand + 1] \in Text
    BY <1>2, <1>3, <2>1, PoolElement, RegisterBasics
  <2>3. StringValue(program.strings[Cur.operand + 1]) \in StackValue
    BY <2>2, StringValueType
  <2>. QED  BY <1>1, <1>6, <2>3, PushTypeOK DEF LITS
<1>7. CASE LITR
  <2>1. InPool(program.reals, Cur.operand)
    BY <1>7 DEF LITR, Step, Succeeds, Fault
  <2>3. program.reals[Cur.operand + 1] \in {v \in Value : v.kind = "Real"}
    BY <1>2, <1>3, <2>1, PoolElement, RegisterBasics
  <2>4. program.reals[Cur.operand + 1] \in StackValue  BY <2>3 DEF StackValue
  <2>. QED  BY <1>1, <1>7, <2>4, PushTypeOK DEF LITR
<1>. QED  BY <1>4, <1>5, <1>6, <1>7

LEMMA LODTypeOK == TypeOK /\ LOD => TypeOK'
<1>. SUFFICES ASSUME TypeOK, LOD PROVE TypeOK'  OBVIOUS
<1>1. Fetching /\ ~LodFault(Cur)  BY DEF LOD, Step, Succeeds, Fault
<1>2. HasRoom(stack, 1) /\ Within(stack, Address(Cur)) /\ FrameFound(stack, bp, Cur.level)
  BY <1>1 DEF LodFault, SlotFault
<1>3. Address(Cur) \in Int  BY <1>1, <1>2, AddressType, RegisterBasics
<1>4. At(stack, Address(Cur)) \in StackValue  BY <1>2, <1>3, StackFacts, AtType
<1>. QED  BY <1>1, <1>2, <1>4, PushTypeOK DEF LOD

LEMMA ADDRTypeOK == TypeOK /\ ADDR => TypeOK'
<1>. SUFFICES ASSUME TypeOK, ADDR PROVE TypeOK'  OBVIOUS
<1>1. Fetching /\ ~AddrFault(Cur)  BY DEF ADDR, Step, Succeeds, Fault
<1>2. HasRoom(stack, 1) /\ FrameFound(stack, bp, Cur.level)  BY <1>1 DEF AddrFault
<1>3. IntegerValue(Address(Cur)) \in StackValue
  BY <1>1, <1>2, AddressType, IntegerValueType
<1>. QED  BY <1>1, <1>2, <1>3, PushTypeOK DEF ADDR

LEMMA STOTypeOK == TypeOK /\ STO => TypeOK'
<1>. SUFFICES ASSUME TypeOK, STO PROVE TypeOK'  OBVIOUS
<1>1. Fetching /\ ~StoFault(Cur)  BY DEF STO, Step, Succeeds, Fault
<1>2. FrameFound(stack, bp, Cur.level) /\ 0 <= Address(Cur) /\ Within(stack, Address(Cur) + 1)
  BY <1>1 DEF StoFault, SlotFault
<1>3. Address(Cur) \in Int  BY <1>1, <1>2, AddressType, RegisterBasics
<1>4. Address(Cur) < Len(stack) - 1  BY <1>2, <1>3, StackFacts DEF Within
<1>5. Len(stack) >= 1 /\ stack # << >>  BY <1>2, <1>3, <1>4, StackFacts, EmptySeq
<1>6. Top(stack) \in StackValue  BY <1>5, StackFacts, TopType
<1>7. /\ SetAt(Popped(stack, 1), Address(Cur), Top(stack)) \in Seq(StackValue)
      /\ Len(SetAt(Popped(stack, 1), Address(Cur), Top(stack))) <= MaxStackSize
  BY <1>1, <1>2, <1>3, <1>4, <1>5, <1>6, StoreTypeOK
<1>. QED  BY <1>1, <1>7, LeaveTypeOK DEF STO

LEMMA LODITypeOK == TypeOK /\ LODI => TypeOK'
<1>. SUFFICES ASSUME TypeOK, LODI PROVE TypeOK'  OBVIOUS
<1>1. Fetching /\ ~LodiFault  BY DEF LODI, Step, Succeeds, Fault
<1>2. stack # << >> /\ 0 <= Top(stack).num /\ Top(stack).num < Len(stack) - 1
  BY <1>1 DEF LodiFault
<1>3. Len(stack) >= 1 /\ Top(stack).num \in Int
  BY <1>2, StackFacts, TopType, ValueFields
<1>4. Within(stack, Top(stack).num)  BY <1>2, <1>3, StackFacts DEF Within
<1>5. At(stack, Top(stack).num) \in StackValue  BY <1>3, <1>4, StackFacts, AtType
<1>. QED  BY <1>1, <1>3, <1>5, ReplaceTopTypeOK DEF LODI

LEMMA STOITypeOK == TypeOK /\ STOI => TypeOK'
<1>. SUFFICES ASSUME TypeOK, STOI PROVE TypeOK'  OBVIOUS
<1>1. Fetching /\ ~StoiFault  BY DEF STOI, Step, Succeeds, Fault
<1>2. Holds2(stack) /\ 0 <= Top(stack).num /\ Top(stack).num < Len(stack) - 2
  BY <1>1 DEF StoiFault
<1>3. Len(stack) >= 2 /\ Top(stack) \in StackValue /\ Second(stack) \in StackValue
  BY <1>2, StackFacts, SecondType
<1>4. Top(stack).num \in Int  BY <1>3, ValueFields
<1>5. /\ SetAt(Popped(stack, 2), Top(stack).num, Second(stack)) \in Seq(StackValue)
      /\ Len(SetAt(Popped(stack, 2), Top(stack).num, Second(stack))) <= MaxStackSize
  BY <1>1, <1>2, <1>3, <1>4, StoreTypeOK
<1>. QED  BY <1>1, <1>5, LeaveTypeOK DEF STOI

LEMMA CHKTypeOK == TypeOK /\ CHK => TypeOK'
<1>. SUFFICES ASSUME TypeOK, CHK PROVE TypeOK'  OBVIOUS
<1>1. Fetching /\ ~ChkFault(Cur)  BY DEF CHK, Step, Succeeds, Fault
<1>2. stack # << >> /\ Top(stack).kind \in {"Integer", "Boolean"}
  BY <1>1 DEF ChkFault
<1>3. Len(stack) >= 1 /\ Top(stack).num \in Int32
  BY <1>2, StackFacts, TopType, ValueFields
<1>4. IntegerValue(Top(stack).num) \in StackValue  BY <1>3, IntegerValueType
<1>. QED  BY <1>1, <1>3, <1>4, ReplaceTopTypeOK DEF CHK

LEMMA JumpTypeOK == TypeOK /\ (JMP \/ JPC) => TypeOK'
<1>. SUFFICES ASSUME TypeOK, JMP \/ JPC PROVE TypeOK'  OBVIOUS
<1>1. Fetching /\ ~Fault /\ Cur.opcode \in {"JMP", "JPC"}
  BY DEF JMP, JPC, Step, Succeeds
<1>2. IsJumpTarget(program, Cur.operand)
  BY <1>1 DEF Fault, InvalidInstruction
<1>3. Cur.operand \in Register
  <2>1. Cur.operand \in Int  BY <1>1, FetchType, RegisterBasics
  <2>2. program.code \in Seq(Instruction) /\ Len(program.code) <= IntMax
    BY DEF TypeOK, Program
  <2>3. Cur.operand \in 0 .. IntMax
    BY <1>2, <2>1, <2>2, LenProperties, ConstantBounds DEF IsJumpTarget
  <2>. QED  BY <2>3, RegisterBasics
<1>4. CASE JMP
  BY <1>3, <1>4 DEF JMP, TypeOK
<1>5. CASE JPC
  <2>1. stack # << >>  BY <1>5 DEF JPC, Step, Succeeds, Fault
  <2>2. 1 \in 0 .. Len(stack)  BY <2>1, StackFacts, TopType
  <2>3. Popped(stack, 1) \in Seq(StackValue) /\ Len(Popped(stack, 1)) = Len(stack) - 1
    BY <2>2, StackFacts, PoppedProperties
  <2>4. Len(Popped(stack, 1)) <= MaxStackSize  BY <2>3, StackFacts, ConstantBounds
  <2>5. ip + 1 \in Register  BY <1>1, FetchType
  <2>. QED  BY <1>3, <1>5, <2>3, <2>4, <2>5 DEF JPC, TypeOK
<1>. QED  BY <1>4, <1>5

LEMMA CALTypeOK == TypeOK /\ CAL => TypeOK'
<1>. SUFFICES ASSUME TypeOK, CAL PROVE TypeOK'  OBVIOUS
<1>. DEFINE link   == IntegerValue(AsInt(FrameBase(Cur)))
            caller == IntegerValue(AsInt(bp))
            back   == IntegerValue(ip + 1)
            header == << link, caller, back >>
<1>1. Fetching /\ ~CalFault(Cur) /\ ~InvalidInstruction(Cur) /\ Cur.opcode = "CAL"
  BY DEF CAL, Step, Succeeds, Fault
<1>2. FrameFound(stack, bp, Cur.level) /\ HasRoom(stack, HeaderSize)
  BY <1>1 DEF CalFault
<1>3. Cur.level \in Int /\ Cur.operand \in Int  BY <1>1, FetchType, RegisterBasics
<1>4. AsInt(FrameBase(Cur)) \in Int32
  <2>1. stack \in Seq(StackValue) /\ Len(stack) <= MaxStackSize /\ bp \in Register
    BY DEF TypeOK
  <2>. QED  BY <1>2, <1>3, <2>1, FrameFoundType DEF FrameBase
<1>5. link \in StackValue /\ caller \in StackValue /\ back \in StackValue
  BY <1>1, <1>4, FetchType, IntOfSize, IntegerValueType DEF TypeOK
<1>6. header \in Seq(StackValue) /\ Len(header) = 3
  <2>. HIDE DEF link, caller, back
  <2>. QED  BY <1>5
<1>7. stack \o header \in Seq(StackValue) /\ Len(stack \o header) = Len(stack) + 3
  <2>. HIDE DEF header
  <2>1. /\ stack \o header \in Seq(StackValue)
        /\ Len(stack \o header) = Len(stack) + Len(header)
    BY <1>6, StackFacts, ConcatProperties
  <2>. QED  BY <1>6, <2>1
<1>8. Len(stack \o header) <= MaxStackSize
  <2>. HIDE DEF header
  <2>. QED  BY <1>2, <1>7 DEF HasRoom, HeaderSize
<1>9. Len(stack) \in Register
  <2>1. Len(stack) \in 0 .. IntMax  BY StackFacts, ConstantBounds
  <2>. QED  BY <2>1, RegisterBasics
<1>10. Cur.operand \in Register
  <2>1. IsJumpTarget(program, Cur.operand)  BY <1>1 DEF InvalidInstruction
  <2>2. program.code \in Seq(Instruction) /\ Len(program.code) <= IntMax
    BY DEF TypeOK, Program
  <2>3. Cur.operand \in 0 .. IntMax
    BY <1>3, <2>1, <2>2, LenProperties, ConstantBounds DEF IsJumpTarget
  <2>. QED  BY <2>3, RegisterBasics
<1>11. stack' = stack \o header  BY DEF CAL
<1>12. stack' \in Seq(StackValue) /\ Len(stack') <= MaxStackSize  BY <1>7, <1>8, <1>11
<1>. QED  BY <1>9, <1>10, <1>12 DEF CAL, TypeOK

(* The header slots a return reads hold Integers of the machine.           *)
LEMMA HeaderSlots ==
  ASSUME TypeOK, Fetching, ~RetFault(Cur), Cur.opcode = "RET", ~InvalidInstruction(Cur)
  PROVE  /\ DynamicLink.num \in Int32 /\ ReturnAddress.num \in Int32
         /\ Cur.operand \in {0, 1} /\ Cur.level \in Nat /\ Cur.level <= bp
         /\ Cur.operand <= Len(stack)
         /\ CleanupBase(Cur) \in 0 .. Len(stack) - Cur.operand
<1>1. Cur.operand \in {0, 1} /\ ~(Cur.level < 0)  BY DEF InvalidInstruction
<1>2. Cur.level \in Int  BY FetchType, RegisterBasics
<1>3. Cur.level \in Nat  BY <1>1, <1>2
<1>4. ~(Cur.level > bp) /\ ~(Len(stack) < Cur.operand) /\ ~(CleanupBase(Cur) > Len(stack) - Cur.operand)
  BY DEF RetFault
<1>5. Cur.level <= bp /\ Cur.operand <= Len(stack)  BY <1>1, <1>3, <1>4, StackFacts
<1>6. CleanupBase(Cur) \in Nat  BY <1>3, <1>5, StackFacts DEF CleanupBase
<1>7. CleanupBase(Cur) \in 0 .. Len(stack) - Cur.operand  BY <1>1, <1>4, <1>6, StackFacts
<1>8. ASSUME NEW k \in 1 .. 2
      PROVE  At(stack, (bp + k) % SizeModulus).num \in Int32
  <2>. DEFINE slot == (bp + k) % SizeModulus
  <2>1. slot \in Nat
    <3>1. bp + k \in Int  BY StackFacts
    <3>. QED  BY <3>1, ConstantBounds
  <2>2. ~(slot >= Len(stack) - Cur.operand) /\ IsInteger(At(stack, slot))
    BY DEF RetFault
  <2>. HIDE DEF slot
  <2>3. Within(stack, slot)  BY <1>1, <2>1, <2>2, StackFacts DEF Within
  <2>4. At(stack, slot) \in StackValue  BY <2>1, <2>3, StackFacts, AtType
  <2>5. At(stack, slot).num \in Int32  BY <2>2, <2>4, ValueFields DEF IsInteger
  <2>. QED  BY <2>5 DEF slot
<1>9. DynamicLink.num \in Int32  BY <1>8 DEF DynamicLink
<1>10. ReturnAddress.num \in Int32  BY <1>8 DEF ReturnAddress
<1>. QED  BY <1>1, <1>3, <1>5, <1>7, <1>9, <1>10

LEMMA RETTypeOK == TypeOK /\ RET => TypeOK'
<1>. SUFFICES ASSUME TypeOK, RET PROVE TypeOK'  OBVIOUS
<1>1. Fetching /\ ~RetFault(Cur) /\ Cur.opcode = "RET" /\ ~InvalidInstruction(Cur)
  BY DEF RET, Step, Succeeds, Fault
<1>2. DynamicLink.num \in Int32 /\ ReturnAddress.num \in Int32 /\ Cur.operand \in {0, 1}
      /\ CleanupBase(Cur) \in 0 .. Len(stack) - Cur.operand /\ Cur.operand <= Len(stack)
  BY <1>1, HeaderSlots
<1>3. CASE bp = 0 /\ DynamicLink.num = 0
  <2>1. /\ stack' = << >> /\ ip' = ip + 1 /\ status' = "halted"
        /\ bp' = bp /\ program' = program /\ output' = output /\ input' = input
    BY <1>3 DEF RET
  <2>2. ip + 1 \in Register  BY <1>1, FetchType
  <2>3. << >> \in Seq(StackValue) /\ Len(<< >>) <= MaxStackSize
    BY EmptySeq, ConstantBounds
  <2>. QED  BY <2>1, <2>2, <2>3 DEF TypeOK, Status
<1>4. CASE ~(bp = 0 /\ DynamicLink.num = 0)
  <2>. DEFINE kept   == PopTo(stack, CleanupBase(Cur))
              result == IF Cur.operand = 1 THEN << Top(stack) >> ELSE << >>
  <2>1. /\ stack' = kept \o result
        /\ bp' = AsSize(DynamicLink.num) /\ ip' = AsSize(ReturnAddress.num)
        /\ status' = status /\ program' = program /\ output' = output /\ input' = input
    BY <1>4 DEF RET
  <2>2. bp' \in Register /\ ip' \in Register  BY <1>2, <2>1, SizeOfInt
  <2>3. CleanupBase(Cur) \in 0 .. Len(stack)  BY <1>2, StackFacts
  <2>4. kept \in Seq(StackValue) /\ Len(kept) = CleanupBase(Cur)
    BY <2>3, StackFacts, PopToProperties
  <2>5. result \in Seq(StackValue) /\ Len(result) = Cur.operand
    <3>1. CASE Cur.operand = 1
      <4>1. stack # << >>  BY <1>2, <3>1, StackFacts, EmptySeq
      <4>2. Top(stack) \in StackValue  BY <4>1, StackFacts, TopType
      <4>. QED  BY <3>1, <4>2
    <3>2. CASE Cur.operand = 0  BY <3>2, EmptySeq
    <3>. QED  BY <1>2, <3>1, <3>2
  <2>6. kept \o result \in Seq(StackValue) /\ Len(kept \o result) = Len(kept) + Len(result)
    <3>. HIDE DEF kept, result
    <3>. QED  BY <2>4, <2>5, ConcatProperties
  <2>7. Len(kept \o result) <= MaxStackSize
    <3>. HIDE DEF kept, result
    <3>1. Len(kept \o result) = CleanupBase(Cur) + Cur.operand  BY <2>4, <2>5, <2>6
    <3>2. CleanupBase(Cur) + Cur.operand <= Len(stack)  BY <1>2, <2>3, StackFacts
    <3>3. CleanupBase(Cur) + Cur.operand \in Nat  BY <1>2, <2>3
    <3>. QED  BY <3>1, <3>2, <3>3, StackFacts, ConstantBounds
  <2>. HIDE DEF kept, result
  <2>8. stack' \in Seq(StackValue) /\ Len(stack') <= MaxStackSize
    BY <2>1, <2>6, <2>7
  <2>. QED  BY <2>1, <2>2, <2>8 DEF TypeOK
<1>. QED  BY <1>3, <1>4

LEMMA OperationTypeOK ==
  TypeOK /\ (Negate \/ BinaryArithmetic \/ BinaryComparison \/ Write \/ Discard) => TypeOK'
<1>. SUFFICES ASSUME TypeOK,
                     Negate \/ BinaryArithmetic \/ BinaryComparison \/ Write \/ Discard
              PROVE  TypeOK'
  OBVIOUS
<1>. DEFINE name == OprName(Cur.operand)
<1>1. Fetching /\ Cur.opcode = "OPR" /\ ~OprFault(name)
  BY DEF Negate, BinaryArithmetic, BinaryComparison, Write, Discard, StepOpr, Step, Succeeds, Fault
<1>2. CASE Negate
  <2>1. name = "NEG"  BY <1>2 DEF Negate, StepOpr
  <2>2. stack # << >> /\ ~NegFault(Top(stack))  BY <1>1, <2>1 DEF OprFault
  <2>3. Len(stack) >= 1 /\ Top(stack) \in StackValue  BY <2>2, StackFacts, TopType
  <2>4. Negated(Top(stack)) \in StackValue  BY <2>2, <2>3, NegatedType
  <2>. QED  BY <1>1, <1>2, <2>3, <2>4, ReplaceTopTypeOK DEF Negate
<1>3. CASE BinaryArithmetic
  <2>1. name \in ArithOps  BY <1>3 DEF BinaryArithmetic, StepOpr
  <2>2. Holds2(stack) /\ ~ArithFault(name, Second(stack), Top(stack))
    BY <1>1, <2>1 DEF OprFault
  <2>3. Len(stack) >= 2 /\ Top(stack) \in StackValue /\ Second(stack) \in StackValue
    BY <2>2, StackFacts, SecondType
  <2>4. Arith(name, Second(stack), Top(stack)) \in StackValue
    BY <2>1, <2>2, <2>3, ArithType
  <2>. QED  BY <1>1, <1>3, <2>3, <2>4, ReplaceTopTypeOK DEF BinaryArithmetic
<1>4. CASE BinaryComparison
  <2>1. name \in CompareOps  BY <1>4 DEF BinaryComparison, StepOpr
  <2>2. Holds2(stack)  BY <1>1, <2>1 DEF OprFault
  <2>3. Len(stack) >= 2  BY <2>2, StackFacts, SecondType
  <2>4. Compare(name, Second(stack), Top(stack)) \in StackValue  BY <2>1, CompareType
  <2>. QED  BY <1>1, <1>4, <2>3, <2>4, ReplaceTopTypeOK DEF BinaryComparison
<1>5. CASE Write \/ Discard
  <2>1. name \in {"WRT", "WRTLN", "POP"}  BY <1>5 DEF Write, Discard, StepOpr
  <2>2. stack # << >>  BY <1>1, <2>1 DEF OprFault
  <2>3. 1 \in 0 .. Len(stack) /\ Top(stack) \in StackValue  BY <2>2, StackFacts, TopType
  <2>4. Popped(stack, 1) \in Seq(StackValue) /\ Len(Popped(stack, 1)) = Len(stack) - 1
    BY <2>3, StackFacts, PoppedProperties
  <2>5. Len(Popped(stack, 1)) <= MaxStackSize  BY <2>4, StackFacts, ConstantBounds
  <2>6. ip + 1 \in Register  BY <1>1, FetchType
  <2>7. CASE Discard  BY <1>1, <2>4, <2>5, <2>7, LeaveTypeOK DEF Discard
  <2>8. CASE Write
    <3>. DEFINE item == [text |-> ToText(Top(stack)), newline |-> name = "WRTLN"]
    <3>1. ToText(Top(stack)) \in Text  BY <2>3, ToTextType
    <3>2. item \in OutputItem  BY <3>1, Zenon DEF OutputItem
    <3>3. output \in Seq(OutputItem)  BY DEF TypeOK
    <3>4. Append(output, item) \in Seq(OutputItem)
      <4>. HIDE DEF item
      <4>. QED  BY <3>2, <3>3, AppendType
    <3>5. output' = Append(output, item)  BY <2>8 DEF Write
    <3>. HIDE DEF item
    <3>6. output' \in Seq(OutputItem)  BY <3>4, <3>5
    <3>. QED  BY <2>4, <2>5, <2>6, <2>8, <3>6 DEF Write, TypeOK
  <2>. QED  BY <1>5, <2>7, <2>8
<1>. QED  BY <1>2, <1>3, <1>4, <1>5

LEMMA TruncatedType ==
  ASSUME NEW v, v.num \in Int, v.den \in Nat \ {0}
  PROVE  Truncated(v) \in Int
BY DEF Truncated

(* What a read takes from the input is a non-empty text, and what it       *)
(* leaves has no empty line.                                               *)
LEMMA ReadInput ==
  ASSUME NEW inp \in Seq(Seq(Words) \ {<< >>}), inp # << >>, NEW wholeLine \in BOOLEAN
  PROVE  /\ (IF wholeLine THEN Head(inp) ELSE << Head(Head(inp)) >>) \in Seq(Words) \ {<< >>}
         /\ (IF wholeLine \/ Len(Head(inp)) = 1 THEN Tail(inp)
             ELSE << Tail(Head(inp)) >> \o Tail(inp)) \in Seq(Seq(Words) \ {<< >>})
<1>. DEFINE line == Head(inp)
            rest == Tail(inp)
<1>1. line \in Seq(Words) /\ line # << >> /\ rest \in Seq(Seq(Words) \ {<< >>})
  BY HeadTailProperties
<1>. HIDE DEF line, rest
<1>2. Head(line) \in Words /\ Tail(line) \in Seq(Words) /\ Len(Tail(line)) = Len(line) - 1
  BY <1>1, HeadTailProperties
<1>3. << Head(line) >> \in Seq(Words) \ {<< >>}  BY <1>2
<1>4. ASSUME Len(line) # 1
      PROVE  << Tail(line) >> \o rest \in Seq(Seq(Words) \ {<< >>})
  <2>1. Len(line) \in Nat \ {0}  BY <1>1, EmptySeq
  <2>2. Tail(line) # << >>
    <3>1. Len(Tail(line)) # 0  BY <1>2, <1>4, <2>1
    <3>. QED  BY <3>1, EmptySeq
  <2>3. << Tail(line) >> \in Seq(Seq(Words) \ {<< >>})  BY <1>2, <2>2
  <2>. QED  BY <1>1, <2>3, ConcatProperties
<1>. QED  BY <1>1, <1>3, <1>4 DEF line, rest

LEMMA ReadTypeOK == TypeOK /\ Read => TypeOK'
<1>. SUFFICES ASSUME TypeOK, Read PROVE TypeOK'  OBVIOUS
<1>. DEFINE wholeLine == OprName(Cur.operand) = "RDLN"
            address == Truncated(Second(stack))
            code == Truncated(Top(stack))
            text == NextText(wholeLine)
            value == ReadResult(code, text)
<1>1. Fetching /\ ~ReadsFault(wholeLine)
  BY DEF Read, StepOpr, Step, Succeeds, Fault, OprFault
<1>2. /\ Holds2(stack) /\ 0 <= address /\ address < Len(stack) - 2
      /\ input # << >> /\ ~ReadFault(code, text)
  BY <1>1 DEF ReadsFault
<1>3. Len(stack) >= 2 /\ Top(stack) \in StackValue /\ Second(stack) \in StackValue
  BY <1>2, StackFacts, SecondType
<1>4. address \in Int /\ code \in Int  BY <1>3, ValueFields, TruncatedType
<1>5. wholeLine \in BOOLEAN  BY Zenon
<1>6. input \in Seq(Seq(Words) \ {<< >>})  BY DEF TypeOK
<1>7. text \in Seq(Words) \ {<< >>}
  <2>. HIDE DEF wholeLine
  <2>. QED  BY <1>2, <1>5, <1>6, ReadInput DEF NextText
<1>8. value \in StackValue
  <2>. HIDE DEF code, text
  <2>. QED  BY <1>2, <1>4, <1>7, ReadResultType
<1>9. /\ SetAt(Popped(stack, 2), address, value) \in Seq(StackValue)
      /\ Len(SetAt(Popped(stack, 2), address, value)) <= MaxStackSize
  <2>. HIDE DEF address, value
  <2>. QED  BY <1>1, <1>2, <1>3, <1>4, <1>8, StoreTypeOK
<1>10. stack' = SetAt(Popped(stack, 2), address, value)  BY Zenon DEF Read
<1>11. input' \in Seq(Seq(Words) \ {<< >>})
  <2>1. input' = IF wholeLine \/ Len(Head(input)) = 1 THEN Tail(input)
                 ELSE << Tail(Head(input)) >> \o Tail(input)
    BY Zenon DEF Read
  <2>. HIDE DEF wholeLine
  <2>. QED  BY <1>2, <1>5, <1>6, <2>1, ReadInput
<1>12. stack' \in Seq(StackValue) /\ Len(stack') <= MaxStackSize  BY <1>9, <1>10
<1>13. ip' \in Register  BY <1>1, FetchType DEF Read
<1>. QED  BY <1>11, <1>12, <1>13 DEF Read, TypeOK

LEMMA EndTypeOK == TypeOK /\ (Throw \/ RunOff \/ UNCHANGED vars) => TypeOK'
BY DEF Throw, RunOff, TypeOK, Status, vars

-----------------------------------------------------------------------------

LEMMA NextTypeOK == TypeOK /\ [Next]_vars => TypeOK'
<1>. SUFFICES ASSUME TypeOK, [Next]_vars PROVE TypeOK'  OBVIOUS
<1>1. CASE INT  BY <1>1, INTTypeOK
<1>2. CASE LIT \/ LITB \/ LITS \/ LITR  BY <1>2, LiteralTypeOK
<1>3. CASE LOD  BY <1>3, LODTypeOK
<1>4. CASE STO  BY <1>4, STOTypeOK
<1>5. CASE ADDR  BY <1>5, ADDRTypeOK
<1>6. CASE LODI  BY <1>6, LODITypeOK
<1>7. CASE STOI  BY <1>7, STOITypeOK
<1>8. CASE CHK  BY <1>8, CHKTypeOK
<1>9. CASE JMP \/ JPC  BY <1>9, JumpTypeOK
<1>10. CASE CAL  BY <1>10, CALTypeOK
<1>11. CASE RET  BY <1>11, RETTypeOK
<1>12. CASE Negate \/ BinaryArithmetic \/ BinaryComparison \/ Write \/ Discard
  BY <1>12, OperationTypeOK
<1>13. CASE Read  BY <1>13, ReadTypeOK
<1>14. CASE Throw \/ RunOff \/ Stopped \/ UNCHANGED vars
  BY <1>14, EndTypeOK DEF Stopped
<1>. QED
  BY <1>1, <1>2, <1>3, <1>4, <1>5, <1>6, <1>7, <1>8, <1>9, <1>10, <1>11, <1>12,
     <1>13, <1>14 DEF Next, Execute

(* Every program, compiled or hand-written, and every input: the values of *)
(* the stack are well formed, an Integer stays within 32 bits, the stack   *)
(* within MAX_STACK_SIZE (interpreter.cpp, stack_machine.cpp).             *)
THEOREM TypeCorrect == Spec => []TypeOK
<1>1. Init => TypeOK  BY InitTypeOK
<1>2. TypeOK /\ [Next]_vars => TypeOK'  BY NextTypeOK
<1>. QED  BY <1>1, <1>2, PTL DEF Spec

-----------------------------------------------------------------------------
(* The two action properties follow from TypeOK.                           *)

LEMMA OneInstruction ==
  ASSUME TypeOK, [Next]_vars, vars' # vars, Fetching, status' = "running"
  PROVE  /\ Cur.opcode = "RET" => RET
         /\ Cur.opcode = "STO" => STO
<1>1. ~RunOff
  <2>1. ip < Len(program.code)  BY DEF Fetching
  <2>2. program.code \in Seq(Instruction)  BY DEF TypeOK, Program
  <2>. QED  BY <2>1, <2>2, StackFacts, LenProperties DEF RunOff
<1>2. ~Throw /\ ~Stopped  BY DEF Throw, Stopped, Fetching
<1>. QED
  BY <1>1, <1>2
  DEF Next, Execute, INT, LIT, LITB, LITS, LITR, LOD, STO, ADDR, LODI, STOI, CHK, JMP,
      JPC, CAL, RET, Negate, BinaryArithmetic, BinaryComparison, Write, Discard, Read,
      StepOpr, Step

LEMMA ReturnStep ==
  ASSUME TypeOK, RET, bp > 0
  PROVE  /\ bp' + Cur.level < bp
         /\ PopTo(stack', bp - Cur.level) = PopTo(stack, bp - Cur.level)
         /\ Len(stack') = bp - Cur.level + Cur.operand
<1>. DEFINE base   == CleanupBase(Cur)
            kept   == PopTo(stack, base)
            result == IF Cur.operand = 1 THEN << Top(stack) >> ELSE << >>
<1>1. Fetching /\ ~RetFault(Cur) /\ Cur.opcode = "RET" /\ ~InvalidInstruction(Cur)
  BY DEF RET, Step, Succeeds, Fault
<1>2. /\ DynamicLink.num \in Int32 /\ Cur.operand \in {0, 1}
      /\ Cur.level \in Nat /\ Cur.level <= bp
      /\ base \in 0 .. Len(stack) - Cur.operand /\ Cur.operand <= Len(stack)
  BY <1>1, HeaderSlots
<1>3. stack' = kept \o result /\ bp' = AsSize(DynamicLink.num)
  BY DEF RET
<1>4. base = bp - Cur.level /\ base \in 0 .. Len(stack)
  BY <1>2, StackFacts DEF CleanupBase
<1>5. 0 <= DynamicLink.num /\ DynamicLink.num < base
  BY <1>1 DEF RetFault
<1>6. bp' + Cur.level < bp
  <2>1. DynamicLink.num \in Int  BY <1>2, RegisterBasics
  <2>2. bp' = DynamicLink.num  BY <1>3, <1>5, <2>1 DEF AsSize
  <2>. HIDE DEF base
  <2>. QED  BY <1>2, <1>4, <1>5, <2>1, <2>2, StackFacts
<1>7. kept \in Seq(StackValue) /\ Len(kept) = base
  BY <1>4, StackFacts, PopToProperties
<1>8. result \in Seq(StackValue) /\ Len(result) = Cur.operand
  <2>1. CASE Cur.operand = 1
    <3>1. stack # << >>  BY <1>2, <2>1, StackFacts, EmptySeq
    <3>2. Top(stack) \in StackValue  BY <3>1, StackFacts, TopType
    <3>. QED  BY <2>1, <3>2
  <2>2. CASE Cur.operand = 0  BY <2>2, EmptySeq
  <2>. QED  BY <1>2, <2>1, <2>2
<1>. HIDE DEF kept, result, base
<1>9. /\ stack' \in Seq(StackValue)
      /\ Len(stack') = Len(kept) + Len(result)
      /\ \A i \in 1 .. Len(kept) + Len(result) :
           stack'[i] = IF i <= Len(kept) THEN kept[i] ELSE result[i - Len(kept)]
  <2>1. /\ kept \o result \in Seq(StackValue)
        /\ Len(kept \o result) = Len(kept) + Len(result)
        /\ \A i \in 1 .. Len(kept) + Len(result) :
             (kept \o result)[i] = IF i <= Len(kept) THEN kept[i] ELSE result[i - Len(kept)]
    BY <1>7, <1>8, ConcatProperties
  <2>. QED  BY <1>3, <2>1
<1>10. PopTo(stack', base) = kept
  <2>1. base \in 0 .. Len(stack')  BY <1>2, <1>4, <1>7, <1>8, <1>9
  <2>2. /\ PopTo(stack', base) \in Seq(StackValue) /\ Len(PopTo(stack', base)) = base
        /\ \A i \in 1 .. base : PopTo(stack', base)[i] = stack'[i]
    BY <1>9, <2>1, PopToProperties
  <2>3. \A i \in 1 .. base : stack'[i] = kept[i]
    BY <1>2, <1>4, <1>7, <1>8, <1>9, StackFacts
  <2>. QED  BY <1>7, <2>2, <2>3, SeqEqual
<1>. QED  BY <1>4, <1>6, <1>7, <1>8, <1>9, <1>10 DEF kept

(* RET never climbs, whatever the program did to its frame header, and     *)
(* leaves everything below the arguments as it was (interpreter.cpp, RET). *)
THEOREM ReturnsUnwind == Spec => ReturnUnwinds
<1>1. TypeOK /\ [Next]_vars =>
        [Fetching /\ Cur.opcode = "RET" /\ bp > 0 /\ status' = "running" =>
           /\ bp' + Cur.level < bp
           /\ PopTo(stack', bp - Cur.level) = PopTo(stack, bp - Cur.level)
           /\ Len(stack') = bp - Cur.level + Cur.operand]_vars
  BY OneInstruction, ReturnStep
<1>. QED  BY <1>1, TypeCorrect, PTL DEF Spec, ReturnUnwinds

LEMMA StoreStep ==
  ASSUME TypeOK, STO, NEW base \in {bp, FrameBase(Cur)}, NEW k \in 0 .. HeaderSize - 1,
         Within(stack', base + k)
  PROVE  At(stack', base + k) = At(stack, base + k)
<1>. DEFINE a == Address(Cur)
            s == Popped(stack, 1)
<1>1. Fetching /\ ~StoFault(Cur)  BY DEF STO, Step, Succeeds, Fault
<1>2. /\ FrameFound(stack, bp, Cur.level) /\ Cur.operand \notin 0 .. HeaderSize - 1
      /\ 0 <= a /\ a < FrameTop(Cur) /\ Within(stack, a + 1)
  BY <1>1 DEF StoFault, SlotFault
<1>3. a \in Int /\ Cur.operand \in Int /\ Cur.operand \in Int32 /\ Cur.level \in Int
  BY <1>1, <1>2, AddressType, FetchType, RegisterBasics
<1>4. 1 \in 0 .. Len(stack) /\ stack # << >>
  BY <1>2, <1>3, StackFacts, EmptySeq DEF Within
<1>5. /\ s \in Seq(StackValue) /\ Len(s) = Len(stack) - 1
      /\ \A i \in 1 .. Len(stack) - 1 : s[i] = stack[i]
  BY <1>4, StackFacts, PoppedProperties
<1>6. Within(s, a) /\ Top(stack) \in StackValue
  BY <1>2, <1>3, <1>4, <1>5, StackFacts, TopType DEF Within
<1>7. stack' = SetAt(s, a, Top(stack))  BY DEF STO, Leave
<1>. HIDE DEF s, a
<1>8. /\ Len(stack') = Len(s)
      /\ \A j \in Int : Within(s, j) /\ j # a => At(stack', j) = At(s, j)
  BY <1>3, <1>5, <1>6, <1>7, SetAtProperties
<1>9. FrameBase(Cur) \in Register /\ bp \in Register
  <2>1. stack \in Seq(StackValue) /\ Len(stack) <= MaxStackSize /\ bp \in Register
    BY DEF TypeOK
  <2>. QED  BY <1>2, <1>3, <2>1, FrameFoundType DEF FrameBase
<1>10. base \in Nat /\ k \in 0 .. 2 /\ base + k \in Int
  BY <1>9, RegisterBasics DEF HeaderSize
<1>11. base + k < Len(stack) - 1 /\ Within(s, base + k)
  BY <1>5, <1>8, <1>10, StackFacts DEF Within
<1>12. base + k # a
  <2>1. CASE base = FrameBase(Cur)
    <3>1. base \in 0 .. IntMax /\ AsInt(base) = base
      BY <1>10, <1>11, StackFacts, ConstantBounds DEF AsInt
    <3>2. a = WrapInt(base + Cur.operand)  BY <2>1, <3>1 DEF a, Address
    <3>3. CASE base + Cur.operand \in Int32
      <4>1. a = base + Cur.operand  BY <3>2, <3>3, WrapIntSame
      <4>. QED  BY <1>2, <1>3, <1>10, <4>1 DEF HeaderSize
    <3>4. CASE base + Cur.operand \notin Int32
      <4>1. base + Cur.operand > IntMax /\ base + Cur.operand <= 2 * IntMax
        BY <1>3, <1>10, <3>1, <3>4, ConstantBounds DEF Int32, IntMin
      <4>2. a < 0  BY <1>3, <1>10, <3>2, <4>1, WrapIntOver
      <4>. QED  BY <1>2, <1>3, <4>2
    <3>. QED  BY <3>3, <3>4
  <2>2. CASE base # FrameBase(Cur)
    <3>1. base = bp /\ FrameBase(Cur) # bp  BY <2>2
    <3>2. a < bp  BY <1>2, <3>1 DEF FrameTop
    <3>. QED  BY <1>3, <1>10, <3>1, <3>2
  <2>. QED  BY <2>1, <2>2
<1>13. At(stack', base + k) = At(s, base + k)  BY <1>8, <1>10, <1>11, <1>12
<1>14. base + k + 1 \in 1 .. Len(stack) - 1  BY <1>10, <1>11, StackFacts
<1>15. At(s, base + k) = At(stack, base + k)  BY <1>5, <1>14 DEF At
<1>. QED  BY <1>13, <1>15

(* STO never reaches the header of the running frame or of the frame it    *)
(* stores into, also when base plus operand overflows an int               *)
(* (interpreter.cpp, STO).                                                 *)
THEOREM StoresSpare == Spec => StoresSpareHeaders
<1>1. TypeOK /\ [Next]_vars =>
        [Fetching /\ Cur.opcode = "STO" /\ status' = "running" =>
           \A base \in {bp, FrameBase(Cur)}, k \in 0 .. HeaderSize - 1 :
             Within(stack', base + k) => At(stack', base + k) = At(stack, base + k)]_vars
  BY OneInstruction, StoreStep
<1>. QED  BY <1>1, TypeCorrect, PTL DEF Spec, StoresSpareHeaders

=============================================================================
