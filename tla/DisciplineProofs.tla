--------------------------- MODULE DisciplineProofs ---------------------------
(***************************************************************************)
(* Disciplined code keeps the activations of the interpreter in order: on  *)
(* every program, of any size and nesting, and on every input, the frames  *)
(* stay intact, the operands balanced and the accesses on the slots of     *)
(* the activations they are meant for.                                     *)
(*                                                                         *)
(* The inductive invariant describes the whole stack: there is a sequence  *)
(* of frames, one above the other, each with its parameters, its header,   *)
(* its variables and the operands its unit has at the address where it     *)
(* waits, and each with a display, which says which frames its static      *)
(* links lead to.                                                          *)
(***************************************************************************)
EXTENDS Discipline, InterpreterProofs, Induction

-----------------------------------------------------------------------------
(* The frames f of a stack: f.n of them, outermost first; of each its      *)
(* base, its unit, the address it is at (the running one) or of its call,  *)
(* and its display: out[k][j] is the number of the frame j - 1 levels out. *)

Size(l, f, k)   == l.units[f.unit[k]].size
Params(l, f, k) == l.units[f.unit[k]].params
Chain(l, f, k)  == l.units[f.unit[k]].chain
Held(l, f, k)   == l.operands[f.at[k]]

(* The frame has no variables yet.                                         *)
Entering(f, k) == f.at[k] = f.unit[k]

(* The operands that are not arguments of the next frame.                  *)
Kept(l, f, k) ==
  IF k = f.n THEN Len(Held(l, f, k)) ELSE Len(Held(l, f, k)) - Params(l, f, k + 1)

(* Where the slots of a frame begin and end.                               *)
Low(l, f, k) == f.base[k] - Params(l, f, k)
High(l, stk, f, k) == IF k = f.n THEN Len(stk) ELSE Low(l, f, k + 1)

FrameTypes(l, f) ==
  /\ f.n \in Nat \ {0}
  /\ f.base \in [1 .. f.n -> Nat]
  /\ f.unit \in [1 .. f.n -> DOMAIN l.units]
  /\ f.at \in [1 .. f.n -> DOMAIN l.owner]
  /\ f.out \in [1 .. f.n -> Seq(Nat)]
  /\ \A k \in 1 .. f.n : l.owner[f.at[k]] = f.unit[k]

Outermost(f) == f.base[1] = 0 /\ f.unit[1] = 0 /\ f.out[1] = << 1 >>

(* Each frame's display leads through frames of the units around its own,  *)
(* and goes on from each of them as that one's does.                       *)
Displayed(l, f, k) ==
  /\ Len(f.out[k]) = Len(Chain(l, f, k)) /\ f.out[k][1] = k
  /\ \A j \in 1 .. Len(f.out[k]) :
       /\ f.out[k][j] \in 1 .. k
       /\ f.unit[f.out[k][j]] = Chain(l, f, k)[j]
       /\ j > 1 => f.out[k][j] < k
  /\ \A j \in 1 .. Len(f.out[k]) - 1 :
       Len(f.out[f.out[k][j]]) >= 2 /\ f.out[f.out[k][j]][2] = f.out[k][j + 1]

Calls(p, l, f, k) ==
  /\ p.code[f.at[k] + 1].opcode = "CAL"
  /\ p.code[f.at[k] + 1].operand = f.unit[k + 1]
  /\ f.base[k + 1] = f.base[k] + Size(l, f, k) + Len(Held(l, f, k))

(* The header CAL writes; that of the main program is written at the start. *)
Linked(stk, f, k) ==
  /\ stk[f.base[k] + 1] = IntegerValue(IF k = 1 THEN 0 ELSE f.base[f.out[k][2]])
  /\ stk[f.base[k] + 2] = IntegerValue(IF k = 1 THEN 0 ELSE f.base[k - 1])
  /\ stk[f.base[k] + 3] = IntegerValue(IF k = 1 THEN 0 ELSE f.at[k - 1] + 1)

Topmost(l, stk, f) ==
  Len(stk) = f.base[f.n] + (IF Entering(f, f.n) THEN HeaderSize
                            ELSE Size(l, f, f.n) + Len(Held(l, f, f.n)))

(* The value v is as the operand x says, seen from the frame k.            *)
Fits(v, x, f, k) ==
  /\ x.kind # "any" => v.kind = "Integer"
  /\ x.kind = "number" => x.low <= v.num /\ v.num <= x.high
  /\ x.kind = "slot" =>
       /\ x.level + 1 \in 1 .. Len(f.out[k])
       /\ f.base[f.out[k][x.level + 1]] + x.low <= v.num
       /\ v.num <= f.base[f.out[k][x.level + 1]] + x.high

Fitting(l, stk, f, k) ==
  \A j \in 1 .. Kept(l, f, k) :
    Fits(stk[f.base[k] + Size(l, f, k) + j], Held(l, f, k)[j], f, k)

Framed(p, l, stk, f) ==
  /\ FrameTypes(l, f)
  /\ Outermost(f)
  /\ \A k \in 1 .. f.n : Displayed(l, f, k) /\ Linked(stk, f, k) /\ Fitting(l, stk, f, k)
  /\ \A k \in 1 .. f.n - 1 : Calls(p, l, f, k)
  /\ Topmost(l, stk, f)

(* What holds of a program and a layout all along.                         *)
Given(p, l, stk) ==
  /\ p.code \in Seq(Instruction) /\ Len(p.code) <= IntMax
  /\ Disciplined(p, l)
  /\ stk \in Seq(StackValue) /\ Len(stk) <= MaxStackSize

-----------------------------------------------------------------------------
(* The units of a layout, and what an address tells.                       *)

LEMMA Singleton ==
  ASSUME NEW S, NEW e \in S
  PROVE  << e >> \in Seq(S) /\ Len(<< e >>) = 1 /\ << e >>[1] = e
OBVIOUS

LEMMA UnitFacts ==
  ASSUME NEW p, NEW l, Disciplined(p, l), NEW u \in DOMAIN l.units
  PROVE  /\ l.units[u].size \in Nat /\ l.units[u].size >= 3
         /\ l.units[u].params \in Nat /\ l.units[u].result \in {0, 1}
         /\ l.units[u].chain \in Seq(DOMAIN l.units)
         /\ Len(l.units[u].chain) \in Nat /\ Len(l.units[u].chain) >= 1
         /\ l.units[u].chain[1] = u
         /\ u # 0 => Len(l.units[u].chain) >= 2
         /\ u \in Nat /\ u \in DOMAIN l.owner /\ l.owner[u] = u
<1>1. UnitsNest(l) /\ DOMAIN l.owner = 0 .. Len(p.code) - 1
  BY DEF Disciplined
<1>2. l.units[u] \in Unit(l) /\ u \in DOMAIN l.owner /\ l.owner[u] = u
  BY <1>1 DEF UnitsNest
<1>3. /\ l.units[u].size \in Nat /\ l.units[u].size >= 3
      /\ l.units[u].params \in Nat /\ l.units[u].result \in {0, 1}
      /\ l.units[u].chain \in Seq(DOMAIN l.units)
  BY <1>2 DEF Unit, HeaderSize
<1>4. Len(l.units[u].chain) \in Nat
  BY <1>3, LenProperties
<1>5. CASE u = 0
  <2>1. l.units[u].chain = << 0 >>
    BY <1>1, <1>5 DEF UnitsNest
  <2> QED
    BY <1>1, <1>2, <1>3, <1>5, <2>1
<1>6. CASE u # 0
  <2> DEFINE c == l.units[u].chain
             d == l.units[c[2]].chain
  <2>1. Len(c) >= 2 /\ c = << u >> \o d
    BY <1>1, <1>6 DEF UnitsNest
  <2>2. c[2] \in DOMAIN l.units
    BY <1>3, <1>4, <2>1, ElementOfSeq
  <2>3. d \in Seq(DOMAIN l.units)
    BY <1>1, <2>2 DEF UnitsNest, Unit
  <2>4. << u >> \in Seq(DOMAIN l.units) /\ Len(<< u >>) = 1 /\ << u >>[1] = u
    BY Singleton
  <2> HIDE DEF d
  <2>5. (<< u >> \o d)[1] = u
    BY <2>3, <2>4, ConcatProperties, LenProperties
  <2> QED
    BY <1>1, <1>2, <1>3, <1>4, <1>6, <2>1, <2>5
<1> QED
  BY <1>5, <1>6

(* The chain of a subprogram goes on as that of the unit around it.        *)
LEMMA ChainGoesOn ==
  ASSUME NEW p, NEW l, Disciplined(p, l), NEW u \in DOMAIN l.units, u # 0
  PROVE  LET c == l.units[u].chain
             d == l.units[c[2]].chain
         IN  /\ c[2] \in DOMAIN l.units
             /\ Len(d) \in Nat /\ Len(c) = Len(d) + 1
             /\ \A j \in 1 .. Len(d) : c[j + 1] = d[j]
<1> DEFINE c == l.units[u].chain
           d == l.units[c[2]].chain
<1>1. UnitsNest(l)
  BY DEF Disciplined
<1>2. Len(c) >= 2 /\ c = << u >> \o d /\ c \in Seq(DOMAIN l.units)
  BY <1>1, UnitFacts DEF UnitsNest
<1>3. c[2] \in DOMAIN l.units
  BY <1>2, ElementOfSeq, LenProperties
<1>4. d \in Seq(DOMAIN l.units)
  BY <1>3, UnitFacts
<1>5. << u >> \in Seq(DOMAIN l.units) /\ Len(<< u >>) = 1
  BY Singleton
<1> HIDE DEF d
<1>6. /\ Len(<< u >> \o d) = 1 + Len(d) /\ Len(d) \in Nat
      /\ \A i \in 1 .. 1 + Len(d) : (<< u >> \o d)[i] = IF i <= 1 THEN << u >>[i] ELSE d[i - 1]
  BY <1>4, <1>5, ConcatProperties, LenProperties
<1>7. \A j \in 1 .. Len(d) : (<< u >> \o d)[j + 1] = d[j]
  <2> TAKE j \in 1 .. Len(d)
  <2>1. j + 1 \in 1 .. 1 + Len(d) /\ ~ (j + 1 <= 1) /\ (j + 1) - 1 = j
    BY <1>6
  <2> QED
    BY <1>6, <2>1
<1>8. Len(c) = Len(d) + 1 /\ \A j \in 1 .. Len(d) : c[j + 1] = d[j]
  BY <1>2, <1>6, <1>7
<1> QED
  BY <1>3, <1>6, <1>8 DEF d

LEMMA AddressFacts ==
  ASSUME NEW p, NEW l, Disciplined(p, l), p.code \in Seq(Instruction),
         NEW a \in DOMAIN l.owner
  PROVE  /\ a \in Nat /\ a < Len(p.code) /\ Len(p.code) \in Nat
         /\ l.owner[a] \in DOMAIN l.units
         /\ l.operands[a] \in Seq(Operand) /\ Len(l.operands[a]) \in Nat
         /\ Obeys(p, l, a)
         /\ p.code[a + 1] \in Instruction
<1>1. a \in 0 .. Len(p.code) - 1 /\ Len(p.code) \in Nat
  BY LenProperties DEF Disciplined
<1>2. a + 1 \in 1 .. Len(p.code)
  BY <1>1
<1>3. p.code[a + 1] \in Instruction
  BY <1>2, ElementOfSeq
<1>4. l.owner[a] \in DOMAIN l.units /\ l.operands[a] \in Seq(Operand) /\ Obeys(p, l, a)
  BY DEF Disciplined
<1> QED
  BY <1>1, <1>3, <1>4, LenProperties

(* How many operands the instructions take and what they leave.            *)
LEMMA TakesOf ==
  ASSUME NEW i, NEW units
  PROVE  /\ i.opcode \in {"INT", "LIT", "LITB", "LITS", "LITR", "LOD", "ADDR", "JMP", "RET"} =>
              Takes(i, units) = 0
         /\ i.opcode \in {"STO", "LODI", "CHK", "JPC"} => Takes(i, units) = 1
         /\ i.opcode = "STOI" => Takes(i, units) = 2
         /\ i.opcode = "CAL" => Takes(i, units) = units[i.operand].params
         /\ i.opcode = "OPR" /\ OprName(i.operand) \in {"NEG", "WRT", "WRTLN", "POP"} =>
              Takes(i, units) = 1
         /\ i.opcode = "OPR" /\ OprName(i.operand) \in ArithOps \cup CompareOps \cup {"RDI", "RDLN"} =>
              Takes(i, units) = 2
BY DEF Takes, ArithOps, CompareOps

LEMMA YieldsOf ==
  ASSUME NEW i, NEW s, NEW units
  PROVE  /\ i.opcode \in {"INT", "STO", "STOI", "JMP", "JPC", "RET"} => Yields(i, s, units) = << >>
         /\ i.opcode = "LIT" => Yields(i, s, units) = << NumberIn(i.operand, i.operand) >>
         /\ i.opcode = "ADDR" => Yields(i, s, units) = << SlotOf(i.level, i.operand) >>
         /\ i.opcode = "CHK" => Yields(i, s, units) = << NumberIn(i.level, i.operand) >>
         /\ i.opcode \in {"LITB", "LITS", "LITR", "LOD", "LODI"} =>
              Yields(i, s, units) = << Anything >>
         /\ i.opcode = "CAL" =>
              Yields(i, s, units) = IF units[i.operand].result = 1 THEN << Anything >> ELSE << >>
         /\ i.opcode = "OPR" /\ OprName(i.operand) \in ArithOps =>
              Yields(i, s, units) = << Computed(OprName(i.operand), Second(s), Top(s)) >>
         /\ i.opcode = "OPR" /\ OprName(i.operand) \in CompareOps \cup {"NEG"} =>
              Yields(i, s, units) = << Anything >>
         /\ i.opcode = "OPR" /\ OprName(i.operand) \in {"WRT", "WRTLN", "POP", "RDI", "RDLN"} =>
              Yields(i, s, units) = << >>
BY DEF Yields, ArithOps, CompareOps

-----------------------------------------------------------------------------
(* The frames of a stack.                                                  *)

LEMMA FrameFacts ==
  ASSUME NEW p, NEW l, NEW stk, NEW f, Given(p, l, stk), Framed(p, l, stk, f),
         NEW k \in 1 .. f.n
  PROVE  /\ f.n \in Nat /\ f.n >= 1 /\ Len(stk) \in Nat
         /\ f.base[k] \in Nat /\ f.unit[k] \in DOMAIN l.units
         /\ f.at[k] \in DOMAIN l.owner /\ l.owner[f.at[k]] = f.unit[k]
         /\ Size(l, f, k) \in Nat /\ Size(l, f, k) >= 3 /\ Params(l, f, k) \in Nat
         /\ f.out[k] \in Seq(Nat)
         /\ Len(f.out[k]) \in Nat /\ Len(f.out[k]) = Len(Chain(l, f, k))
         /\ Len(f.out[k]) >= 1 /\ f.out[k][1] = k
         /\ Held(l, f, k) \in Seq(Operand) /\ Len(Held(l, f, k)) \in Nat
         /\ Obeys(p, l, f.at[k])
         /\ p.code[f.at[k] + 1] \in Instruction
         /\ Entering(f, k) <=> p.code[f.at[k] + 1].opcode = "INT"
         /\ Entering(f, k) => Held(l, f, k) = << >>
<1>1. /\ f.n \in Nat /\ f.n >= 1 /\ f.base[k] \in Nat /\ f.unit[k] \in DOMAIN l.units
      /\ f.at[k] \in DOMAIN l.owner /\ l.owner[f.at[k]] = f.unit[k]
      /\ f.out[k] \in Seq(Nat)
  BY DEF Framed, FrameTypes
<1>2. /\ Disciplined(p, l) /\ p.code \in Seq(Instruction) /\ Len(stk) \in Nat
  BY LenProperties DEF Given
<1>3. /\ Size(l, f, k) \in Nat /\ Size(l, f, k) >= 3 /\ Params(l, f, k) \in Nat
      /\ Len(Chain(l, f, k)) \in Nat /\ Len(Chain(l, f, k)) >= 1
  BY <1>1, <1>2, UnitFacts DEF Size, Params, Chain
<1>4. Len(f.out[k]) = Len(Chain(l, f, k)) /\ f.out[k][1] = k
  BY DEF Framed, Displayed
<1>5. /\ Held(l, f, k) \in Seq(Operand) /\ Len(Held(l, f, k)) \in Nat
      /\ Obeys(p, l, f.at[k])
      /\ p.code[f.at[k] + 1] \in Instruction
  BY <1>1, <1>2, AddressFacts DEF Held
<1>6. /\ Entering(f, k) <=> p.code[f.at[k] + 1].opcode = "INT"
      /\ p.code[f.at[k] + 1].opcode = "INT" => Held(l, f, k) = << >>
  BY <1>1, <1>5 DEF Obeys, Entering, Held
<1> QED
  BY <1>1, <1>2, <1>3, <1>4, <1>5, <1>6

(* A frame that has called another.                                        *)
LEMMA CallerFacts ==
  ASSUME NEW p, NEW l, NEW stk, NEW f, Given(p, l, stk), Framed(p, l, stk, f),
         NEW k \in 1 .. f.n - 1
  PROVE  /\ k \in 1 .. f.n /\ k + 1 \in 1 .. f.n /\ k # f.n
         /\ ~ Entering(f, k)
         /\ p.code[f.at[k] + 1].opcode = "CAL"
         /\ f.unit[k + 1] # 0
         /\ p.code[f.at[k] + 1].operand = f.unit[k + 1]
         /\ Len(Held(l, f, k)) >= Params(l, f, k + 1)
         /\ Kept(l, f, k) = Len(Held(l, f, k)) - Params(l, f, k + 1)
         /\ Low(l, f, k + 1) = f.base[k] + Size(l, f, k) + Kept(l, f, k)
         /\ High(l, stk, f, k) = Low(l, f, k + 1)
<1> DEFINE i == p.code[f.at[k] + 1]
<1>1. f.n \in Nat
  BY DEF Framed, FrameTypes
<1>2. k \in 1 .. f.n /\ k + 1 \in 1 .. f.n /\ k # f.n
  BY <1>1
<1>3. /\ i.opcode = "CAL" /\ i.operand = f.unit[k + 1]
      /\ f.base[k + 1] = f.base[k] + Size(l, f, k) + Len(Held(l, f, k))
  BY DEF Framed, Calls
<1>4. Obeys(p, l, f.at[k]) /\ (Entering(f, k) <=> i.opcode = "INT")
      /\ Len(Held(l, f, k)) \in Nat /\ f.base[k] \in Nat /\ Size(l, f, k) \in Nat
  BY <1>2, FrameFacts
<1>5. i.operand \in DOMAIN l.units \ {0} /\ Len(Held(l, f, k)) >= Takes(i, l.units)
  BY <1>3, <1>4 DEF Obeys, Held
<1>6. Takes(i, l.units) = Params(l, f, k + 1)
  BY <1>3, TakesOf DEF Params
<1>7. Params(l, f, k + 1) \in Nat
  BY <1>2, FrameFacts
<1>8. Kept(l, f, k) = Len(Held(l, f, k)) - Params(l, f, k + 1)
      /\ High(l, stk, f, k) = Low(l, f, k + 1)
  BY <1>2 DEF Kept, High
<1>9. Low(l, f, k + 1) = f.base[k] + Size(l, f, k) + Kept(l, f, k)
  BY <1>3, <1>4, <1>7, <1>8 DEF Low
<1> QED
  BY <1>2, <1>3, <1>4, <1>5, <1>6, <1>8, <1>9

LEMMA CalledUnit ==
  ASSUME NEW p, NEW l, NEW stk, NEW f, Given(p, l, stk), Framed(p, l, stk, f),
         NEW k \in 1 .. f.n, k # 1
  PROVE  f.unit[k] # 0
<1> DEFINE j == k - 1
<1>1. f.n \in Nat
  BY DEF Framed, FrameTypes
<1>2. j \in 1 .. f.n - 1 /\ j + 1 = k
  BY <1>1
<1> HIDE DEF j
<1>3. p.code[f.at[j] + 1].opcode = "CAL" /\ p.code[f.at[j] + 1].operand = f.unit[j + 1]
  BY <1>2 DEF Framed, Calls
<1>4. j \in 1 .. f.n
  BY <1>1, <1>2
<1>5. Obeys(p, l, f.at[j])
  BY <1>4, FrameFacts
<1>6. p.code[f.at[j] + 1].operand # 0
  BY <1>3, <1>5 DEF Obeys
<1> QED
  BY <1>2, <1>3, <1>6

(* A frame reaches from its parameters to its last operand.                *)
LEMMA FrameRegion ==
  ASSUME NEW p, NEW l, NEW stk, NEW f, Given(p, l, stk), Framed(p, l, stk, f),
         NEW k \in 1 .. f.n
  PROVE  /\ Low(l, f, k) \in Int /\ High(l, stk, f, k) \in Int /\ Kept(l, f, k) \in Nat
         /\ Low(l, f, k) = f.base[k] - Params(l, f, k)
         /\ f.base[k] + 3 <= High(l, stk, f, k)
         /\ Kept(l, f, k) <= Len(Held(l, f, k))
         /\ Entering(f, k) => k = f.n /\ Kept(l, f, k) = 0 /\ High(l, stk, f, k) = f.base[k] + 3
         /\ ~ Entering(f, k) => High(l, stk, f, k) = f.base[k] + Size(l, f, k) + Kept(l, f, k)
<1>1. /\ f.n \in Nat /\ f.base[k] \in Nat /\ Size(l, f, k) \in Nat /\ Size(l, f, k) >= 3
      /\ Params(l, f, k) \in Nat /\ Len(Held(l, f, k)) \in Nat /\ Len(stk) \in Nat
  BY FrameFacts
<1>2. CASE k = f.n
  <2>1. /\ Kept(l, f, k) = Len(Held(l, f, k)) /\ High(l, stk, f, k) = Len(stk)
        /\ Len(stk) = f.base[k] + (IF Entering(f, k) THEN 3
                                   ELSE Size(l, f, k) + Len(Held(l, f, k)))
    BY <1>2 DEF Kept, High, Framed, Topmost, HeaderSize
  <2>2. Entering(f, k) => Len(Held(l, f, k)) = 0
    BY FrameFacts, EmptySeq
  <2> QED
    BY <1>1, <1>2, <2>1, <2>2 DEF Low
<1>3. CASE k # f.n
  <2>1. k \in 1 .. f.n - 1
    BY <1>1, <1>3
  <2>2. Params(l, f, k + 1) \in Nat
    BY <2>1, CallerFacts, FrameFacts
  <2>3. /\ ~ Entering(f, k) /\ Len(Held(l, f, k)) >= Params(l, f, k + 1)
        /\ Kept(l, f, k) = Len(Held(l, f, k)) - Params(l, f, k + 1)
        /\ High(l, stk, f, k) = f.base[k] + Size(l, f, k) + Kept(l, f, k)
    BY <2>1, CallerFacts
  <2>4. Low(l, f, k) = f.base[k] - Params(l, f, k)
    BY DEF Low
  <2>5. Kept(l, f, k) \in Nat /\ Kept(l, f, k) <= Len(Held(l, f, k))
    BY ONLY <1>1, <2>2, <2>3
  <2>6. /\ Low(l, f, k) \in Int /\ High(l, stk, f, k) \in Int
        /\ f.base[k] + 3 <= High(l, stk, f, k)
    BY ONLY <1>1, <2>3, <2>4, <2>5, SMTT(30)
  <2> QED
    BY ONLY <2>3, <2>4, <2>5, <2>6
<1> QED
  BY <1>2, <1>3

(* The frames lie one above the other.                                     *)
LEMMA FramesApart ==
  ASSUME NEW p, NEW l, NEW stk, NEW f, Given(p, l, stk), Framed(p, l, stk, f),
         NEW k \in 1 .. f.n, NEW j \in 1 .. f.n, j < k
  PROVE  High(l, stk, f, j) <= Low(l, f, k) /\ f.base[j] < f.base[k]
<1> DEFINE S == {d \in Nat : j + d + 1 <= f.n =>
                   High(l, stk, f, j) <= Low(l, f, j + d + 1) /\ f.base[j] < f.base[j + d + 1]}
<1>1. f.n \in Nat
  BY FrameFacts
<1>2. 0 \in S
  <2> SUFFICES ASSUME j + 1 <= f.n
               PROVE  High(l, stk, f, j) <= Low(l, f, j + 1) /\ f.base[j] < f.base[j + 1]
    OBVIOUS
  <2>1. j \in 1 .. f.n - 1
    BY <1>1
  <2>2. High(l, stk, f, j) = Low(l, f, j + 1) /\ j + 1 \in 1 .. f.n
    BY <2>1, CallerFacts
  <2>3. f.base[j] + 3 <= High(l, stk, f, j) /\ f.base[j] \in Nat
    BY FrameRegion, FrameFacts
  <2>4. Low(l, f, j + 1) = f.base[j + 1] - Params(l, f, j + 1) /\ Params(l, f, j + 1) \in Nat
        /\ f.base[j + 1] \in Nat /\ Low(l, f, j + 1) \in Int
    BY <2>2, FrameRegion, FrameFacts
  <2> QED
    BY <2>2, <2>3, <2>4
<1>3. ASSUME NEW d \in Nat, d \in S
      PROVE  d + 1 \in S
  <2> SUFFICES ASSUME j + (d + 1) + 1 <= f.n
               PROVE  /\ High(l, stk, f, j) <= Low(l, f, j + (d + 1) + 1)
                      /\ f.base[j] < f.base[j + (d + 1) + 1]
    OBVIOUS
  <2> DEFINE m == j + d + 1
  <2>1. m \in 1 .. f.n /\ m \in 1 .. f.n - 1 /\ m <= f.n /\ m + 1 = j + (d + 1) + 1
    BY <1>1
  <2>2. High(l, stk, f, j) <= Low(l, f, m) /\ f.base[j] < f.base[m]
    BY <1>3, <2>1
  <2> HIDE DEF m
  <2>3. High(l, stk, f, m) = Low(l, f, m + 1) /\ m + 1 \in 1 .. f.n
    BY <2>1, CallerFacts
  <2>4. f.base[m] + 3 <= High(l, stk, f, m) /\ f.base[m] \in Nat
        /\ Low(l, f, m) = f.base[m] - Params(l, f, m) /\ Params(l, f, m) \in Nat
    BY <2>1, FrameRegion, FrameFacts
  <2>5. Low(l, f, m + 1) = f.base[m + 1] - Params(l, f, m + 1) /\ Params(l, f, m + 1) \in Nat
        /\ f.base[m + 1] \in Nat
    BY <2>3, FrameRegion, FrameFacts
  <2>6. High(l, stk, f, j) \in Int /\ f.base[j] \in Nat
    BY FrameRegion, FrameFacts
  <2>7. High(l, stk, f, j) <= Low(l, f, m + 1) /\ f.base[j] < f.base[m + 1]
    BY <2>2, <2>3, <2>4, <2>5, <2>6
  <2> QED
    BY <2>1, <2>7
<1>4. Nat \subseteq S
  <2> HIDE DEF S
  <2> QED
    BY <1>2, <1>3, NaturalsIn
<1>5. k - j - 1 \in Nat /\ j + (k - j - 1) + 1 = k
  BY <1>1
<1>6. k - j - 1 \in S
  BY <1>4, <1>5
<1>7. j + (k - j - 1) + 1 <= f.n =>
        High(l, stk, f, j) <= Low(l, f, j + (k - j - 1) + 1)
        /\ f.base[j] < f.base[j + (k - j - 1) + 1]
  BY <1>6
<1> QED
  BY <1>1, <1>5, <1>7

(* All frames lie on the stack.                                            *)
LEMMA FrameOnStack ==
  ASSUME NEW p, NEW l, NEW stk, NEW f, Given(p, l, stk), Framed(p, l, stk, f),
         NEW k \in 1 .. f.n
  PROVE  /\ 0 <= Low(l, f, k) /\ High(l, stk, f, k) <= Len(stk)
         /\ f.base[k] + 3 <= Len(stk)
         /\ (k = 1 <=> f.base[k] = 0)
<1>1. f.n \in Nat /\ 1 \in 1 .. f.n /\ f.n \in 1 .. f.n
  BY FrameFacts
<1>2. Low(l, f, 1) = 0 /\ f.base[1] = 0
  <2>1. f.base[1] = 0 /\ f.unit[1] = 0
    BY DEF Framed, Outermost
  <2>2. l.units[0].params = 0
    BY DEF Given, Disciplined, UnitsNest
  <2> QED
    BY <2>1, <2>2 DEF Low, Params
<1>3. High(l, stk, f, f.n) = Len(stk)
  BY DEF High
<1>4. /\ f.base[k] \in Nat /\ f.base[k] + 3 <= High(l, stk, f, k) /\ Len(stk) \in Nat
      /\ Low(l, f, k) \in Int /\ High(l, stk, f, k) \in Int
      /\ Low(l, f, k) = f.base[k] - Params(l, f, k) /\ Params(l, f, k) \in Nat
  BY FrameRegion, FrameFacts
<1>5. /\ f.base[1] + 3 <= High(l, stk, f, 1) /\ High(l, stk, f, 1) \in Int
      /\ Low(l, f, f.n) \in Int /\ f.base[f.n] \in Nat /\ f.base[f.n] + 3 <= Len(stk)
      /\ Low(l, f, f.n) = f.base[f.n] - Params(l, f, f.n) /\ Params(l, f, f.n) \in Nat
  BY <1>1, <1>3, FrameRegion, FrameFacts, SMTT(30)
<1>6. k # 1 => High(l, stk, f, 1) <= Low(l, f, k) /\ f.base[1] < f.base[k]
  <2> HAVE k # 1
  <2>1. 1 < k
    BY <1>1
  <2> QED
    BY <1>1, <2>1, FramesApart
<1>7. k # f.n => High(l, stk, f, k) <= Low(l, f, f.n)
  <2> HAVE k # f.n
  <2>1. k < f.n
    BY <1>1
  <2> QED
    BY <1>1, <2>1, FramesApart
<1>8. 0 <= Low(l, f, k) /\ (k = 1 <=> f.base[k] = 0)
  <2>1. CASE k = 1
    BY <1>2, <2>1
  <2>2. CASE k # 1
    BY ONLY <1>2, <1>4, <1>5, <1>6, <2>2
  <2> QED
    BY <2>1, <2>2
<1>9. High(l, stk, f, k) <= Len(stk)
  <2>1. CASE k = f.n
    BY <1>3, <1>4, <2>1
  <2>2. CASE k # f.n
    BY ONLY <1>4, <1>5, <1>7, <2>2
  <2> QED
    BY <2>1, <2>2
<1> QED
  BY ONLY <1>4, <1>8, <1>9

LEMMA SlotBounds ==
  ASSUME NEW b \in Nat, NEW z \in Nat, NEW m \in Nat, NEW h \in Nat, NEW top \in Nat, NEW s,
         z >= 3, 0 <= b - m, b + z + h <= top, s \in -m .. -1 \/ s \in 3 .. z - 1
  PROVE  /\ s \in Int /\ s \notin 0 .. 2 /\ b + s \in Nat /\ b + s < top /\ b + s + 1 <= b + z
         /\ b - m <= b + s /\ b + s < b + z + h
OBVIOUS

(* A slot of a frame that has its variables lies on the stack, and neither *)
(* in a header nor among the operands some frame keeps.                    *)
LEMMA SlotPlace ==
  ASSUME NEW p, NEW l, NEW stk, NEW f, Given(p, l, stk), Framed(p, l, stk, f),
         NEW q \in 1 .. f.n, ~ Entering(f, q), NEW s \in SlotsOf(l.units[f.unit[q]])
  PROVE  /\ s \in Int /\ f.base[q] + s \in Nat /\ f.base[q] + s < Len(stk)
         /\ s \notin 0 .. 2
         /\ f.base[q] + s + 1 <= f.base[q] + Size(l, f, q)
         /\ \A k \in 1 .. f.n :
              /\ \A j \in 1 .. 3 : f.base[q] + s # f.base[k] + j - 1
              /\ \A j \in 1 .. Kept(l, f, k) :
                   f.base[q] + s # f.base[k] + Size(l, f, k) + j - 1
              /\ q < k => f.base[q] + s < f.base[k]
<1> DEFINE b == f.base[q]
           z == Size(l, f, q)
           m == Params(l, f, q)
           h == Kept(l, f, q)
           a == b + s
<1>1. f.n \in Nat /\ b \in Nat /\ z \in Nat /\ z >= 3 /\ m \in Nat /\ Len(stk) \in Nat
  BY FrameFacts
<1>2. s \in -m .. -1 \/ s \in 3 .. z - 1
  BY DEF SlotsOf, Params, Size, HeaderSize
<1>3. /\ High(l, stk, f, q) = b + z + h /\ Low(l, f, q) = b - m
      /\ h \in Nat /\ 0 <= b - m /\ b + z + h <= Len(stk)
  <2>1. /\ High(l, stk, f, q) = b + z + h /\ Low(l, f, q) = b - m
        /\ h \in Nat /\ 0 <= Low(l, f, q) /\ High(l, stk, f, q) <= Len(stk)
    BY FrameRegion, FrameOnStack
  <2> QED
    BY <2>1
<1>4. /\ s \in Int /\ s \notin 0 .. 2 /\ a \in Nat /\ a < Len(stk) /\ a + 1 <= b + z
      /\ b - m <= a /\ a < b + z + h
  <2> HIDE DEF b, z, m, h
  <2> QED
    BY <1>1, <1>2, <1>3, SlotBounds
<1>5. ASSUME NEW k \in 1 .. f.n
      PROVE  /\ \A j \in 1 .. 3 : a # f.base[k] + j - 1
             /\ \A j \in 1 .. Kept(l, f, k) : a # f.base[k] + Size(l, f, k) + j - 1
             /\ q < k => a < f.base[k]
  <2> DEFINE c == f.base[k]
             y == Size(l, f, k)
             d == Params(l, f, k)
             e == Kept(l, f, k)
  <2>1. c \in Nat /\ y \in Nat /\ d \in Nat /\ y >= 3 /\ k \in Int /\ q \in Int
    BY FrameFacts
  <2>2. /\ Low(l, f, k) = c - d /\ c + 3 <= High(l, stk, f, k)
        /\ e \in Nat /\ High(l, stk, f, k) \in Int
        /\ e > 0 => High(l, stk, f, k) = c + y + e
    <3>1. Entering(f, k) => Kept(l, f, k) = 0
      BY FrameRegion
    <3> QED
      BY <3>1, FrameRegion
  <2>3. CASE k = q
    <3>1. c = b /\ y = z
      BY <2>3
    <3> HIDE DEF b, z, c, y, e
    <3>2. /\ \A j \in 1 .. 3 : a # c + j - 1
          /\ \A j \in 1 .. e : a # c + y + j - 1
      BY <1>1, <1>4, <2>1, <2>2, <3>1
    <3> QED
      BY <2>1, <2>3, <3>2 DEF c, y, e
  <2>4. CASE k < q
    <3>1. High(l, stk, f, k) <= b - m
      BY <2>4, <1>3, FramesApart
    <3>2. ~ (q < k)
      BY <2>1, <2>4
    <3> DEFINE top == High(l, stk, f, k)
    <3>3. top \in Int /\ c + 3 <= top /\ (e > 0 => top = c + y + e) /\ top <= b - m
      BY <2>2, <3>1
    <3> HIDE DEF b, z, m, c, y, e, top
    <3>4. a \in Int /\ top <= a
      BY <1>1, <1>4, <3>3
    <3>5. /\ \A j \in 1 .. 3 : a # c + j - 1
          /\ \A j \in 1 .. e : a # c + y + j - 1
      <4> HIDE DEF a
      <4> QED
        BY <2>1, <2>2, <3>3, <3>4
    <3> QED
      BY <3>2, <3>5 DEF c, y, e
  <2>5. CASE q < k
    <3>1. b + z + h <= c - d
      BY <2>5, <1>3, <2>2, FramesApart
    <3> HIDE DEF b, z, h, c, y, d, e
    <3>2. a < c /\ a \in Int
      BY <1>1, <1>3, <1>4, <2>1, <3>1
    <3>3. /\ \A j \in 1 .. 3 : a # c + j - 1
          /\ \A j \in 1 .. e : a # c + y + j - 1
      <4> HIDE DEF a
      <4> QED
        BY <2>1, <2>2, <3>2
    <3> QED
      BY <3>2, <3>3 DEF c, y, e
  <2> QED
    BY <2>1, <2>3, <2>4, <2>5
<1> QED
  BY <1>4, <1>5

(* A display leads to frames below, of the units around.                   *)
LEMMA DisplayFacts ==
  ASSUME NEW p, NEW l, NEW stk, NEW f, Given(p, l, stk), Framed(p, l, stk, f),
         NEW k \in 1 .. f.n, NEW j \in 1 .. Len(f.out[k])
  PROVE  /\ f.out[k][j] \in 1 .. f.n /\ f.out[k][j] \in 1 .. k
         /\ f.unit[f.out[k][j]] = Chain(l, f, k)[j]
         /\ j > 1 => f.out[k][j] < k
         /\ j < Len(f.out[k]) =>
              /\ Len(f.out[f.out[k][j]]) >= 2 /\ f.out[f.out[k][j]][2] = f.out[k][j + 1]
         /\ ~ Entering(f, k) => ~ Entering(f, f.out[k][j])
<1>1. f.n \in Nat /\ Len(f.out[k]) \in Nat
  BY FrameFacts
<1>2. /\ f.out[k][j] \in 1 .. k
      /\ f.unit[f.out[k][j]] = Chain(l, f, k)[j]
      /\ j > 1 => f.out[k][j] < k
  BY DEF Framed, Displayed
<1>3. f.out[k][j] \in 1 .. f.n
  BY <1>1, <1>2
<1>4. ASSUME j < Len(f.out[k])
      PROVE  Len(f.out[f.out[k][j]]) >= 2 /\ f.out[f.out[k][j]][2] = f.out[k][j + 1]
  <2>1. j \in 1 .. Len(f.out[k]) - 1
    BY <1>1, <1>4
  <2> QED
    BY <2>1 DEF Framed, Displayed
<1>5. ASSUME ~ Entering(f, k), Entering(f, f.out[k][j]) PROVE FALSE
  <2>1. f.out[k][j] = f.n
    BY <1>3, <1>5, FrameRegion
  <2>2. k = f.n
    BY <1>1, <1>2, <2>1
  <2> QED
    BY <1>5, <2>1, <2>2
<1> QED
  BY <1>2, <1>3, <1>4, <1>5

-----------------------------------------------------------------------------
(* The walk along the static links follows the display.                    *)

WalkRuns(stk, base, levels, g) ==
  g = [k \in 0 .. levels |->
         IF k = 0 THEN base
         ELSE IF g[k - 1] = NoFrame THEN NoFrame
         ELSE StaticLink(stk, g[k - 1])]

LEMMA WalkDef ==
  ASSUME NEW stk, NEW base \in Nat, NEW levels \in Nat
  PROVE  \E g : WalkRuns(stk, base, levels, g) /\ WalkStaticChain(stk, base, levels) = g[levels]
<1> DEFINE X == Nat \cup {NoFrame}
           step == [n \in 1 .. levels |->
                      [x \in X |-> IF x = NoFrame THEN NoFrame ELSE StaticLink(stk, x)]]
           g == CHOOSE h : WalkRuns(stk, base, levels, h)
<1>1. ASSUME NEW x \in X, x # NoFrame PROVE StaticLink(stk, x) \in X
  <2>1. 0 .. x - 1 \subseteq Nat
    BY <1>1
  <2> QED
    BY <2>1 DEF StaticLink
<1>2. step \in [1 .. levels -> [X -> X]] /\ base \in X
  BY <1>1
<1>3. \A n \in 1 .. levels, x \in X :
        step[n][x] = IF x = NoFrame THEN NoFrame ELSE StaticLink(stk, x)
  OBVIOUS
<1>4. \E h : WalkRuns(stk, base, levels, h)
  <2> HIDE DEF step, X
  <2>1. PICK h \in [0 .. levels -> X] : Unfolds(h, levels, base, step)
    BY <1>2, UnfoldingExists DEF CanUnfold
  <2>2. h = [n \in 0 .. levels |-> IF n = 0 THEN base ELSE step[n][h[n - 1]]]
    BY <2>1 DEF Unfolds
  <2>3. ASSUME NEW n \in 0 .. levels, n # 0
        PROVE  step[n][h[n - 1]] = IF h[n - 1] = NoFrame THEN NoFrame ELSE StaticLink(stk, h[n - 1])
    <3>1. n \in 1 .. levels /\ n - 1 \in 0 .. levels
      BY <2>3
    <3>2. h[n - 1] \in X
      BY <2>1, <3>1
    <3> QED
      BY <1>3, <3>1, <3>2
  <2>4. WalkRuns(stk, base, levels, h)
    BY <2>2, <2>3 DEF WalkRuns
  <2> QED
    BY <2>4
<1>5. WalkRuns(stk, base, levels, g)
  BY <1>4
<1>6. WalkStaticChain(stk, base, levels) = g[levels]
  BY DEF WalkStaticChain, WalkRuns
<1> HIDE DEF g
<1> QED
  BY <1>5, <1>6

(* The static link of a frame leads to the next frame of its display.      *)
LinkOut(stk, f, k, j) ==
  StaticLink(stk, f.base[f.out[k][j]]) = f.base[f.out[k][j + 1]]

LEMMA LinkLeadsOut ==
  ASSUME NEW p, NEW l, NEW stk, NEW f, Given(p, l, stk), Framed(p, l, stk, f),
         NEW k \in 1 .. f.n, NEW j \in 1 .. Len(f.out[k]), j < Len(f.out[k])
  PROVE  LinkOut(stk, f, k, j)
<1> DEFINE q == f.out[k][j]
           b == f.base[q]
           c == f.base[f.out[k][j + 1]]
<1>1. Len(f.out[k]) \in Nat /\ j \in 1 .. Len(f.out[k]) /\ j + 1 \in 1 .. Len(f.out[k])
  BY FrameFacts
<1>2. /\ q \in 1 .. f.n /\ Len(f.out[q]) >= 2 /\ f.out[q][2] = f.out[k][j + 1]
  <2>1. j \in 1 .. Len(f.out[k]) - 1
    BY <1>1
  <2>2. Len(f.out[q]) >= 2 /\ f.out[q][2] = f.out[k][j + 1]
    BY <2>1 DEF Framed, Displayed
  <2>3. f.out[k][j] \in 1 .. f.n
    BY <1>1, DisplayFacts
  <2> QED
    BY <2>2, <2>3
<1>3. q # 1
  <2>1. f.out[1] = << 1 >>
    BY DEF Framed, Outermost
  <2> QED
    BY <1>2, <2>1
<1>4. Len(f.out[q]) \in Nat /\ 2 \in 1 .. Len(f.out[q])
  BY <1>2, FrameFacts
<1>5. f.out[q][2] \in 1 .. f.n /\ f.out[q][2] < q
  BY <1>2, <1>4, DisplayFacts
<1>6. stk[b + 1] = IntegerValue(c)
  BY <1>2, <1>3 DEF Framed, Linked
<1>7. b \in Nat /\ b + 3 <= Len(stk) /\ Len(stk) \in Nat
  BY <1>2, FrameFacts, FrameOnStack
<1>8. c \in Nat /\ c < b
  BY <1>2, <1>5, FrameFacts, FramesApart
<1> HIDE DEF b, c
<1>9. Within(stk, b) /\ At(stk, b) = IntegerValue(c)
  BY <1>6, <1>7 DEF Within, At
<1>10. IsInteger(At(stk, b)) /\ At(stk, b).num = c
  BY <1>9 DEF IsInteger, IntegerValue
<1>11. StaticLink(stk, b) = c
  BY <1>7, <1>8, <1>9, <1>10 DEF StaticLink
<1> QED
  BY <1>11 DEF b, c, LinkOut

LeadsOut(stk, f, k, level) ==
  WalkStaticChain(stk, f.base[k], level) = f.base[f.out[k][level + 1]]

LEMMA WalkLeadsOut ==
  ASSUME NEW p, NEW l, NEW stk, NEW f, Given(p, l, stk), Framed(p, l, stk, f),
         NEW k \in 1 .. f.n, NEW level \in 0 .. Len(f.out[k]) - 1
  PROVE  LeadsOut(stk, f, k, level)
<1>0. ASSUME NEW j \in 1 .. Len(f.out[k]), j < Len(f.out[k])
      PROVE  LinkOut(stk, f, k, j)
  BY <1>0, LinkLeadsOut
<1>1. Len(f.out[k]) \in Nat /\ f.base[k] \in Nat /\ f.out[k][1] = k /\ level \in Nat
  BY FrameFacts
<1>2. PICK g : WalkRuns(stk, f.base[k], level, g)
               /\ WalkStaticChain(stk, f.base[k], level) = g[level]
  BY <1>1, WalkDef
<1>3. \A i \in 0 .. level :
        g[i] = IF i = 0 THEN f.base[k]
               ELSE IF g[i - 1] = NoFrame THEN NoFrame ELSE StaticLink(stk, g[i - 1])
  BY <1>2 DEF WalkRuns
<1> DEFINE T == {i \in 0 .. level : g[i] = f.base[f.out[k][i + 1]]}
<1>4. 0 \in T
  BY <1>1, <1>3
<1>5. ASSUME NEW i \in 0 .. level - 1, i \in T
      PROVE  i + 1 \in T
  <2>1. i + 1 \in 0 .. level /\ (i + 1) - 1 = i /\ i + 1 # 0 /\ i + 1 < Len(f.out[k])
        /\ i + 1 \in 1 .. Len(f.out[k])
    BY <1>1
  <2>2. g[i] = f.base[f.out[k][i + 1]]
    BY <1>5
  <2>3. f.out[k][i + 1] \in 1 .. f.n
    BY <2>1, DisplayFacts
  <2>4. g[i] \in Nat
    BY <2>2, <2>3 DEF Framed, FrameTypes
  <2>5. g[i + 1] = StaticLink(stk, g[i])
    <3>1. g[i] # NoFrame
      BY <2>4 DEF NoFrame
    <3> QED
      BY <1>3, <2>1, <3>1
  <2>6. StaticLink(stk, f.base[f.out[k][i + 1]]) = f.base[f.out[k][(i + 1) + 1]]
    BY <1>0, <2>1 DEF LinkOut
  <2> QED
    BY <2>1, <2>2, <2>5, <2>6
<1>6. level \in T
  <2>1. \A i \in 0 .. level - 1 : i \in T => i + 1 \in T
    BY <1>5
  <2> HIDE DEF T
  <2>2. \A i \in 0 .. level : i \in T
    BY <1>1, <1>4, <2>1, NumbersUpTo
  <2> QED
    BY <1>1, <2>2
<1> QED
  BY <1>2, <1>6 DEF LeadsOut

-----------------------------------------------------------------------------
(* What a step leaves as it was.                                           *)

(* Up to top the new stack differs in slots of frames only.                *)
InSlot(l, f, a) ==
  \E q \in 1 .. f.n : ~ Entering(f, q) /\ \E s \in SlotsOf(l.units[f.unit[q]]) : a = f.base[q] + s

Spares(l, f, stk, stk2, top) ==
  \A i \in 1 .. top : stk2[i] = stk[i] \/ InSlot(l, f, i - 1)

(* The first m frames are the same; the last of them may be elsewhere.     *)
Shares(f, g, m) ==
  \A k \in 1 .. m :
    /\ g.base[k] = f.base[k] /\ g.unit[k] = f.unit[k] /\ g.out[k] = f.out[k]
    /\ k < m => g.at[k] = f.at[k]

(* The stack stands in frames of which the last has the base b and is at   *)
(* the address a.                                                          *)
Standing(p, l, stk, b, a) ==
  \E f : Framed(p, l, stk, f) /\ f.base[f.n] = b /\ f.at[f.n] = a

LEMMA SlotSpared ==
  ASSUME NEW p, NEW l, NEW stk, NEW f, Given(p, l, stk), Framed(p, l, stk, f),
         NEW k \in 1 .. f.n
  PROVE  /\ \A j \in 1 .. 3 : ~ InSlot(l, f, f.base[k] + j - 1)
         /\ \A j \in 1 .. Kept(l, f, k) : ~ InSlot(l, f, f.base[k] + Size(l, f, k) + j - 1)
<1>1. ASSUME NEW q \in 1 .. f.n, ~ Entering(f, q), NEW s \in SlotsOf(l.units[f.unit[q]])
      PROVE  /\ \A j \in 1 .. 3 : f.base[q] + s # f.base[k] + j - 1
             /\ \A j \in 1 .. Kept(l, f, k) : f.base[q] + s # f.base[k] + Size(l, f, k) + j - 1
  BY <1>1, SlotPlace
<1> QED
  BY <1>1 DEF InSlot

LEMMA Spared ==
  ASSUME NEW p, NEW l, NEW stk, NEW f, Given(p, l, stk), Framed(p, l, stk, f),
         NEW k \in 1 .. f.n, NEW stk2, NEW top \in Nat, Spares(l, f, stk, stk2, top)
  PROVE  /\ f.base[k] + 3 <= top => \A j \in 1 .. 3 : stk2[f.base[k] + j] = stk[f.base[k] + j]
         /\ \A j \in 1 .. Kept(l, f, k) :
              f.base[k] + Size(l, f, k) + j <= top =>
                stk2[f.base[k] + Size(l, f, k) + j] = stk[f.base[k] + Size(l, f, k) + j]
<1> DEFINE b == f.base[k]
           e == f.base[k] + Size(l, f, k)
<1>1. b \in Nat /\ e \in Nat /\ Kept(l, f, k) \in Nat
  BY FrameFacts, FrameRegion, SMTT(30)
<1>2. /\ \A j \in 1 .. 3 : ~ InSlot(l, f, b + j - 1)
      /\ \A j \in 1 .. Kept(l, f, k) : ~ InSlot(l, f, e + j - 1)
  BY SlotSpared
<1> HIDE DEF b, e
<1>3. ASSUME b + 3 <= top, NEW j \in 1 .. 3 PROVE stk2[b + j] = stk[b + j]
  <2>1. b + j \in 1 .. top /\ (b + j) - 1 = b + j - 1
    BY <1>1, <1>3
  <2> QED
    BY <1>2, <2>1 DEF Spares
<1>4. ASSUME NEW j \in 1 .. Kept(l, f, k), e + j <= top PROVE stk2[e + j] = stk[e + j]
  <2>1. e + j \in 1 .. top /\ (e + j) - 1 = e + j - 1
    BY <1>1, <1>4
  <2> QED
    BY <1>2, <2>1 DEF Spares
<1> QED
  BY <1>3, <1>4 DEF b, e

LEMMA FitsShared ==
  ASSUME NEW p, NEW l, NEW stk, NEW f, Given(p, l, stk), Framed(p, l, stk, f),
         NEW m \in 1 .. f.n, NEW g, Shares(f, g, m), NEW k \in 1 .. m,
         NEW v, NEW x, Fits(v, x, f, k)
  PROVE  Fits(v, x, g, k)
<1>1. f.n \in Nat /\ k \in 1 .. f.n
  BY FrameFacts
<1>2. g.out[k] = f.out[k] /\ \A i \in 1 .. k : g.base[i] = f.base[i]
  BY <1>1 DEF Shares
<1>3. \A i \in 1 .. Len(f.out[k]) : f.out[k][i] \in 1 .. k
  BY <1>1, DisplayFacts
<1>4. x.level + 1 \in 1 .. Len(f.out[k]) =>
        g.base[g.out[k][x.level + 1]] = f.base[f.out[k][x.level + 1]]
  BY <1>2, <1>3
<1> QED
  BY <1>2, <1>4 DEF Fits

LEMMA SharedFrames ==
  ASSUME NEW p, NEW l, NEW stk, NEW f, Given(p, l, stk), Framed(p, l, stk, f),
         NEW m \in 1 .. f.n, NEW g, g.n \in Nat, m <= g.n, Shares(f, g, m),
         NEW stk2, NEW top \in Nat, Spares(l, f, stk, stk2, top), f.base[m] + 3 <= top,
         NEW k \in 1 .. m
  PROVE  /\ Displayed(l, g, k) /\ Linked(stk2, g, k)
         /\ k < m => Fitting(l, stk2, g, k) /\ Calls(p, l, g, k)
<1>1. f.n \in Nat /\ k \in 1 .. f.n
  BY FrameFacts
<1>2. \A i \in 1 .. m : /\ g.base[i] = f.base[i] /\ g.unit[i] = f.unit[i] /\ g.out[i] = f.out[i]
                        /\ i < m => g.at[i] = f.at[i]
  BY DEF Shares
<1>3. Displayed(l, g, k)
  <2>1. \A j \in 1 .. Len(f.out[k]) :
          /\ f.out[k][j] \in 1 .. k /\ f.out[k][j] \in 1 .. m
          /\ f.unit[f.out[k][j]] = Chain(l, f, k)[j]
          /\ j > 1 => f.out[k][j] < k
    <3>1. ASSUME NEW j \in 1 .. Len(f.out[k])
          PROVE  /\ f.out[k][j] \in 1 .. k /\ f.unit[f.out[k][j]] = Chain(l, f, k)[j]
                 /\ j > 1 => f.out[k][j] < k
      BY <1>1 DEF Framed, Displayed
    <3>2. 1 .. k \subseteq 1 .. m
      BY <1>1
    <3> QED
      BY <3>1, <3>2
  <2>2. \A j \in 1 .. Len(f.out[k]) - 1 :
          /\ f.out[k][j] \in 1 .. m
          /\ Len(f.out[f.out[k][j]]) >= 2 /\ f.out[f.out[k][j]][2] = f.out[k][j + 1]
    <3> TAKE j \in 1 .. Len(f.out[k]) - 1
    <3>1. Len(f.out[k]) \in Nat
      BY <1>1, FrameFacts
    <3>2. j \in 1 .. Len(f.out[k])
      BY <3>1
    <3> QED
      BY <1>1, <2>1, <3>2 DEF Framed, Displayed
  <2>3. /\ g.out[k] = f.out[k] /\ Chain(l, g, k) = Chain(l, f, k)
        /\ Len(f.out[k]) = Len(Chain(l, f, k)) /\ f.out[k][1] = k
    <3>1. Displayed(l, f, k)
      BY <1>1 DEF Framed
    <3> QED
      BY <1>2, <3>1 DEF Displayed, Chain
  <2>4. \A j \in 1 .. Len(g.out[k]) :
          /\ g.out[k][j] \in 1 .. k /\ g.unit[g.out[k][j]] = Chain(l, g, k)[j]
          /\ j > 1 => g.out[k][j] < k
    BY <1>2, <2>1, <2>3
  <2>5. \A j \in 1 .. Len(g.out[k]) - 1 :
          Len(g.out[g.out[k][j]]) >= 2 /\ g.out[g.out[k][j]][2] = g.out[k][j + 1]
    BY <1>2, <2>2, <2>3
  <2> QED
    BY <2>3, <2>4, <2>5 DEF Displayed
<1>4. f.base[k] <= f.base[m] /\ f.base[k] \in Nat /\ f.base[m] \in Nat
      /\ (k < m => High(l, stk, f, k) <= f.base[m])
  <2>1. f.base[k] \in Nat /\ High(l, stk, f, k) \in Int
    BY <1>1, FrameFacts, FrameRegion
  <2>0. f.base[m] \in Nat /\ Params(l, f, m) \in Nat
    BY FrameFacts
  <2>4. Low(l, f, m) = f.base[m] - Params(l, f, m)
    BY DEF Low
  <2>2. k < m => f.base[k] < f.base[m] /\ High(l, stk, f, k) <= Low(l, f, m)
    BY <1>1, FramesApart
  <2>3. k = m \/ k < m
    BY <1>1
  <2> QED
    BY <2>0, <2>1, <2>2, <2>3, <2>4
<1>5. Linked(stk2, g, k)
  <2>1. f.base[k] + 3 <= top
    BY <1>4
  <2>2. \A j \in 1 .. 3 : stk2[f.base[k] + j] = stk[f.base[k] + j]
    BY <1>1, <2>1, Spared
  <2>3. /\ stk2[f.base[k] + 1] = stk[f.base[k] + 1]
        /\ stk2[f.base[k] + 2] = stk[f.base[k] + 2]
        /\ stk2[f.base[k] + 3] = stk[f.base[k] + 3]
    BY <2>2
  <2>4. Linked(stk, f, k)
    BY <1>1 DEF Framed
  <2>5. CASE k = 1
    BY <1>2, <2>3, <2>4, <2>5 DEF Linked
  <2>6. CASE k # 1
    <3>1. Len(f.out[k]) >= 2 /\ Len(f.out[k]) \in Nat
      <4>2. f.unit[k] # 0
        BY <1>1, <2>6, CalledUnit
      <4>3. f.unit[k] \in DOMAIN l.units /\ Len(f.out[k]) = Len(Chain(l, f, k))
        BY <1>1 DEF Framed, FrameTypes, Displayed
      <4>5. Len(f.out[k]) \in Nat
        BY <1>1, FrameFacts
      <4>4. Len(l.units[f.unit[k]].chain) >= 2
        BY <4>2, <4>3, UnitFacts DEF Given
      <4> QED
        BY <4>3, <4>4, <4>5 DEF Chain
    <3>2. f.out[k][2] \in 1 .. m
      <4>1. 2 \in 1 .. Len(f.out[k])
        BY <3>1
      <4>2. f.out[k][2] \in 1 .. k
        BY <1>1, <4>1, DisplayFacts
      <4> QED
        BY <1>1, <4>2
    <3>3. k - 1 \in 1 .. m /\ k - 1 < m
      BY <1>1, <2>6
    <3>4. /\ g.base[k] = f.base[k] /\ g.out[k] = f.out[k] /\ g.base[f.out[k][2]] = f.base[f.out[k][2]]
          /\ g.base[k - 1] = f.base[k - 1] /\ g.at[k - 1] = f.at[k - 1]
      BY <1>2, <3>2, <3>3
    <3> QED
      BY <2>3, <2>4, <2>6, <3>4 DEF Linked
  <2> QED
    BY <2>5, <2>6
<1>6. ASSUME k < m
      PROVE  Fitting(l, stk2, g, k) /\ Calls(p, l, g, k)
  <2>1. k \in 1 .. f.n - 1 /\ k # f.n /\ k # g.n /\ k + 1 \in 1 .. m
    BY <1>1, <1>6
  <2>2. /\ Held(l, g, k) = Held(l, f, k) /\ Size(l, g, k) = Size(l, f, k)
        /\ Params(l, g, k + 1) = Params(l, f, k + 1)
        /\ g.base[k] = f.base[k] /\ g.base[k + 1] = f.base[k + 1]
        /\ g.at[k] = f.at[k] /\ g.unit[k + 1] = f.unit[k + 1]
    BY <1>2, <1>6, <2>1 DEF Held, Size, Params
  <2>3. Kept(l, g, k) = Kept(l, f, k)
    BY <2>1, <2>2 DEF Kept
  <2>4. Calls(p, l, g, k)
    BY <2>1, <2>2 DEF Framed, Calls
  <2>5. ASSUME NEW j \in 1 .. Kept(l, g, k)
        PROVE  Fits(stk2[g.base[k] + Size(l, g, k) + j], Held(l, g, k)[j], g, k)
    <3>1. /\ High(l, stk, f, k) = f.base[k] + Size(l, f, k) + Kept(l, f, k)
          /\ Kept(l, f, k) \in Nat /\ Size(l, f, k) \in Nat
      BY <1>1, <2>1, CallerFacts, FrameRegion, FrameFacts
    <3>2. f.base[k] + Size(l, f, k) + j <= top
      BY <1>4, <1>6, <2>3, <2>5, <3>1
    <3>3. stk2[f.base[k] + Size(l, f, k) + j] = stk[f.base[k] + Size(l, f, k) + j]
      BY <1>1, <2>3, <2>5, <3>2, Spared
    <3>4. Fits(stk[f.base[k] + Size(l, f, k) + j], Held(l, f, k)[j], f, k)
      BY <1>1, <2>3, <2>5 DEF Framed, Fitting
    <3>5. Fits(stk[f.base[k] + Size(l, f, k) + j], Held(l, f, k)[j], g, k)
      BY <3>4, FitsShared
    <3> QED
      BY <2>2, <3>3, <3>5
  <2> QED
    BY <2>4, <2>5 DEF Fitting
<1> QED
  BY <1>3, <1>5, <1>6

(* The first m frames stand, with the last of them gone on to b.           *)
LEMMA GoneOn ==
  ASSUME NEW p, NEW l, NEW stk, NEW f, Given(p, l, stk), Framed(p, l, stk, f),
         NEW m \in 1 .. f.n, NEW b \in DOMAIN l.owner, l.owner[b] = f.unit[m], b # f.unit[m],
         NEW stk2, NEW top \in Nat, Spares(l, f, stk, stk2, top), f.base[m] + 3 <= top,
         Len(stk2) = f.base[m] + Size(l, f, m) + Len(l.operands[b]),
         \A j \in 1 .. Len(l.operands[b]) :
           Fits(stk2[f.base[m] + Size(l, f, m) + j], l.operands[b][j], f, m)
  PROVE  Standing(p, l, stk2, f.base[m], b)
<1> DEFINE g == [n    |-> m,
                 base |-> [k \in 1 .. m |-> f.base[k]],
                 unit |-> [k \in 1 .. m |-> f.unit[k]],
                 at   |-> [k \in 1 .. m |-> IF k = m THEN b ELSE f.at[k]],
                 out  |-> [k \in 1 .. m |-> f.out[k]]]
<1>1. f.n \in Nat /\ m \in Nat /\ m >= 1 /\ \A k \in 1 .. m : k \in 1 .. f.n
  BY FrameFacts
<1>2. /\ g.n = m
      /\ \A k \in 1 .. m : /\ g.base[k] = f.base[k] /\ g.unit[k] = f.unit[k] /\ g.out[k] = f.out[k]
                           /\ g.at[k] = IF k = m THEN b ELSE f.at[k]
  OBVIOUS
<1>3. FrameTypes(l, g)
  <2>1. \A k \in 1 .. m : /\ f.base[k] \in Nat /\ f.unit[k] \in DOMAIN l.units
                          /\ f.at[k] \in DOMAIN l.owner /\ f.out[k] \in Seq(Nat)
                          /\ l.owner[f.at[k]] = f.unit[k]
    BY <1>1 DEF Framed, FrameTypes
  <2>2. /\ g.base \in [1 .. g.n -> Nat] /\ g.unit \in [1 .. g.n -> DOMAIN l.units]
        /\ g.at \in [1 .. g.n -> DOMAIN l.owner] /\ g.out \in [1 .. g.n -> Seq(Nat)]
    BY <2>1
  <2> HIDE DEF g
  <2>3. \A k \in 1 .. g.n : l.owner[g.at[k]] = g.unit[k]
    BY <1>2, <2>1
  <2> QED
    BY <1>1, <1>2, <2>2, <2>3 DEF FrameTypes
<1> HIDE DEF g
<1>4. Shares(f, g, m)
  <2>1. \A k \in 1 .. m : k < m => k # m
    BY <1>1
  <2> QED
    BY <1>2, <2>1 DEF Shares
<1>5. Outermost(g)
  <2>1. 1 \in 1 .. m
    BY <1>1
  <2> QED
    BY <1>2, <2>1 DEF Framed, Outermost
<1>6. ASSUME NEW k \in 1 .. m
      PROVE  /\ Displayed(l, g, k) /\ Linked(stk2, g, k)
             /\ k < m => Fitting(l, stk2, g, k) /\ Calls(p, l, g, k)
  <2>1. g.n \in Nat /\ m <= g.n
    BY <1>1, <1>2
  <2> QED
    BY <1>4, <2>1, SharedFrames
<1>7. /\ Held(l, g, m) = l.operands[b] /\ Size(l, g, m) = Size(l, f, m)
      /\ g.base[m] = f.base[m] /\ ~ Entering(g, m) /\ Kept(l, g, m) = Len(l.operands[b])
  <2>1. m \in 1 .. m
    BY <1>1
  <2>2. g.at[m] = b /\ g.base[m] = f.base[m] /\ g.unit[m] = f.unit[m]
    BY <1>2, <2>1
  <2> QED
    BY <1>2, <2>2 DEF Held, Size, Entering, Kept
<1>8. Fitting(l, stk2, g, m)
  <2>1. m \in 1 .. m
    BY <1>1
  <2>2. ASSUME NEW j \in 1 .. Len(l.operands[b])
        PROVE  Fits(stk2[f.base[m] + Size(l, f, m) + j], l.operands[b][j], g, m)
    BY <1>4, <2>1, FitsShared
  <2> QED
    BY <1>7, <2>2 DEF Fitting
<1>9. Topmost(l, stk2, g)
  <2>1. g.n = m
    BY <1>2
  <2>2. Len(stk2) = g.base[g.n] + Size(l, g, g.n) + Len(Held(l, g, g.n)) /\ ~ Entering(g, g.n)
    BY <1>7, <2>1
  <2>3. /\ g.base[g.n] \in Nat /\ Size(l, g, g.n) \in Nat /\ Len(Held(l, g, g.n)) \in Nat
    <3>1. f.base[m] \in Nat /\ Size(l, f, m) \in Nat
      BY FrameFacts
    <3>2. Len(l.operands[b]) \in Nat
      BY AddressFacts DEF Given
    <3> QED
      BY <1>7, <2>1, <3>1, <3>2
  <2> QED
    BY <2>2, <2>3 DEF Topmost
<1>10. \A k \in 1 .. g.n : Displayed(l, g, k) /\ Linked(stk2, g, k) /\ Fitting(l, stk2, g, k)
  <2> TAKE k \in 1 .. g.n
  <2>1. k \in 1 .. m /\ (k < m \/ k = m)
    BY <1>1, <1>2
  <2> QED
    BY <1>6, <1>8, <2>1
<1>11. \A k \in 1 .. g.n - 1 : Calls(p, l, g, k)
  <2> TAKE k \in 1 .. g.n - 1
  <2>1. k \in 1 .. m /\ k < m
    BY <1>1, <1>2
  <2> QED
    BY <1>6, <2>1
<1>12. Framed(p, l, stk2, g)
  BY <1>3, <1>5, <1>9, <1>10, <1>11 DEF Framed
<1>13. g.base[g.n] = f.base[m] /\ g.at[g.n] = b
  <2>1. m \in 1 .. m
    BY <1>1
  <2> QED
    BY <1>2, <2>1
<1> QED
  BY <1>12, <1>13 DEF Standing

LEMMA OneBehind ==
  ASSUME NEW k \in Nat, NEW n \in Nat, n = 0 \/ n = 1, NEW s, s = k + n, NEW j \in 1 .. s,
         ~ (j <= k)
  PROVE  n = 1 /\ j = k + 1 /\ j \in 1 .. k + n
OBVIOUS

LEMMA PlaceWithin ==
  ASSUME NEW b \in Nat, NEW z \in Nat, NEW h \in Nat, NEW s, s = b + z + h, NEW j \in 1 .. h
  PROVE  b + z + j \in 1 .. s
OBVIOUS

(* The running frame goes on to b with t operands taken and, at most, one  *)
(* value left.                                                             *)
LEMMA StepOn ==
  ASSUME NEW p, NEW l, NEW stk, NEW f, Given(p, l, stk), Framed(p, l, stk, f),
         ~ Entering(f, f.n),
         NEW b \in DOMAIN l.owner, l.owner[b] = f.unit[f.n], b # f.unit[f.n],
         NEW t \in 0 .. Len(Held(l, f, f.n)), NEW y \in Seq(Operand), Len(y) = 0 \/ Len(y) = 1,
         l.operands[b] = Popped(Held(l, f, f.n), t) \o y,
         NEW stk2, Len(stk2) = Len(stk) - t + Len(y),
         Spares(l, f, stk, stk2, Len(stk) - t),
         Len(y) = 1 => Fits(stk2[Len(stk2)], y[1], f, f.n)
  PROVE  Standing(p, l, stk2, f.base[f.n], b)
<1> DEFINE m == f.n
           h == Held(l, f, m)
           e == f.base[m] + Size(l, f, m)
           k == Len(h) - t
<1>1. /\ m \in 1 .. f.n /\ f.base[m] \in Nat /\ Size(l, f, m) \in Nat /\ Size(l, f, m) >= 3
      /\ h \in Seq(Operand) /\ Len(h) \in Nat /\ Len(stk) \in Nat /\ m \in Nat
  <2>1. m \in 1 .. f.n
    BY SMTT(30) DEF Framed, FrameTypes
  <2> QED
    BY <2>1, FrameFacts
<1>2. Len(stk) = e + Len(h)
  BY <1>1 DEF Framed, Topmost
<1>3. Len(y) \in Nat /\ (Len(y) = 0 \/ Len(y) = 1)
  OBVIOUS
<1>4. /\ Popped(h, t) \in Seq(Operand) /\ Len(Popped(h, t)) = k
      /\ \A i \in 1 .. k : Popped(h, t)[i] = h[i]
  BY <1>1, PoppedProperties
<1>5. /\ Len(l.operands[b]) = k + Len(y)
      /\ \A i \in 1 .. k + Len(y) : l.operands[b][i] = IF i <= k THEN h[i] ELSE y[i - k]
  <2> DEFINE r == Popped(h, t)
  <2>1. r \in Seq(Operand) /\ Len(r) = k /\ (\A i \in 1 .. k : r[i] = h[i])
        /\ l.operands[b] = r \o y
    BY <1>4
  <2> HIDE DEF r, h, k
  <2>2. /\ Len(r \o y) = Len(r) + Len(y)
        /\ \A i \in 1 .. Len(r) + Len(y) : (r \o y)[i] = IF i <= Len(r) THEN r[i] ELSE y[i - Len(r)]
    BY <2>1, ConcatProperties
  <2>3. k \in Nat
    BY <2>1, LenProperties
  <2>4. ASSUME NEW i \in 1 .. k + Len(y) PROVE (r \o y)[i] = IF i <= k THEN h[i] ELSE y[i - k]
    <3>1. i <= k => i \in 1 .. k
      BY <1>3, <2>3
    <3> QED
      BY <2>1, <2>2, <3>1
  <2> QED
    BY <2>1, <2>2, <2>4
<1>6. k \in Nat /\ e \in Nat /\ Len(stk) - t = e + k /\ e + k \in Nat /\ f.base[m] + 3 <= e + k
  <2>1. t \in 0 .. Len(h)
    OBVIOUS
  <2>2. e \in Nat /\ f.base[m] + 3 <= e
    BY <1>1, SMTT(30)
  <2> HIDE DEF h, e
  <2> QED
    BY <1>1, <1>2, <2>1, <2>2, SMTT(30)
<1>0. Spares(l, f, stk, stk2, e + k)
  BY <1>6
<1>11. \A j \in 1 .. Kept(l, f, m) : e + j <= e + k => stk2[e + j] = stk[e + j]
  <2> DEFINE top == e + k
  <2>1. top \in Nat /\ Spares(l, f, stk, stk2, top)
    BY <1>0, <1>6
  <2> HIDE DEF top
  <2>2. \A j \in 1 .. Kept(l, f, m) : e + j <= top => stk2[e + j] = stk[e + j]
    BY <1>1, <2>1, Spared, SMTT(30)
  <2> QED
    BY <2>2 DEF top
<1>7. Len(stk2) = e + Len(l.operands[b]) /\ Len(stk2) = e + k + Len(y)
  BY <1>2, <1>3, <1>5, <1>6
<1>8. ASSUME NEW j \in 1 .. Len(l.operands[b])
      PROVE  Fits(stk2[e + j], l.operands[b][j], f, m)
  <2>1. CASE j <= k
    <3>1. j \in 1 .. k /\ j \in 1 .. k + Len(y)
      BY <1>3, <1>5, <1>6, <2>1
    <3>2. Kept(l, f, m) = Len(h) /\ j \in 1 .. Len(h)
      BY <1>1, <3>1 DEF Kept
    <3>3. Fits(stk[e + j], h[j], f, m)
      BY <1>1, <3>2 DEF Framed, Fitting
    <3>4. e + j <= e + k
      BY <1>6, <3>1
    <3>5. stk2[e + j] = stk[e + j]
      BY <1>11, <3>2, <3>4
    <3>6. l.operands[b][j] = h[j]
      BY <1>5, <2>1, <3>1
    <3> QED
      BY <3>3, <3>5, <3>6
  <2>2. CASE ~ (j <= k)
    <3> HIDE DEF k, e, h, m
    <3>1. Len(y) = 1 /\ j = k + 1 /\ j \in 1 .. k + Len(y)
      <4>1. Len(l.operands[b]) = k + Len(y) /\ k \in Nat
        BY <1>5, <1>6
      <4>2. j \in 1 .. Len(l.operands[b])
        OBVIOUS
      <4> QED
        BY <1>3, <2>2, <4>1, <4>2, OneBehind
    <3>2. e + j = Len(stk2) /\ l.operands[b][j] = y[1]
      <4>1. j - k = 1 /\ e + j = e + k + Len(y)
        BY <1>6, <3>1
      <4> QED
        BY <1>5, <1>7, <2>2, <3>1, <4>1
    <3> QED
      BY <3>1, <3>2 DEF m
  <2> QED
    BY <2>1, <2>2
<1>9. \A j \in 1 .. Len(l.operands[b]) :
        Fits(stk2[f.base[m] + Size(l, f, m) + j], l.operands[b][j], f, m)
  BY <1>8
<1>10. Len(stk2) = f.base[m] + Size(l, f, m) + Len(l.operands[b])
  BY <1>7
<1> HIDE DEF e, k, h
<1> QED
  BY <1>0, <1>1, <1>6, <1>9, <1>10, GoneOn

(* The instruction the running frame is at, and the header its call puts   *)
(* on the stack.                                                           *)
Waiting(p, f) == p.code[f.at[f.n] + 1]

Called(stk, f, i, stk2) ==
  /\ Len(stk2) = Len(stk) + 3 /\ \A j \in 1 .. Len(stk) : stk2[j] = stk[j]
  /\ stk2[Len(stk) + 1] = IntegerValue(f.base[f.out[f.n][i.level + 1]])
  /\ stk2[Len(stk) + 2] = IntegerValue(f.base[f.n])
  /\ stk2[Len(stk) + 3] = IntegerValue(f.at[f.n] + 1)

(* CAL: the frame of the called unit on top of the running one.  Its       *)
(* static link is the frame the call's level leads to, and its display     *)
(* goes on as that frame's does.                                           *)
LEMMA CalledOn ==
  ASSUME NEW p, NEW l, NEW stk, NEW f, Given(p, l, stk), Framed(p, l, stk, f),
         NEW i, i = Waiting(p, f), i.opcode = "CAL", NEW stk2, Called(stk, f, i, stk2)
  PROVE  Standing(p, l, stk2, Len(stk), i.operand)
<1> DEFINE m == f.n
           u == i.operand
           q == f.out[m][i.level + 1]
           w == << m + 1 >> \o f.out[q]
           h == Held(l, f, m)
           c == l.units[u].chain
           g == [n    |-> m + 1,
                 base |-> [k \in 1 .. m + 1 |-> IF k = m + 1 THEN Len(stk) ELSE f.base[k]],
                 unit |-> [k \in 1 .. m + 1 |-> IF k = m + 1 THEN u ELSE f.unit[k]],
                 at   |-> [k \in 1 .. m + 1 |-> IF k = m + 1 THEN u ELSE f.at[k]],
                 out  |-> [k \in 1 .. m + 1 |-> IF k = m + 1 THEN w ELSE f.out[k]]]
<1>1. /\ m \in 1 .. f.n /\ m \in Nat /\ m >= 1 /\ m + 1 # 1 /\ m + 1 \in 1 .. m + 1
      /\ \A k \in 1 .. m : k \in 1 .. f.n /\ k \in 1 .. m + 1 /\ k # m + 1
  <2>1. m \in Nat \ {0}
    BY DEF Framed, FrameTypes
  <2> QED
    BY <2>1
<1>2. /\ f.base[m] \in Nat /\ Size(l, f, m) \in Nat /\ Size(l, f, m) >= 3 /\ Len(h) \in Nat
      /\ Len(stk) \in Nat /\ Obeys(p, l, f.at[m]) /\ ~ Entering(f, m)
      /\ f.at[m] \in DOMAIN l.owner /\ l.owner[f.at[m]] = f.unit[m] /\ f.unit[m] \in DOMAIN l.units
      /\ Len(f.out[m]) = Len(Chain(l, f, m)) /\ Len(f.out[m]) \in Nat
  <2>1. m \in 1 .. f.n
    BY <1>1
  <2> HIDE DEF m
  <2>2. /\ f.base[m] \in Nat /\ Size(l, f, m) \in Nat /\ Size(l, f, m) >= 3 /\ Len(h) \in Nat
        /\ Len(stk) \in Nat /\ Obeys(p, l, f.at[m])
        /\ Entering(f, m) <=> p.code[f.at[m] + 1].opcode = "INT"
    BY <2>1, FrameFacts
  <2>3. /\ f.at[m] \in DOMAIN l.owner /\ l.owner[f.at[m]] = f.unit[m]
        /\ f.unit[m] \in DOMAIN l.units
        /\ Len(f.out[m]) = Len(Chain(l, f, m)) /\ Len(f.out[m]) \in Nat
    BY <2>1, LenProperties DEF Framed, FrameTypes, Displayed
  <2> QED
    BY <2>2, <2>3 DEF Waiting, m
<1>3. /\ u \in DOMAIN l.units /\ u # 0 /\ i.level \in 0 .. Len(f.out[m]) - 1
      /\ c[2] = Chain(l, f, m)[i.level + 1] /\ Len(h) >= l.units[u].params
  <2>1. /\ u \in DOMAIN l.units \ {0} /\ i.level \in Levels(UnitAt(l, f.at[m]))
        /\ c[2] = UnitAt(l, f.at[m]).chain[i.level + 1] /\ Len(h) >= Takes(i, l.units)
    BY <1>2 DEF Obeys, Held, Waiting
  <2>2. Takes(i, l.units) = l.units[u].params
    BY TakesOf
  <2>3. UnitAt(l, f.at[m]).chain = Chain(l, f, m)
    BY <1>2 DEF UnitAt, Chain
  <2> QED
    BY <1>2, <2>1, <2>2, <2>3 DEF Levels
<1>4. i.level + 1 \in 1 .. Len(f.out[m])
  <2>1. i.level \in 0 .. Len(f.out[m]) - 1 /\ Len(f.out[m]) \in Nat
    BY <1>2, <1>3
  <2> QED
    BY ONLY <2>1
<1>5. q \in 1 .. m /\ f.unit[q] = c[2]
  <2>1. f.out[m][i.level + 1] \in 1 .. m /\ f.unit[f.out[m][i.level + 1]] = Chain(l, f, m)[i.level + 1]
    BY <1>1, <1>4 DEF Framed, Displayed
  <2> QED
    BY <1>3, <2>1
<1>6. /\ c[2] \in DOMAIN l.units /\ Len(l.units[c[2]].chain) \in Nat
      /\ Len(c) = Len(l.units[c[2]].chain) + 1
      /\ \A j \in 1 .. Len(l.units[c[2]].chain) : c[j + 1] = l.units[c[2]].chain[j]
      /\ c[1] = u
  <2>1. u \in DOMAIN l.units /\ u # 0 /\ Disciplined(p, l)
    BY <1>3 DEF Given
  <2> HIDE DEF u
  <2>2. c[1] = u
    BY <2>1, UnitFacts
  <2> QED
    BY <2>1, <2>2, ChainGoesOn
<1> HIDE DEF q, c, u, m
<1>7. /\ Len(f.out[q]) \in Nat /\ Len(f.out[q]) = Len(Chain(l, f, q)) /\ f.out[q][1] = q
      /\ Len(f.out[q]) >= 1 /\ f.out[q] \in Seq(Nat)
  <2>1. q \in 1 .. f.n
    BY <1>1, <1>5
  <2> QED
    BY <2>1, FrameFacts
<1>8. /\ Len(c) = Len(f.out[q]) + 1
      /\ \A j \in 1 .. Len(f.out[q]) : c[j + 1] = Chain(l, f, q)[j]
  BY <1>5, <1>6, <1>7 DEF Chain
<1>9. /\ w \in Seq(Nat) /\ Len(w) = Len(f.out[q]) + 1 /\ w[1] = m + 1
      /\ \A j \in 1 .. Len(f.out[q]) : w[j + 1] = f.out[q][j]
  <2> DEFINE o == f.out[q]
  <2>1. << m + 1 >> \in Seq(Nat) /\ Len(<< m + 1 >>) = 1 /\ << m + 1 >>[1] = m + 1
    BY <1>1, Singleton
  <2>2. o \in Seq(Nat) /\ Len(o) \in Nat
    BY <1>7
  <2> HIDE DEF o
  <2>3. /\ << m + 1 >> \o o \in Seq(Nat)
        /\ Len(<< m + 1 >> \o o) = 1 + Len(o)
        /\ \A j \in 1 .. 1 + Len(o) :
             (<< m + 1 >> \o o)[j] = IF j <= 1 THEN << m + 1 >>[j] ELSE o[j - 1]
    BY <2>1, <2>2, ConcatProperties
  <2>4. \A j \in 1 .. Len(o) : (<< m + 1 >> \o o)[j + 1] = o[j]
    <3> TAKE j \in 1 .. Len(o)
    <3>1. j + 1 \in 1 .. 1 + Len(o) /\ ~ (j + 1 <= 1) /\ (j + 1) - 1 = j
      BY <2>2
    <3> QED
      BY <2>3, <3>1
  <2>5. (<< m + 1 >> \o o)[1] = m + 1 /\ Len(<< m + 1 >> \o o) = Len(o) + 1
    <3>1. 1 \in 1 .. 1 + Len(o) /\ 1 <= 1
      BY <2>2
    <3> QED
      BY <2>1, <2>2, <2>3, <3>1
  <2> QED
    BY <2>3, <2>4, <2>5 DEF o
<1> HIDE DEF w
<1>10. /\ g.n = m + 1
       /\ g.base[m + 1] = Len(stk) /\ g.unit[m + 1] = u /\ g.at[m + 1] = u /\ g.out[m + 1] = w
       /\ \A k \in 1 .. m : /\ g.base[k] = f.base[k] /\ g.unit[k] = f.unit[k]
                            /\ g.at[k] = f.at[k] /\ g.out[k] = f.out[k]
  BY <1>1
<1>11. u \in DOMAIN l.owner /\ l.owner[u] = u /\ l.units[u].params \in Nat
  BY <1>3, UnitFacts DEF Given
<1>12. FrameTypes(l, g)
  <2>1. \A k \in 1 .. m : /\ f.base[k] \in Nat /\ f.unit[k] \in DOMAIN l.units
                          /\ f.at[k] \in DOMAIN l.owner /\ f.out[k] \in Seq(Nat)
                          /\ l.owner[f.at[k]] = f.unit[k]
    BY <1>1 DEF Framed, FrameTypes
  <2>2. \A k \in 1 .. m + 1 : k = m + 1 \/ k \in 1 .. m
    BY <1>1
  <2>3. /\ g.base \in [1 .. g.n -> Nat] /\ g.unit \in [1 .. g.n -> DOMAIN l.units]
        /\ g.at \in [1 .. g.n -> DOMAIN l.owner] /\ g.out \in [1 .. g.n -> Seq(Nat)]
    BY <1>2, <1>3, <1>9, <1>11, <2>1, <2>2
  <2> HIDE DEF g
  <2>4. \A k \in 1 .. g.n : l.owner[g.at[k]] = g.unit[k]
    BY <1>10, <1>11, <2>1, <2>2
  <2> QED
    BY <1>1, <1>10, <2>3, <2>4 DEF FrameTypes
<1> HIDE DEF g
<1>13. Shares(f, g, m)
  BY <1>10 DEF Shares
<1>14. Spares(l, f, stk, stk2, Len(stk))
  BY DEF Spares, Called
<1>15. Len(stk) = f.base[m] + Size(l, f, m) + Len(h) /\ f.base[m] + 3 <= Len(stk)
  <2>1. Len(stk) = f.base[m] + (Size(l, f, m) + Len(h))
    BY <1>2 DEF Framed, Topmost, m
  <2> HIDE DEF h
  <2> QED
    BY <1>2, <2>1
<1>16. ASSUME NEW k \in 1 .. m
       PROVE  /\ Displayed(l, g, k) /\ Linked(stk2, g, k)
              /\ k < m => Fitting(l, stk2, g, k) /\ Calls(p, l, g, k)
  <2>1. g.n \in Nat /\ m <= g.n
    BY <1>1, <1>10
  <2> QED
    BY <1>1, <1>2, <1>13, <1>14, <1>15, <2>1, SharedFrames
<1>17. Calls(p, l, g, m)
  <2>1. m \in 1 .. m
    BY <1>1
  <2>2. /\ g.at[m] = f.at[m] /\ g.base[m] = f.base[m] /\ g.unit[m] = f.unit[m]
        /\ g.unit[m + 1] = u /\ g.base[m + 1] = Len(stk)
    BY <1>10, <2>1
  <2> QED
    BY <1>15, <2>2 DEF Calls, Size, Held, Waiting, u, m
<1>18. Fitting(l, stk2, g, m)
  <2>1. m \in 1 .. m
    BY <1>1
  <2>2. /\ Held(l, g, m) = h /\ Size(l, g, m) = Size(l, f, m) /\ g.base[m] = f.base[m]
        /\ Params(l, g, m + 1) = l.units[u].params
    BY <1>10, <2>1 DEF Held, Size, Params
  <2>3. Kept(l, g, m) = Len(h) - l.units[u].params
    BY <1>1, <1>10, <2>2 DEF Kept
  <2>4. Kept(l, f, m) = Len(h)
    BY DEF Kept, m
  <2>5. ASSUME NEW j \in 1 .. Kept(l, g, m)
        PROVE  Fits(stk2[g.base[m] + Size(l, g, m) + j], Held(l, g, m)[j], g, m)
    <3>1. j \in 1 .. Len(h)
      <4>1. Len(h) \in Nat /\ l.units[u].params \in Nat /\ Kept(l, g, m) = Len(h) - l.units[u].params
        BY <1>2, <1>11, <2>3
      <4>2. j \in 1 .. Kept(l, g, m)
        BY <2>5
      <4> QED
        BY ONLY <4>1, <4>2
    <3>2. Fits(stk[f.base[m] + Size(l, f, m) + j], h[j], f, m)
      BY <1>1, <2>4, <3>1 DEF Framed, Fitting
    <3>3. f.base[m] + Size(l, f, m) + j \in 1 .. Len(stk)
      <4>1. /\ Len(h) \in Nat /\ f.base[m] \in Nat /\ Size(l, f, m) \in Nat
            /\ Len(stk) = f.base[m] + Size(l, f, m) + Len(h)
        BY <1>2, <1>15
      <4> QED
        BY <3>1, <4>1, PlaceWithin
    <3>4. Fits(stk[f.base[m] + Size(l, f, m) + j], h[j], g, m)
      BY <1>1, <1>13, <2>1, <3>2, FitsShared
    <3>5. stk2[f.base[m] + Size(l, f, m) + j] = stk[f.base[m] + Size(l, f, m) + j]
      BY <3>3 DEF Called
    <3> QED
      BY <2>2, <3>4, <3>5
  <2> QED
    BY <2>5 DEF Fitting
<1>19. /\ Chain(l, g, m + 1) = c /\ g.out[m + 1] = w
  BY <1>10 DEF Chain, c
<1>20. ASSUME NEW j \in 1 .. Len(w)
       PROVE  j = 1 \/ (j - 1 \in 1 .. Len(f.out[q]) /\ (j - 1) + 1 = j)
  BY <1>7, <1>9
<1>21. ASSUME NEW j \in 1 .. Len(f.out[q])
       PROVE  /\ f.out[q][j] \in 1 .. m /\ g.unit[f.out[q][j]] = c[j + 1]
              /\ j < Len(f.out[q]) =>
                   Len(g.out[f.out[q][j]]) >= 2 /\ g.out[f.out[q][j]][2] = f.out[q][j + 1]
  <2>1. q \in 1 .. f.n
    BY <1>1, <1>5
  <2>2. /\ f.out[q][j] \in 1 .. q /\ f.unit[f.out[q][j]] = Chain(l, f, q)[j]
    BY <2>1 DEF Framed, Displayed
  <2>3. f.out[q][j] \in 1 .. m
    BY <1>1, <1>5, <2>2
  <2>4. ASSUME j < Len(f.out[q])
        PROVE  Len(f.out[f.out[q][j]]) >= 2 /\ f.out[f.out[q][j]][2] = f.out[q][j + 1]
    <3>1. j \in 1 .. Len(f.out[q]) - 1
      BY <1>7, <2>4
    <3> QED
      BY <2>1, <3>1 DEF Framed, Displayed
  <2> QED
    BY <1>8, <1>10, <2>2, <2>3, <2>4
<1>22. Displayed(l, g, m + 1)
  <2>1. Len(w) = Len(c) /\ w[1] = m + 1
    BY <1>8, <1>9
  <2>2. ASSUME NEW j \in 1 .. Len(w)
        PROVE  /\ w[j] \in 1 .. m + 1 /\ g.unit[w[j]] = c[j]
               /\ j > 1 => w[j] < m + 1
    <3>1. CASE j = 1
      BY <1>1, <1>6, <1>10, <2>1, <3>1
    <3>2. CASE j # 1
      <4>1. j - 1 \in 1 .. Len(f.out[q]) /\ (j - 1) + 1 = j
        BY <1>20, <3>2
      <4>2. w[j] = f.out[q][j - 1]
        BY <1>9, <4>1
      <4>3. f.out[q][j - 1] \in 1 .. m /\ g.unit[f.out[q][j - 1]] = c[j]
        BY <1>21, <4>1
      <4> QED
        BY <1>1, <4>2, <4>3
    <3> QED
      BY <3>1, <3>2
  <2>3. ASSUME NEW j \in 1 .. Len(w) - 1
        PROVE  Len(g.out[w[j]]) >= 2 /\ g.out[w[j]][2] = w[j + 1]
    <3>0. Len(w) \in Nat /\ Len(w) >= 2 /\ j \in 1 .. Len(w)
      BY <1>7, <1>9
    <3>1. CASE j = 1
      BY <1>10, <2>1, <3>0, <3>1
    <3>2. CASE j # 1
      <4>1. j - 1 \in 1 .. Len(f.out[q]) /\ (j - 1) + 1 = j /\ j - 1 < Len(f.out[q])
            /\ j \in 1 .. Len(f.out[q])
        BY <1>7, <1>9, <3>2
      <4>2. w[j] = f.out[q][j - 1] /\ w[j + 1] = f.out[q][j]
        BY <1>9, <4>1
      <4>3. Len(g.out[f.out[q][j - 1]]) >= 2 /\ g.out[f.out[q][j - 1]][2] = f.out[q][j]
        BY <1>21, <4>1
      <4> QED
        BY <4>2, <4>3
    <3> QED
      BY <3>1, <3>2
  <2> QED
    BY <1>19, <2>1, <2>2, <2>3 DEF Displayed
<1>23. Linked(stk2, g, m + 1)
  <2>1. w[2] = q
    <3>1. 1 \in 1 .. Len(f.out[q]) /\ 1 + 1 = 2
      BY <1>7
    <3> QED
      BY <1>7, <1>9, <3>1
  <2>2. g.base[g.out[m + 1][2]] = f.base[q]
    BY <1>5, <1>10, <2>1
  <2>3. m \in 1 .. m /\ (m + 1) - 1 = m
    BY <1>1
  <2>4. g.base[(m + 1) - 1] = f.base[m] /\ g.at[(m + 1) - 1] = f.at[m]
    BY <1>10, <2>3
  <2>5. g.base[m + 1] = Len(stk)
    BY <1>10
  <2> QED
    BY <1>1, <2>2, <2>4, <2>5 DEF Linked, Called, q, m
<1>24. Held(l, g, m + 1) = << >> /\ Entering(g, m + 1)
  <2>1. Obeys(p, l, u)
    BY <1>11, AddressFacts DEF Given
  <2>2. l.operands[u] = << >>
    BY <1>11, <2>1 DEF Obeys
  <2> QED
    BY <1>10, <2>2 DEF Held, Entering
<1>25. Fitting(l, stk2, g, m + 1)
  <2>1. Kept(l, g, m + 1) = 0
    BY <1>10, <1>24, EmptySeq DEF Kept
  <2> QED
    BY <2>1 DEF Fitting
<1>26. Topmost(l, stk2, g)
  BY <1>10, <1>24 DEF Topmost, HeaderSize, Called
<1>27. Outermost(g)
  <2>1. 1 \in 1 .. m
    BY <1>1
  <2> QED
    BY <1>10, <2>1 DEF Framed, Outermost
<1>28. \A k \in 1 .. g.n : Displayed(l, g, k) /\ Linked(stk2, g, k) /\ Fitting(l, stk2, g, k)
  <2> TAKE k \in 1 .. g.n
  <2>1. k = m + 1 \/ k = m \/ (k \in 1 .. m /\ k < m)
    BY <1>1, <1>10
  <2>2. m \in 1 .. m
    BY <1>1
  <2> QED
    BY <1>16, <1>18, <1>22, <1>23, <1>25, <2>1, <2>2
<1>29. \A k \in 1 .. g.n - 1 : Calls(p, l, g, k)
  <2> TAKE k \in 1 .. g.n - 1
  <2>1. k = m \/ (k \in 1 .. m /\ k < m)
    BY <1>1, <1>10
  <2> QED
    BY <1>16, <1>17, <2>1
<1>30. Framed(p, l, stk2, g)
  BY <1>12, <1>26, <1>27, <1>28, <1>29 DEF Framed
<1> QED
  BY <1>10, <1>30 DEF Standing, u

-----------------------------------------------------------------------------
(* The frame of the main program, a frame that gets its variables, and a   *)
(* return.                                                                 *)

LEMMA StartStands ==
  ASSUME NEW p, NEW l, NEW stk, Given(p, l, stk),
         stk = << IntegerValue(0), IntegerValue(0), IntegerValue(0) >>
  PROVE  Standing(p, l, stk, 0, 0)
<1> DEFINE g == [n    |-> 1,
                 base |-> [k \in 1 .. 1 |-> 0],
                 unit |-> [k \in 1 .. 1 |-> 0],
                 at   |-> [k \in 1 .. 1 |-> 0],
                 out  |-> [k \in 1 .. 1 |-> << 1 >>]]
<1>1. /\ 0 \in DOMAIN l.units /\ 0 \in DOMAIN l.owner /\ l.owner[0] = 0
      /\ l.units[0].chain = << 0 >>
  BY DEF Given, Disciplined, UnitsNest
<1>2. g.n = 1 /\ g.base[1] = 0 /\ g.unit[1] = 0 /\ g.at[1] = 0 /\ g.out[1] = << 1 >>
  OBVIOUS
<1>3. FrameTypes(l, g)
  <2>1. << 1 >> \in Seq(Nat)
    BY Singleton
  <2>2. /\ g.base \in [1 .. g.n -> Nat] /\ g.unit \in [1 .. g.n -> DOMAIN l.units]
        /\ g.at \in [1 .. g.n -> DOMAIN l.owner] /\ g.out \in [1 .. g.n -> Seq(Nat)]
    BY <1>1, <2>1
  <2> HIDE DEF g
  <2>3. \A k \in 1 .. g.n : l.owner[g.at[k]] = g.unit[k]
    <3>1. \A k \in 1 .. g.n : k = 1
      BY <1>2
    <3> QED
      BY <1>1, <1>2, <3>1
  <2> QED
    BY <1>2, <2>2, <2>3 DEF FrameTypes
<1> HIDE DEF g
<1>4. Displayed(l, g, 1)
  <2>1. Chain(l, g, 1) = << 0 >> /\ Len(<< 0 >>) = 1 /\ << 0 >>[1] = 0
    BY <1>1, <1>2 DEF Chain
  <2>2. Len(<< 1 >>) = 1 /\ << 1 >>[1] = 1
    OBVIOUS
  <2>3. \A j \in 1 .. 1 : j = 1
    OBVIOUS
  <2>4. 1 .. 1 - 1 = {}
    OBVIOUS
  <2> QED
    BY <1>2, <2>1, <2>2, <2>3, <2>4 DEF Displayed
<1>5. Linked(stk, g, 1)
  BY <1>2 DEF Linked
<1>6. Held(l, g, 1) = << >> /\ Entering(g, 1)
  <2>1. Obeys(p, l, 0)
    BY <1>1, AddressFacts DEF Given
  <2> QED
    BY <1>1, <1>2, <2>1 DEF Obeys, Held, Entering
<1>7. Fitting(l, stk, g, 1)
  <2>1. Kept(l, g, 1) = 0
    BY <1>2, <1>6 DEF Kept
  <2> QED
    BY <2>1 DEF Fitting
<1>8. Topmost(l, stk, g)
  BY <1>2, <1>6 DEF Topmost, HeaderSize
<1>9. \A k \in 1 .. g.n : k = 1
  BY <1>2
<1>10. 1 .. g.n - 1 = {}
  BY <1>2
<1>11. Framed(p, l, stk, g)
  BY <1>2, <1>3, <1>4, <1>5, <1>7, <1>8, <1>9, <1>10 DEF Framed, Outermost
<1> QED
  BY <1>2, <1>11 DEF Standing

(* Where an instruction that is neither a jump nor a return goes on.       *)
LEMMA NextAddress ==
  ASSUME NEW p, NEW l, NEW a, NEW i, i = p.code[a + 1], Obeys(p, l, a),
         i.opcode \notin {"JMP", "RET"}
  PROVE  /\ a + 1 \in DOMAIN l.owner /\ l.owner[a + 1] = l.owner[a]
         /\ a + 1 # l.owner[a + 1]
         /\ l.operands[a + 1] =
              Popped(l.operands[a], Takes(i, l.units)) \o Yields(i, l.operands[a], l.units)
BY DEF Obeys, GoesOn, Behind

LEMMA RegionEnd ==
  ASSUME NEW b \in Nat, NEW z \in Nat, z >= 3, NEW k \in Nat, NEW low, low = b + z + k
  PROVE  /\ low \in Nat /\ b + 3 <= low
         /\ \A r \in {0, 1} : low + r = b + z + (k + r)
         /\ \A j \in 1 .. k : b + z + j <= low
OBVIOUS

LEMMA VariablesAdded ==
  ASSUME NEW b \in Nat, NEW z \in Nat, NEW s, s = b + 3, NEW t, t = s + (z - 3), NEW e, e = 0
  PROVE  t = b + z + e
OBVIOUS

(* INT.                                                                    *)
LEMMA EnteredOn ==
  ASSUME NEW p, NEW l, NEW stk, NEW f, Given(p, l, stk), Framed(p, l, stk, f),
         NEW i, i = Waiting(p, f), i.opcode = "INT",
         NEW stk2, Len(stk2) = Len(stk) + (i.operand - 3), Spares(l, f, stk, stk2, Len(stk))
  PROVE  Standing(p, l, stk2, f.base[f.n], f.at[f.n] + 1)
<1> DEFINE m == f.n
           a == f.at[m]
           b == a + 1
<1>1. m \in 1 .. f.n /\ m \in Nat
  BY DEF Framed, FrameTypes
<1>2. /\ f.base[m] \in Nat /\ Size(l, f, m) \in Nat /\ Len(stk) \in Nat /\ Obeys(p, l, a)
      /\ a \in DOMAIN l.owner /\ l.owner[a] = f.unit[m] /\ Entering(f, m) /\ Held(l, f, m) = << >>
  <2> HIDE DEF m
  <2>1. /\ f.base[m] \in Nat /\ Size(l, f, m) \in Nat /\ Len(stk) \in Nat /\ Obeys(p, l, f.at[m])
        /\ Entering(f, m) <=> p.code[f.at[m] + 1].opcode = "INT"
        /\ Entering(f, m) => Held(l, f, m) = << >>
    BY <1>1, FrameFacts
  <2>2. f.at[m] \in DOMAIN l.owner /\ l.owner[f.at[m]] = f.unit[m]
    BY <1>1 DEF Framed, FrameTypes
  <2>3. p.code[f.at[m] + 1].opcode = "INT"
    BY DEF Waiting, m
  <2> QED
    BY <2>1, <2>2, <2>3
<1>3. i.operand = Size(l, f, m)
  BY <1>2 DEF Obeys, UnitAt, Size, Waiting
<1>4. Len(stk) = f.base[m] + 3
  BY <1>2 DEF Framed, Topmost, HeaderSize
<1>5. /\ b \in DOMAIN l.owner /\ l.owner[b] = f.unit[m] /\ b # f.unit[m]
      /\ l.operands[b] = << >>
  <2>1. i = p.code[a + 1] /\ Obeys(p, l, a) /\ i.opcode \notin {"JMP", "RET"}
        /\ l.owner[a] = f.unit[m]
    BY <1>2 DEF Waiting
  <2> HIDE DEF a, m
  <2>2. /\ b \in DOMAIN l.owner /\ l.owner[b] = f.unit[m] /\ b # f.unit[m]
        /\ l.operands[b] = Popped(l.operands[a], Takes(i, l.units)) \o Yields(i, l.operands[a], l.units)
    BY <2>1, NextAddress
  <2>3. l.operands[a] = << >> /\ Takes(i, l.units) = 0 /\ Yields(i, l.operands[a], l.units) = << >>
    BY <1>2, TakesOf, YieldsOf DEF Held, a
  <2>4. Popped(<< >>, 0) = << >>
    BY DEF Popped, PopTo
  <2>5. << >> \o << >> = << >>
    OBVIOUS
  <2> QED
    BY <2>2, <2>3, <2>4, <2>5
<1>6. Len(l.operands[b]) = 0
  BY <1>5
<1> HIDE DEF b, a, m
<1>7. Len(stk2) = f.base[m] + Size(l, f, m) + Len(l.operands[b])
  <2>1. /\ Len(stk) = f.base[m] + 3 /\ Len(stk2) = Len(stk) + (Size(l, f, m) - 3)
        /\ Len(l.operands[b]) = 0
    BY <1>3, <1>4, <1>6
  <2> DEFINE x == f.base[m]
             z == Size(l, f, m)
             s == Len(stk)
             t == Len(stk2)
             e == Len(l.operands[b])
  <2>2. x \in Nat /\ z \in Nat /\ s = x + 3 /\ t = s + (z - 3) /\ e = 0
    BY <1>2, <2>1
  <2> HIDE DEF x, z, s, t, e
  <2>3. t = x + z + e
    BY ONLY <2>2, VariablesAdded
  <2> QED
    BY <2>3 DEF x, z, s, t, e
<1>8. \A j \in 1 .. Len(l.operands[b]) :
        Fits(stk2[f.base[m] + Size(l, f, m) + j], l.operands[b][j], f, m)
  BY <1>6
<1>9. f.base[m] + 3 <= Len(stk)
  BY <1>2, <1>4
<1>10. Standing(p, l, stk2, f.base[m], b)
  BY <1>1, <1>2, <1>5, <1>7, <1>8, <1>9, GoneOn
<1> QED
  BY <1>10 DEF a, b, m

(* RET of a subprogram.                                                    *)
LEMMA ReturnedOn ==
  ASSUME NEW p, NEW l, NEW stk, NEW f, Given(p, l, stk), Framed(p, l, stk, f), f.n # 1,
         NEW i, i = Waiting(p, f), i.opcode = "RET",
         NEW stk2, Len(stk2) = Low(l, f, f.n) + i.operand, Spares(l, f, stk, stk2, Low(l, f, f.n))
  PROVE  Standing(p, l, stk2, f.base[f.n - 1], f.at[f.n - 1] + 1)
<1> DEFINE m == f.n - 1
           a == f.at[m]
           b == a + 1
           c == p.code[a + 1]
           u == f.unit[f.n]
           h == Held(l, f, m)
           r == l.units[u].result
           y == Yields(c, h, l.units)
           k == Kept(l, f, m)
<1>1. f.n \in 1 .. f.n /\ f.n \in Nat /\ m \in 1 .. f.n - 1 /\ m \in 1 .. f.n /\ m + 1 = f.n
  <2>1. f.n \in Nat \ {0}
    BY DEF Framed, FrameTypes
  <2> QED
    BY <2>1
<1>2. i.operand = r /\ r \in {0, 1} /\ u \in DOMAIN l.units /\ l.units[u].params \in Nat
  <2>1. /\ Obeys(p, l, f.at[f.n]) /\ l.owner[f.at[f.n]] = u /\ u \in DOMAIN l.units
    BY <1>1, FrameFacts
  <2>2. i.operand = r
    BY <2>1 DEF Obeys, UnitAt, Waiting
  <2> QED
    BY <2>1, <2>2, UnitFacts DEF Given
<1> HIDE DEF m
<1>3. /\ c.opcode = "CAL" /\ c.operand = u /\ ~ Entering(f, m)
      /\ Low(l, f, f.n) = f.base[m] + Size(l, f, m) + k
      /\ k = Len(h) - l.units[u].params /\ Len(h) >= l.units[u].params
  BY <1>1, CallerFacts DEF Params
<1>4. /\ f.base[m] \in Nat /\ Size(l, f, m) \in Nat /\ Size(l, f, m) >= 3
      /\ Len(h) \in Nat /\ h \in Seq(Operand) /\ Obeys(p, l, a)
  BY <1>1, FrameFacts
<1>5. l.owner[a] = f.unit[m]
  BY <1>1 DEF Framed, FrameTypes
<1>6. k \in Nat
  BY <1>1, FrameRegion
<1>7. /\ b \in DOMAIN l.owner /\ l.owner[b] = f.unit[m] /\ b # f.unit[m]
      /\ l.operands[b] = Popped(h, l.units[u].params) \o y
  <2>1. /\ b \in DOMAIN l.owner /\ l.owner[b] = f.unit[m] /\ b # f.unit[m]
        /\ l.operands[b] = Popped(l.operands[a], Takes(c, l.units)) \o Yields(c, l.operands[a], l.units)
    <3>1. c = p.code[a + 1] /\ Obeys(p, l, a) /\ c.opcode \notin {"JMP", "RET"}
      BY <1>3, <1>4
    <3> HIDE DEF a, c
    <3> QED
      BY <1>5, <3>1, NextAddress
  <2>2. Takes(c, l.units) = l.units[u].params
    BY <1>3, TakesOf
  <2>3. l.operands[a] = h
    BY DEF Held
  <2> HIDE DEF h, a, c
  <2> QED
    BY <2>1, <2>2, <2>3
<1>8. y = IF r = 1 THEN << Anything >> ELSE << >>
  BY <1>3, YieldsOf
<1>9. y \in Seq(Operand) /\ Len(y) = r /\ (r = 1 => y[1] = Anything)
  <2>1. Anything \in Operand
    BY DEF Anything, Operand
  <2>2. << Anything >> \in Seq(Operand) /\ Len(<< Anything >>) = 1 /\ << Anything >>[1] = Anything
    BY <2>1, Singleton
  <2>3. << >> \in Seq(Operand) /\ Len(<< >>) = 0
    OBVIOUS
  <2> QED
    BY <1>2, <1>8, <2>2, <2>3
<1> DEFINE d == Popped(h, l.units[u].params)
<1>10. /\ d \in Seq(Operand) /\ Len(d) = k
       /\ \A j \in 1 .. k : d[j] = h[j]
  <2>1. l.units[u].params \in 0 .. Len(h)
    BY <1>2, <1>3, <1>4, SMTT(30)
  <2> HIDE DEF h
  <2>2. /\ d \in Seq(Operand) /\ Len(d) = Len(h) - l.units[u].params
        /\ \A j \in 1 .. Len(h) - l.units[u].params : d[j] = h[j]
    BY <1>4, <2>1, PoppedProperties
  <2> HIDE DEF d, k
  <2>3. Len(h) - l.units[u].params = k
    BY <1>3 DEF h
  <2> QED
    BY <2>2, <2>3
<1> HIDE DEF d, y, k, h, r
<1>11. /\ Len(l.operands[b]) = k + r
       /\ \A j \in 1 .. k : l.operands[b][j] = h[j]
       /\ r = 1 => l.operands[b][k + 1] = Anything
  <2>1. /\ Len(d \o y) = Len(d) + Len(y)
        /\ \A j \in 1 .. Len(d) + Len(y) : (d \o y)[j] = IF j <= Len(d) THEN d[j] ELSE y[j - Len(d)]
    BY <1>9, <1>10, ConcatProperties
  <2>2. \A j \in 1 .. k : j \in 1 .. Len(d) + Len(y) /\ j <= Len(d)
    BY <1>2, <1>6, <1>9, <1>10
  <2>3. r = 1 => k + 1 \in 1 .. Len(d) + Len(y) /\ ~ (k + 1 <= Len(d)) /\ (k + 1) - Len(d) = 1
    BY <1>6, <1>9, <1>10
  <2>4. l.operands[b] = d \o y
    <3>1. l.operands[b] = Popped(h, l.units[u].params) \o y
      BY <1>7
    <3>2. d = Popped(h, l.units[u].params)
      BY DEF d
    <3> HIDE DEF b, u
    <3> QED
      BY <3>1, <3>2
  <2>5. Len(l.operands[b]) = k + r
    BY <1>9, <1>10, <2>1, <2>4
  <2>6. ASSUME NEW j \in 1 .. k PROVE l.operands[b][j] = h[j]
    BY <1>10, <2>1, <2>2, <2>4
  <2>7. ASSUME r = 1 PROVE l.operands[b][k + 1] = Anything
    BY <1>9, <2>1, <2>3, <2>4, <2>7
  <2> QED
    BY <2>5, <2>6, <2>7
<1>12. /\ Low(l, f, f.n) \in Nat /\ f.base[m] + 3 <= Low(l, f, f.n)
       /\ Len(stk2) = f.base[m] + Size(l, f, m) + Len(l.operands[b])
  <2>1. Low(l, f, f.n) = f.base[m] + Size(l, f, m) + k
    BY <1>3 DEF k
  <2>2. Len(stk2) = Low(l, f, f.n) + r
    BY <1>2 DEF r
  <2>3. r \in {0, 1} /\ k \in Nat /\ Len(l.operands[b]) = k + r
    BY <1>2, <1>6, <1>11 DEF r, k
  <2> HIDE DEF u, a, b, c
  <2>4. /\ Low(l, f, f.n) \in Nat /\ f.base[m] + 3 <= Low(l, f, f.n)
        /\ Low(l, f, f.n) + r = f.base[m] + Size(l, f, m) + (k + r)
    <3> DEFINE x == f.base[m]
               z == Size(l, f, m)
               low == Low(l, f, f.n)
    <3>1. x \in Nat /\ z \in Nat /\ z >= 3 /\ low = x + z + k /\ k \in Nat /\ r \in {0, 1}
      BY <1>4, <2>1, <2>3
    <3> HIDE DEF x, z, low
    <3>2. low \in Nat /\ x + 3 <= low /\ low + r = x + z + (k + r)
      BY ONLY <3>1, RegionEnd
    <3> QED
      BY <3>2 DEF x, z, low
  <2> QED
    BY <2>2, <2>3, <2>4
<1>13. ASSUME NEW j \in 1 .. Len(l.operands[b])
       PROVE  Fits(stk2[f.base[m] + Size(l, f, m) + j], l.operands[b][j], f, m)
  <2>1. CASE j \in 1 .. k
    <3>1. f.base[m] + Size(l, f, m) + j <= Low(l, f, f.n)
      <4>1. Low(l, f, f.n) = f.base[m] + Size(l, f, m) + k /\ k \in Nat
        BY <1>3, <1>6 DEF k
      <4> QED
        BY <1>4, <2>1, <4>1, RegionEnd
    <3>2. stk2[f.base[m] + Size(l, f, m) + j] = stk[f.base[m] + Size(l, f, m) + j]
      BY <1>1, <1>12, <2>1, <3>1, Spared DEF k
    <3>3. Fits(stk[f.base[m] + Size(l, f, m) + j], h[j], f, m)
      BY <1>1, <2>1 DEF Framed, Fitting, k, h
    <3> QED
      BY <1>11, <2>1, <3>2, <3>3
  <2>2. CASE j \notin 1 .. k
    <3>1. r = 1 /\ j = k + 1
      BY <1>2, <1>6, <1>11, <2>2
    <3>2. l.operands[b][j] = Anything
      BY <1>11, <3>1
    <3> QED
      BY <3>2 DEF Fits, Anything
  <2> QED
    BY <2>1, <2>2
<1> DEFINE top == Low(l, f, f.n)
<1> HIDE DEF b, u, a, c
<1>0. Spares(l, f, stk, stk2, top) /\ top \in Nat /\ f.base[m] + 3 <= top
  BY <1>12
<1> HIDE DEF top
<1>14. Standing(p, l, stk2, f.base[m], b)
  BY <1>0, <1>1, <1>7, <1>12, <1>13, GoneOn
<1> QED
  BY <1>14 DEF a, b, m

-----------------------------------------------------------------------------
(* The instructions that stay in the running frame.                        *)

(* The new stack has the operands y, at most one, in place of t operands.  *)
Left(l, f, stk, stk2, t, y) ==
  /\ Len(stk2) = Len(stk) - t + Len(y)
  /\ Spares(l, f, stk, stk2, Len(stk) - t)
  /\ Len(y) = 1 => Fits(stk2[Len(stk2)], y[1], f, f.n)

LEMMA RunningFrame ==
  ASSUME NEW p, NEW l, NEW stk, NEW f, Given(p, l, stk), Framed(p, l, stk, f)
  PROVE  /\ f.n \in 1 .. f.n /\ f.n \in Nat
         /\ f.at[f.n] \in DOMAIN l.owner /\ l.owner[f.at[f.n]] = f.unit[f.n]
         /\ Obeys(p, l, f.at[f.n]) /\ f.base[f.n] \in Nat
         /\ Len(stk) \in Nat /\ Len(Held(l, f, f.n)) \in Nat /\ Size(l, f, f.n) \in Nat
         /\ Held(l, f, f.n) \in Seq(Operand)
         /\ Entering(f, f.n) <=> Waiting(p, f).opcode = "INT"
         /\ ~ Entering(f, f.n) =>
              Len(stk) = f.base[f.n] + Size(l, f, f.n) + Len(Held(l, f, f.n))
<1> DEFINE m == f.n
<1>1. m \in 1 .. f.n /\ m \in Nat
  BY DEF Framed, FrameTypes
<1>2. f.at[m] \in DOMAIN l.owner /\ l.owner[f.at[m]] = f.unit[m] /\ f.base[m] \in Nat
  BY <1>1 DEF Framed, FrameTypes
<1>3. ~ Entering(f, m) => Len(stk) = f.base[m] + (Size(l, f, m) + Len(Held(l, f, m)))
  BY DEF Framed, Topmost
<1>4. Waiting(p, f) = p.code[f.at[m] + 1]
  BY DEF Waiting
<1> HIDE DEF m
<1>5. /\ Obeys(p, l, f.at[m]) /\ Len(stk) \in Nat /\ Len(Held(l, f, m)) \in Nat
      /\ Size(l, f, m) \in Nat /\ Held(l, f, m) \in Seq(Operand)
      /\ Entering(f, m) <=> p.code[f.at[m] + 1].opcode = "INT"
  BY <1>1, FrameFacts
<1>6. ~ Entering(f, m) => Len(stk) = f.base[m] + Size(l, f, m) + Len(Held(l, f, m))
  BY <1>2, <1>3, <1>5
<1> QED
  BY <1>1, <1>2, <1>4, <1>5, <1>6 DEF m

LEMMA WorkedOn ==
  ASSUME NEW p, NEW l, NEW stk, NEW f, Given(p, l, stk), Framed(p, l, stk, f),
         NEW i, i = Waiting(p, f), i.opcode \notin {"INT", "JMP", "RET"},
         NEW y, y = Yields(i, Held(l, f, f.n), l.units),
         y = << >> \/ \E x \in Operand : y = << x >>,
         NEW stk2, Left(l, f, stk, stk2, Takes(i, l.units), y), Takes(i, l.units) \in Nat
  PROVE  Standing(p, l, stk2, f.base[f.n], f.at[f.n] + 1)
<1> DEFINE a == f.at[f.n]
           t == Takes(i, l.units)
           h == Held(l, f, f.n)
           b == a + 1
<1>1. /\ l.owner[a] = f.unit[f.n] /\ Obeys(p, l, a) /\ ~ Entering(f, f.n) /\ Len(h) \in Nat
  BY RunningFrame
<1>2. Len(h) >= t
  BY <1>1 DEF Obeys, Waiting, Held
<1>3. t \in 0 .. Len(h)
  BY <1>1, <1>2
<1>4. /\ y \in Seq(Operand) /\ (Len(y) = 0 \/ Len(y) = 1)
  <2>1. ASSUME NEW x \in Operand PROVE << x >> \in Seq(Operand) /\ Len(<< x >>) = 1
    BY Singleton
  <2>2. << >> \in Seq(Operand) /\ Len(<< >>) = 0
    OBVIOUS
  <2> QED
    BY <2>1, <2>2
<1>5. i = p.code[a + 1] /\ h = l.operands[a]
  BY DEF Waiting, Held
<1>6. /\ b \in DOMAIN l.owner /\ l.owner[b] = f.unit[f.n] /\ b # f.unit[f.n]
      /\ l.operands[b] = Popped(h, t) \o y
  <2> HIDE DEF a, h
  <2>1. /\ a + 1 \in DOMAIN l.owner /\ l.owner[a + 1] = l.owner[a]
        /\ a + 1 # l.owner[a + 1]
        /\ l.operands[a + 1] =
             Popped(l.operands[a], Takes(i, l.units)) \o Yields(i, l.operands[a], l.units)
    BY <1>1, <1>5, NextAddress
  <2>2. y = Yields(i, l.operands[a], l.units)
    BY <1>5 DEF h
  <2> QED
    BY <1>1, <1>5, <2>1, <2>2
<1>7. /\ Len(stk2) = Len(stk) - t + Len(y)
      /\ Spares(l, f, stk, stk2, Len(stk) - t)
      /\ Len(y) = 1 => Fits(stk2[Len(stk2)], y[1], f, f.n)
  BY DEF Left
<1> HIDE DEF t, b
<1>8. Standing(p, l, stk2, f.base[f.n], b)
  BY <1>1, <1>3, <1>4, <1>6, <1>7, StepOn
<1> QED
  BY <1>8 DEF b

(* A jump, taken or not.                                                   *)
LEMMA JumpedOn ==
  ASSUME NEW p, NEW l, NEW stk, NEW f, Given(p, l, stk), Framed(p, l, stk, f),
         NEW i, i = Waiting(p, f), i.opcode \in {"JMP", "JPC"},
         NEW b, b = i.operand \/ (i.opcode = "JPC" /\ b = f.at[f.n] + 1),
         NEW stk2, Left(l, f, stk, stk2, Takes(i, l.units), << >>)
  PROVE  Standing(p, l, stk2, f.base[f.n], b)
<1> DEFINE a == f.at[f.n]
           t == Takes(i, l.units)
           h == Held(l, f, f.n)
           y == << >>
<1>1. /\ l.owner[a] = f.unit[f.n] /\ Obeys(p, l, a) /\ ~ Entering(f, f.n) /\ Len(h) \in Nat
  BY RunningFrame
<1>2. Len(h) >= t
  BY <1>1 DEF Obeys, Waiting, Held
<1>3. t \in Nat
  BY TakesOf
<1>4. t \in 0 .. Len(h)
  BY <1>1, <1>2, <1>3
<1>5. i = p.code[a + 1] /\ h = l.operands[a]
  BY DEF Waiting, Held
<1>6. y \in Seq(Operand) /\ (Len(y) = 0 \/ Len(y) = 1) /\ Yields(i, h, l.units) = y
  BY YieldsOf
<1>7. GoesOn(p, l, a, b, Behind(i, h, l.units))
  BY <1>1, <1>5 DEF Obeys
<1>8. /\ b \in DOMAIN l.owner /\ l.owner[b] = f.unit[f.n] /\ b # f.unit[f.n]
      /\ l.operands[b] = Popped(h, t) \o y
  BY <1>1, <1>6, <1>7 DEF GoesOn, Behind
<1>9. /\ Len(stk2) = Len(stk) - t + Len(y)
      /\ Spares(l, f, stk, stk2, Len(stk) - t)
      /\ Len(y) = 1 => Fits(stk2[Len(stk2)], y[1], f, f.n)
  BY DEF Left
<1> HIDE DEF t, y, h
<1> QED
  BY <1>1, <1>4, <1>6, <1>8, <1>9, StepOn DEF h

-----------------------------------------------------------------------------
(* What the operations on the stack leave.                                 *)

LEMMA PushedLeft ==
  ASSUME NEW l, NEW f, NEW stk \in Seq(StackValue), NEW v, NEW x, Fits(v, x, f, f.n)
  PROVE  Left(l, f, stk, Append(stk, v), 0, << x >>)
<1>0. stk \in Seq(StackValue \cup {v})
  BY SeqMonotonic
<1>1. /\ Len(stk) \in Nat /\ Len(Append(stk, v)) = Len(stk) + 1
      /\ \A i \in 1 .. Len(stk) : Append(stk, v)[i] = stk[i]
      /\ Append(stk, v)[Len(stk) + 1] = v
  BY <1>0, AppendProperties, LenProperties
<1>2. Len(<< x >>) = 1 /\ << x >>[1] = x
  OBVIOUS
<1>3. Len(stk) - 0 = Len(stk) /\ Len(stk) - 0 + 1 = Len(stk) + 1
  BY <1>1
<1> QED
  BY <1>1, <1>2, <1>3 DEF Left, Spares

LEMMA PoppedLeft ==
  ASSUME NEW l, NEW f, NEW stk \in Seq(StackValue), NEW t \in 0 .. Len(stk)
  PROVE  Left(l, f, stk, Popped(stk, t), t, << >>)
<1>1. /\ Len(stk) \in Nat /\ Len(Popped(stk, t)) = Len(stk) - t
      /\ \A i \in 1 .. Len(stk) - t : Popped(stk, t)[i] = stk[i]
  BY PoppedProperties, LenProperties
<1>2. Len(<< >>) = 0 /\ Len(stk) - t + 0 = Len(stk) - t
  BY <1>1
<1> QED
  BY <1>1, <1>2 DEF Left, Spares

LEMMA ReplacedLeft ==
  ASSUME NEW l, NEW f, NEW stk \in Seq(StackValue), NEW t \in 0 .. Len(stk),
         NEW v, NEW x, Fits(v, x, f, f.n)
  PROVE  Left(l, f, stk, Append(Popped(stk, t), v), t, << x >>)
<1> DEFINE s == Popped(stk, t)
<1>1. /\ Len(stk) \in Nat /\ Len(s) = Len(stk) - t /\ s \in Seq(StackValue) /\ Len(s) \in Nat
      /\ \A i \in 1 .. Len(stk) - t : s[i] = stk[i]
  BY PoppedProperties, LenProperties
<1> HIDE DEF s
<1>0. s \in Seq(StackValue \cup {v})
  BY <1>1, SeqMonotonic
<1>2. /\ Len(Append(s, v)) = Len(s) + 1
      /\ \A i \in 1 .. Len(s) : Append(s, v)[i] = s[i]
      /\ Append(s, v)[Len(s) + 1] = v
  BY <1>0, AppendProperties
<1>3. Len(<< x >>) = 1 /\ << x >>[1] = x
  OBVIOUS
<1>4. Left(l, f, stk, Append(s, v), t, << x >>)
  BY <1>1, <1>2, <1>3 DEF Left, Spares
<1> QED
  BY <1>4 DEF s

LEMMA StoredLeft ==
  ASSUME NEW l, NEW f, NEW stk \in Seq(StackValue), NEW t \in 0 .. Len(stk),
         NEW a \in Int, 0 <= a, a < Len(stk) - t, InSlot(l, f, a), NEW v
  PROVE  Left(l, f, stk, SetAt(Popped(stk, t), a, v), t, << >>)
<1> DEFINE s == Popped(stk, t)
           r == SetAt(s, a, v)
<1>1. /\ Len(stk) \in Nat /\ Len(s) = Len(stk) - t /\ s \in Seq(StackValue) /\ Len(s) \in Nat
      /\ \A i \in 1 .. Len(stk) - t : s[i] = stk[i]
  BY PoppedProperties, LenProperties
<1> HIDE DEF s
<1>2. Within(s, a)
  BY <1>1 DEF Within
<1>0. s \in Seq(StackValue \cup {v}) /\ v \in StackValue \cup {v}
  BY <1>1, SeqMonotonic
<1>3. /\ Len(r) = Len(s)
      /\ \A j \in Int : Within(s, j) /\ j # a => At(r, j) = At(s, j)
  BY <1>0, <1>2, SetAtProperties
<1> HIDE DEF r
<1>4. ASSUME NEW i \in 1 .. Len(stk) - t
      PROVE  r[i] = stk[i] \/ InSlot(l, f, i - 1)
  <2>1. CASE i - 1 = a
    BY <2>1
  <2>2. CASE i - 1 # a
    <3>1. i - 1 \in Int /\ Within(s, i - 1) /\ (i - 1) + 1 = i
      BY <1>1 DEF Within
    <3>2. At(r, i - 1) = At(s, i - 1)
      BY <1>3, <2>2, <3>1
    <3> QED
      BY <1>1, <3>1, <3>2 DEF At
  <2> QED
    BY <2>1, <2>2
<1>5. Len(<< >>) = 0 /\ Len(r) = Len(stk) - t + 0
  BY <1>1, <1>3
<1>6. Left(l, f, stk, r, t, << >>)
  BY <1>4, <1>5 DEF Left, Spares
<1> QED
  BY <1>6 DEF r, s

-----------------------------------------------------------------------------
(* Where the operands and the accesses of the running frame lead.          *)

LEMMA TopsFit ==
  ASSUME NEW p, NEW l, NEW stk, NEW f, Given(p, l, stk), Framed(p, l, stk, f),
         ~ Entering(f, f.n)
  PROVE  /\ Len(Held(l, f, f.n)) >= 1 => Len(stk) >= 1 /\ Fits(Top(stk), Top(Held(l, f, f.n)), f, f.n)
         /\ Len(Held(l, f, f.n)) >= 2 =>
              Len(stk) >= 2 /\ Fits(Second(stk), Second(Held(l, f, f.n)), f, f.n)
<1> DEFINE m == f.n
           h == Held(l, f, m)
           e == f.base[m] + Size(l, f, m)
<1>1. /\ m \in 1 .. f.n /\ e \in Nat /\ Len(h) \in Nat /\ Len(stk) = e + Len(h)
  BY RunningFrame
<1>2. ASSUME NEW j \in 1 .. Len(h) PROVE Fits(stk[e + j], h[j], f, m)
  <2>1. Kept(l, f, m) = Len(h)
    BY DEF Kept
  <2> QED
    BY <1>1, <1>2, <2>1 DEF Framed, Fitting
<1> HIDE DEF e, h
<1>3. Len(h) >= 1 => Len(h) \in 1 .. Len(h) /\ e + Len(h) = Len(stk) /\ Len(stk) >= 1
  BY <1>1
<1>4. Len(h) >= 2 => /\ Len(h) - 1 \in 1 .. Len(h) /\ e + (Len(h) - 1) = Len(stk) - 1
                     /\ Len(stk) >= 2
  BY <1>1
<1>5. Len(h) >= 1 => Fits(stk[Len(stk)], h[Len(h)], f, m)
  BY <1>2, <1>3
<1>6. Len(h) >= 2 => Fits(stk[Len(stk) - 1], h[Len(h) - 1], f, m)
  BY <1>2, <1>4
<1> QED
  BY <1>3, <1>4, <1>5, <1>6 DEF Top, Second, h

(* A slot of the frame some levels out.                                    *)
SlotFound(l, stk, f, level, s) ==
  LET b == f.base[f.out[f.n][level + 1]]
  IN  /\ WalkStaticChain(stk, f.base[f.n], level) = b /\ b \in Nat /\ b <= f.base[f.n]
      /\ level # 0 => b < f.base[f.n]
      /\ s \in Int /\ s \notin 0 .. 2 /\ b + s \in Nat
      /\ b + s < Len(stk) - Len(Held(l, f, f.n))
      /\ level # 0 => b + s < f.base[f.n]
      /\ InSlot(l, f, b + s)
      /\ level \in Nat /\ level + 1 \in 1 .. Len(f.out[f.n])

LEMMA SlotOutwards ==
  ASSUME NEW p, NEW l, NEW stk, NEW f, Given(p, l, stk), Framed(p, l, stk, f),
         ~ Entering(f, f.n), NEW level \in Levels(l.units[f.unit[f.n]]),
         NEW s \in SlotsOf(UnitOut(l, l.units[f.unit[f.n]], level))
  PROVE  SlotFound(l, stk, f, level, s)
<1> DEFINE m == f.n
           q == f.out[m][level + 1]
           b == f.base[q]
<1>1. m \in 1 .. f.n /\ m \in Nat
  BY RunningFrame
<1>2. Len(f.out[m]) = Len(Chain(l, f, m)) /\ Len(f.out[m]) \in Nat
  BY <1>1, LenProperties DEF Framed, FrameTypes, Displayed
<1>3. level \in 0 .. Len(f.out[m]) - 1
  BY <1>2 DEF Levels, Chain
<1>4. level \in Nat /\ level + 1 \in 1 .. Len(f.out[m]) /\ (level # 0 => level + 1 > 1)
  BY <1>2, <1>3
<1>5. /\ q \in 1 .. f.n /\ f.unit[q] = Chain(l, f, m)[level + 1]
      /\ level # 0 => q < m
  BY <1>1, <1>4 DEF Framed, Displayed
<1>6. WalkStaticChain(stk, f.base[m], level) = b
  <2> HIDE DEF m
  <2>1. LeadsOut(stk, f, m, level)
    BY <1>1, <1>3, WalkLeadsOut
  <2> QED
    BY <2>1 DEF LeadsOut
<1>7. level = 0 => q = m
  <2>1. f.out[m][1] = m
    BY <1>1 DEF Framed, Displayed
  <2> QED
    BY <2>1
<1>8. ~ Entering(f, q)
  BY <1>1, <1>4, DisplayFacts
<1>9. l.units[f.unit[q]] = UnitOut(l, l.units[f.unit[m]], level)
  BY <1>5 DEF UnitOut, Chain
<1>10. s \in SlotsOf(l.units[f.unit[q]])
  BY <1>9
<1> DEFINE sz == Size(l, f, q)
           zm == Size(l, f, m)
           bm == f.base[m]
           hm == Len(Held(l, f, m))
<1>11. zm \in Nat /\ zm >= 3 /\ hm \in Nat /\ bm \in Nat /\ Len(stk) = bm + zm + hm /\ Len(stk) \in Nat
  <2>1. Size(l, f, m) >= 3
    <3> HIDE DEF m
    <3> QED
      BY <1>1, FrameFacts
  <2> QED
    BY <2>1, RunningFrame
<1>12. /\ s \in Int /\ b + s \in Nat /\ s \notin 0 .. 2 /\ b + s + 1 <= b + sz
       /\ q < m => b + s < bm
  <2> HIDE DEF m, q
  <2> QED
    BY <1>1, <1>5, <1>8, <1>10, SlotPlace
<1>13. b \in Nat /\ (q < m => b < bm)
  <2>1. b \in Nat
    BY <1>5 DEF Framed, FrameTypes
  <2> HIDE DEF m, q
  <2> QED
    BY <1>1, <1>5, <2>1, FramesApart
<1>14. InSlot(l, f, b + s)
  <2> HIDE DEF q
  <2> QED
    BY <1>5, <1>8, <1>10 DEF InSlot
<1>15. q = m => b = bm /\ sz = zm
  OBVIOUS
<1>16. q = m \/ q < m
  BY <1>5, <1>7
<1>17. level # 0 => q < m
  BY <1>5
<1> HIDE DEF b, sz, zm, bm, hm, q, m
<1>18. /\ b <= bm /\ (level # 0 => b < bm) /\ b + s < Len(stk) - hm
       /\ level # 0 => b + s < bm
  <2>1. CASE q = m
    BY ONLY <1>11, <1>12, <1>13, <1>15, <1>17, <2>1
  <2>2. CASE q < m
    BY ONLY <1>11, <1>12, <1>13, <1>17, <2>2
  <2> QED
    BY <1>16, <2>1, <2>2
<1> QED
  BY <1>4, <1>6, <1>12, <1>13, <1>14, <1>18 DEF SlotFound, m, q, b, bm, hm

(* An operand that is a slot.                                              *)
LEMMA SlotAccess ==
  ASSUME NEW p, NEW l, NEW stk, NEW f, Given(p, l, stk), Framed(p, l, stk, f),
         ~ Entering(f, f.n), NEW x \in Operand, IsSlot(l, l.units[f.unit[f.n]], x),
         NEW v \in StackValue, Fits(v, x, f, f.n)
  PROVE  /\ v.num \in Nat /\ v.num < Len(stk) - Len(Held(l, f, f.n)) /\ InSlot(l, f, v.num)
         /\ IsInteger(v) /\ v.den = 1
         /\ \E level \in Levels(l.units[f.unit[f.n]]),
               s \in SlotsOf(UnitOut(l, l.units[f.unit[f.n]], x.level)) :
              /\ level = x.level
              /\ v.num = f.base[f.out[f.n][level + 1]] + s
<1> DEFINE b == f.base[f.out[f.n][x.level + 1]]
           unit == l.units[f.unit[f.n]]
           s == v.num - b
<1>1. /\ x.kind = "slot" /\ x.level \in Levels(unit)
      /\ x.low .. x.high \subseteq SlotsOf(UnitOut(l, unit, x.level))
      /\ x.low \in Int /\ x.high \in Int
  BY DEF IsSlot, Operand
<1>2. /\ v.kind = "Integer" /\ b + x.low <= v.num /\ v.num <= b + x.high
      /\ x.level + 1 \in 1 .. Len(f.out[f.n])
  BY <1>1 DEF Fits
<1>3. v.num \in Int /\ v.den = 1
  BY <1>2 DEF StackValue, Value
<1>4. f.n \in 1 .. f.n
  BY RunningFrame
<1>5. b \in Nat
  <2>1. f.out[f.n][x.level + 1] \in 1 .. f.n
    BY <1>2, <1>4 DEF Framed, Displayed
  <2> QED
    BY <2>1 DEF Framed, FrameTypes
<1>6. s \in x.low .. x.high /\ b + s = v.num
  <2>1. b + x.low <= v.num /\ v.num <= b + x.high
    BY <1>2
  <2> HIDE DEF b
  <2> QED
    BY <1>1, <1>3, <1>5, <2>1
<1>7. s \in SlotsOf(UnitOut(l, unit, x.level))
  BY <1>1, <1>6
<1> HIDE DEF s
<1>8. /\ b + s \in Nat /\ b + s < Len(stk) - Len(Held(l, f, f.n)) /\ InSlot(l, f, b + s)
  <2>1. SlotFound(l, stk, f, x.level, s)
    BY <1>1, <1>7, SlotOutwards
  <2> QED
    BY <2>1 DEF SlotFound
<1> QED
  BY <1>1, <1>2, <1>3, <1>6, <1>7, <1>8 DEF IsInteger

-----------------------------------------------------------------------------
(* The machine.                                                            *)

(* As long as it runs, the stack stands in frames of which the last has    *)
(* the base bp and is at the address ip.                                   *)
InOrder == status = "running" => Standing(program, layout, stack, bp, ip)

(* The inductive invariant.                                                *)
DisciplineInv == TypeOK /\ Disciplined(program, layout) /\ InOrder

Running(f) == Framed(program, layout, stack, f) /\ f.base[f.n] = bp /\ f.at[f.n] = ip

LEMMA InvGiven ==
  ASSUME DisciplineInv
  PROVE  Given(program, layout, stack)
BY DEF DisciplineInv, TypeOK, Program, Given

LEMMA InvRunning ==
  ASSUME DisciplineInv, status = "running"
  PROVE  \E f : Running(f)
BY DEF DisciplineInv, InOrder, Standing, Running

LEMMA RunningFacts ==
  ASSUME DisciplineInv, NEW f, Running(f)
  PROVE  /\ Given(program, layout, stack) /\ Framed(program, layout, stack, f)
         /\ f.base[f.n] = bp /\ f.at[f.n] = ip
         /\ Cur = Waiting(program, f)
         /\ ip \in DOMAIN layout.owner /\ ip \in Nat /\ ip < Len(program.code)
         /\ Obeys(program, layout, ip) /\ UnitAt(layout, ip) = layout.units[f.unit[f.n]]
         /\ layout.operands[ip] = Held(layout, f, f.n)
         /\ (Entering(f, f.n) <=> Cur.opcode = "INT")
         /\ stack \in Seq(StackValue) /\ Len(stack) \in Nat /\ Len(Held(layout, f, f.n)) \in Nat
         /\ Held(layout, f, f.n) \in Seq(Operand)
         /\ (Cur.opcode # "INT" => Len(stack) >= Len(Held(layout, f, f.n)))
<1>1. /\ Given(program, layout, stack) /\ Framed(program, layout, stack, f)
      /\ f.base[f.n] = bp /\ f.at[f.n] = ip
  BY InvGiven DEF Running
<1>2. Cur = Waiting(program, f)
  BY <1>1 DEF Cur, Waiting
<1>3. /\ ip \in DOMAIN layout.owner /\ layout.owner[ip] = f.unit[f.n] /\ Obeys(program, layout, ip)
      /\ (Entering(f, f.n) <=> Cur.opcode = "INT")
      /\ Len(stack) \in Nat /\ Len(Held(layout, f, f.n)) \in Nat
      /\ Held(layout, f, f.n) \in Seq(Operand)
  BY <1>1, <1>2, RunningFrame
<1>4. ip \in Nat /\ ip < Len(program.code)
  BY <1>3, AddressFacts, InvGiven DEF Given
<1>5. Cur.opcode # "INT" => Len(stack) >= Len(Held(layout, f, f.n))
  <2>1. f.base[f.n] \in Nat /\ Size(layout, f, f.n) \in Nat
    BY <1>1, RunningFrame
  <2>2. Cur.opcode # "INT" =>
          Len(stack) = f.base[f.n] + Size(layout, f, f.n) + Len(Held(layout, f, f.n))
    BY <1>1, <1>3, RunningFrame
  <2> QED
    BY <1>3, <2>1, <2>2
<1>6. stack \in Seq(StackValue)
  BY <1>1 DEF Given
<1> QED
  BY <1>1, <1>2, <1>3, <1>4, <1>5, <1>6 DEF UnitAt, Held

(* The operands an instruction takes are there.                            *)
LEMMA Supplied ==
  ASSUME DisciplineInv, NEW f, Running(f), Cur.opcode # "INT", Takes(Cur, layout.units) \in Nat
  PROVE  /\ Takes(Cur, layout.units) <= Len(Held(layout, f, f.n))
         /\ Takes(Cur, layout.units) \in 0 .. Len(stack)
<1>1. /\ Obeys(program, layout, ip) /\ layout.operands[ip] = Held(layout, f, f.n)
      /\ Len(stack) \in Nat /\ Len(Held(layout, f, f.n)) \in Nat
      /\ Len(stack) >= Len(Held(layout, f, f.n))
  BY RunningFacts
<1>2. Len(layout.operands[ip]) >= Takes(Cur, layout.units)
  BY <1>1 DEF Obeys, Cur
<1> QED
  BY <1>1, <1>2

(* An instruction that stays in the running frame and goes on behind.      *)
LEMMA LeaveOn ==
  ASSUME DisciplineInv, NEW f, Running(f), layout' = layout,
         Cur.opcode \notin {"INT", "JMP", "RET"}, Takes(Cur, layout.units) \in Nat,
         NEW y, y = Yields(Cur, Held(layout, f, f.n), layout.units),
         y = << >> \/ \E x \in Operand : y = << x >>,
         Left(layout, f, stack, stack', Takes(Cur, layout.units), y),
         ip' = ip + 1, bp' = bp, program' = program
  PROVE  InOrder'
<1>1. /\ Given(program, layout, stack) /\ Framed(program, layout, stack, f)
      /\ Cur = Waiting(program, f) /\ f.base[f.n] = bp /\ f.at[f.n] = ip
  BY RunningFacts
<1>2. Standing(program, layout, stack', f.base[f.n], f.at[f.n] + 1)
  BY <1>1, WorkedOn
<1>3. Standing(program', layout', stack', bp', ip')
  BY <1>1, <1>2
<1> QED
  BY <1>3 DEF InOrder

(* The same when nothing is known of the value left.                       *)
LEMMA AnythingOn ==
  ASSUME DisciplineInv, NEW f, Running(f), layout' = layout,
         Cur.opcode \notin {"INT", "JMP", "RET"}, Takes(Cur, layout.units) \in Nat \ {0},
         Yields(Cur, Held(layout, f, f.n), layout.units) = << Anything >>,
         NEW v, Leave(Append(Popped(stack, Takes(Cur, layout.units)), v))
  PROVE  InOrder'
<1>1. stack \in Seq(StackValue) /\ Takes(Cur, layout.units) \in 0 .. Len(stack)
  BY RunningFacts, Supplied
<1>2. Fits(v, Anything, f, f.n) /\ Anything \in Operand
  BY DEF Fits, Anything, Operand
<1>3. /\ stack' = Append(Popped(stack, Takes(Cur, layout.units)), v)
      /\ ip' = ip + 1 /\ bp' = bp /\ program' = program
  BY DEF Leave
<1>4. Left(layout, f, stack, stack', Takes(Cur, layout.units), << Anything >>)
  BY <1>1, <1>2, <1>3, ReplacedLeft
<1> QED
  BY <1>2, <1>3, <1>4, LeaveOn

LEMMA PushOn ==
  ASSUME DisciplineInv, NEW f, Running(f), layout' = layout,
         Cur.opcode \notin {"INT", "JMP", "RET"}, Takes(Cur, layout.units) = 0,
         NEW x \in Operand, Yields(Cur, Held(layout, f, f.n), layout.units) = << x >>,
         NEW v, PushValue(v), Fits(v, x, f, f.n)
  PROVE  InOrder'
<1>1. stack \in Seq(StackValue)
  BY RunningFacts
<1>3. stack' = Append(stack, v) /\ ip' = ip + 1 /\ bp' = bp /\ program' = program
  BY DEF Leave, PushValue
<1>4. Left(layout, f, stack, stack', Takes(Cur, layout.units), << x >>)
  BY <1>1, <1>3, PushedLeft
<1> QED
  BY <1>3, <1>4, LeaveOn

LEMMA PushAnythingOn ==
  ASSUME DisciplineInv, NEW f, Running(f), layout' = layout,
         Cur.opcode \notin {"INT", "JMP", "RET"}, Takes(Cur, layout.units) = 0,
         Yields(Cur, Held(layout, f, f.n), layout.units) = << Anything >>,
         NEW v, PushValue(v)
  PROVE  InOrder'
<1>1. Fits(v, Anything, f, f.n) /\ Anything \in Operand
  BY DEF Fits, Anything, Operand
<1> QED
  BY <1>1, PushOn

-----------------------------------------------------------------------------
(* The instructions.                                                       *)

(* An instruction under execution has its frame.                           *)
LEMMA StepRuns ==
  ASSUME DisciplineInv, NEW op, Step(op)
  PROVE  Cur.opcode = op /\ TypeOK /\ Fetching /\ ~ Fault /\ \E f : Running(f)
BY InvRunning DEF Step, Fetching, Succeeds, DisciplineInv

LEMMA LiteralInOrder ==
  ASSUME DisciplineInv, LIT \/ LITB \/ LITS \/ LITR, layout' = layout
  PROVE  InOrder'
<1>1. CASE LIT
  <2>1. Step("LIT") /\ PushValue(IntegerValue(Cur.operand))
    BY <1>1 DEF LIT
  <2>2. PICK f : Running(f)
    BY <2>1, StepRuns
  <2>3. Cur.opcode = "LIT" /\ Cur.operand \in Int
    BY <2>1, StepRuns, FetchType, RegisterBasics
  <2>4. NumberIn(Cur.operand, Cur.operand) \in Operand
    BY <2>3 DEF NumberIn, Operand
  <2>5. Fits(IntegerValue(Cur.operand), NumberIn(Cur.operand, Cur.operand), f, f.n)
    BY <2>3 DEF Fits, NumberIn, IntegerValue
  <2>6. Takes(Cur, layout.units) = 0
        /\ Yields(Cur, Held(layout, f, f.n), layout.units) = << NumberIn(Cur.operand, Cur.operand) >>
    BY <2>3, TakesOf, YieldsOf
  <2> QED
    BY <2>1, <2>2, <2>3, <2>4, <2>5, <2>6, PushOn
<1>2. ASSUME NEW op \in {"LITB", "LITS", "LITR"}, Step(op), NEW v, PushValue(v)
      PROVE  InOrder'
  <2>1. PICK f : Running(f)
    BY <1>2, StepRuns
  <2>2. Cur.opcode = op
    BY <1>2, StepRuns
  <2>3. Takes(Cur, layout.units) = 0
        /\ Yields(Cur, Held(layout, f, f.n), layout.units) = << Anything >>
    BY <2>2, TakesOf, YieldsOf
  <2> QED
    BY <1>2, <2>1, <2>2, <2>3, PushAnythingOn
<1> QED
  BY <1>1, <1>2 DEF LITB, LITS, LITR

(* A direct access goes to a slot of the frame the level leads to.         *)
LEMMA DirectAccess ==
  ASSUME DisciplineInv, NEW f, Running(f), Fetching, Cur.opcode \in {"LOD", "STO", "ADDR"}
  PROVE  /\ FrameBase(Cur) = f.base[f.out[f.n][Cur.level + 1]]
         /\ Address(Cur) = FrameBase(Cur) + Cur.operand
         /\ FrameBase(Cur) \in Nat /\ Cur.operand \in Int /\ Address(Cur) \in Nat
         /\ Address(Cur) < Len(stack) - Len(Held(layout, f, f.n))
         /\ InSlot(layout, f, Address(Cur))
         /\ Cur.level \in Nat /\ Cur.level + 1 \in 1 .. Len(f.out[f.n])
<1> DEFINE b == f.base[f.out[f.n][Cur.level + 1]]
           unit == layout.units[f.unit[f.n]]
<1>1. /\ Given(program, layout, stack) /\ Framed(program, layout, stack, f)
      /\ ~ Entering(f, f.n) /\ f.base[f.n] = bp /\ Len(stack) \in Nat
      /\ Len(Held(layout, f, f.n)) \in Nat
  BY RunningFacts
<1>2. Cur.level \in Levels(unit) /\ Cur.operand \in SlotsOf(UnitOut(layout, unit, Cur.level))
  <2>1. Obeys(program, layout, ip) /\ UnitAt(layout, ip) = unit
    BY RunningFacts
  <2> QED
    BY <2>1 DEF Obeys, Cur
<1>3. /\ WalkStaticChain(stack, f.base[f.n], Cur.level) = b /\ b \in Nat
      /\ Cur.operand \in Int /\ b + Cur.operand \in Nat
      /\ b + Cur.operand < Len(stack) - Len(Held(layout, f, f.n))
      /\ InSlot(layout, f, b + Cur.operand)
      /\ Cur.level \in Nat /\ Cur.level + 1 \in 1 .. Len(f.out[f.n])
      /\ b <= f.base[f.n]
  <2>1. SlotFound(layout, stack, f, Cur.level, Cur.operand)
    BY <1>1, <1>2, SlotOutwards
  <2> QED
    BY <2>1 DEF SlotFound
<1>4. FrameBase(Cur) = b
  BY <1>1, <1>3 DEF FrameBase
<1> HIDE DEF b
<1>5. Len(stack) <= IntMax
  BY <1>1, ConstantBounds DEF Given
<1>6. b <= IntMax
  <2>1. f.n \in 1 .. f.n /\ bp \in Nat
    BY <1>1, RunningFrame
  <2>2. f.base[f.n] + 3 <= Len(stack)
    BY <1>1, <2>1, FrameOnStack
  <2> QED
    BY <1>1, <1>3, <1>5, <2>1, <2>2, ConstantBounds
<1>7. AsInt(b) = b
  BY <1>3, <1>6, ConstantBounds DEF AsInt
<1>8. b + Cur.operand \in Int32
  BY <1>1, <1>3, <1>5, ConstantBounds DEF Int32, IntMin
<1>9. Address(Cur) = b + Cur.operand
  BY <1>4, <1>7, <1>8, WrapIntSame DEF Address
<1> QED
  BY <1>3, <1>4, <1>9 DEF b

LEMMA LoadInOrder ==
  ASSUME DisciplineInv, LOD \/ ADDR \/ LODI, layout' = layout
  PROVE  InOrder'
<1>1. CASE LOD
  <2>1. Step("LOD") /\ PushValue(At(stack, Address(Cur)))
    BY <1>1 DEF LOD
  <2>2. PICK f : Running(f)
    BY <2>1, StepRuns
  <2>3. Cur.opcode = "LOD"
    BY <2>1, StepRuns
  <2>4. Takes(Cur, layout.units) = 0
        /\ Yields(Cur, Held(layout, f, f.n), layout.units) = << Anything >>
    BY <2>3, TakesOf, YieldsOf
  <2> QED
    BY <2>1, <2>2, <2>3, <2>4, PushAnythingOn
<1>2. CASE ADDR
  <2> DEFINE v == IntegerValue(Address(Cur))
             x == SlotOf(Cur.level, Cur.operand)
  <2>1. Step("ADDR") /\ PushValue(v)
    BY <1>2 DEF ADDR
  <2>2. PICK f : Running(f)
    BY <2>1, StepRuns
  <2>3. Cur.opcode = "ADDR" /\ Fetching
    BY <2>1, StepRuns
  <2>4. /\ FrameBase(Cur) = f.base[f.out[f.n][Cur.level + 1]]
        /\ Address(Cur) = FrameBase(Cur) + Cur.operand
        /\ FrameBase(Cur) \in Nat /\ Cur.operand \in Int
        /\ Cur.level \in Nat /\ Cur.level + 1 \in 1 .. Len(f.out[f.n])
    BY <2>2, <2>3, DirectAccess
  <2>5. x \in Operand
    BY <2>4 DEF SlotOf, Operand
  <2>6. Fits(v, x, f, f.n)
    BY <2>4, SMTT(30) DEF Fits, SlotOf, IntegerValue
  <2>7. Takes(Cur, layout.units) = 0
        /\ Yields(Cur, Held(layout, f, f.n), layout.units) = << x >>
    BY <2>3, TakesOf, YieldsOf
  <2> HIDE DEF v, x
  <2> QED
    BY <2>1, <2>2, <2>3, <2>5, <2>6, <2>7, PushOn
<1>3. CASE LODI
  <2>1. Step("LODI") /\ Leave(Append(Popped(stack, 1), At(stack, Top(stack).num)))
    BY <1>3 DEF LODI
  <2>2. PICK f : Running(f)
    BY <2>1, StepRuns
  <2>3. Cur.opcode = "LODI"
    BY <2>1, StepRuns
  <2>4. Takes(Cur, layout.units) = 1
        /\ Yields(Cur, Held(layout, f, f.n), layout.units) = << Anything >>
    BY <2>3, TakesOf, YieldsOf
  <2> QED
    BY <2>1, <2>2, <2>3, <2>4, AnythingOn
<1> QED
  BY <1>1, <1>2, <1>3

(* A store into a slot, with t operands taken.                             *)
LEMMA StoreOn ==
  ASSUME DisciplineInv, NEW f, Running(f), layout' = layout,
         Cur.opcode \notin {"INT", "JMP", "RET"}, Takes(Cur, layout.units) \in Nat,
         Yields(Cur, Held(layout, f, f.n), layout.units) = << >>,
         NEW a \in Nat, InSlot(layout, f, a), a < Len(stack) - Len(Held(layout, f, f.n)), NEW v,
         stack' = SetAt(Popped(stack, Takes(Cur, layout.units)), a, v),
         ip' = ip + 1, bp' = bp, program' = program
  PROVE  InOrder'
<1> DEFINE t == Takes(Cur, layout.units)
<1>1. /\ stack \in Seq(StackValue) /\ t \in 0 .. Len(stack) /\ t <= Len(Held(layout, f, f.n))
      /\ Len(stack) \in Nat /\ Len(Held(layout, f, f.n)) \in Nat
  BY RunningFacts, Supplied
<1> HIDE DEF t
<1>2. a < Len(stack) - t /\ a \in Int /\ 0 <= a
  BY <1>1
<1>3. Left(layout, f, stack, SetAt(Popped(stack, t), a, v), t, << >>)
  BY <1>1, <1>2, StoredLeft
<1> QED
  BY <1>3, LeaveOn DEF t

(* The operands of an instruction that takes an address.                   *)
LEMMA IndirectAccess ==
  ASSUME DisciplineInv, NEW f, Running(f), Cur.opcode # "INT"
  PROVE  /\ Cur.opcode \in {"LODI", "STOI"} =>
              LET x == Top(Held(layout, f, f.n))
              IN  /\ x \in Operand /\ IsSlot(layout, layout.units[f.unit[f.n]], x)
                  /\ Top(stack) \in StackValue /\ Fits(Top(stack), x, f, f.n)
         /\ Cur.opcode = "OPR" /\ OprName(Cur.operand) \in {"RDI", "RDLN"} =>
              LET x == Second(Held(layout, f, f.n))
              IN  /\ x \in Operand /\ IsSlot(layout, layout.units[f.unit[f.n]], x)
                  /\ Second(stack) \in StackValue /\ Fits(Second(stack), x, f, f.n)
<1> DEFINE h == Held(layout, f, f.n)
<1>1. /\ Given(program, layout, stack) /\ Framed(program, layout, stack, f)
      /\ ~ Entering(f, f.n) /\ Len(stack) \in Nat /\ stack \in Seq(StackValue)
      /\ Len(h) \in Nat /\ h \in Seq(Operand)
  BY RunningFacts
<1>2. /\ Obeys(program, layout, ip) /\ layout.operands[ip] = h
      /\ UnitAt(layout, ip) = layout.units[f.unit[f.n]]
  BY RunningFacts
<1>3. Len(h) >= Takes(Cur, layout.units)
  BY <1>2 DEF Obeys, Cur
<1>4. ASSUME Cur.opcode \in {"LODI", "STOI"}
      PROVE  /\ Top(h) \in Operand /\ IsSlot(layout, layout.units[f.unit[f.n]], Top(h))
             /\ Top(stack) \in StackValue /\ Fits(Top(stack), Top(h), f, f.n)
  <2>1. IsSlot(layout, layout.units[f.unit[f.n]], Top(h))
    BY <1>2, <1>4 DEF Obeys, Cur
  <2>2. Takes(Cur, layout.units) = 1 \/ Takes(Cur, layout.units) = 2
    BY <1>4, TakesOf
  <2>3. Len(h) >= 1
    BY <1>1, <1>3, <2>2
  <2>4. Len(stack) >= 1 /\ Fits(Top(stack), Top(h), f, f.n)
    BY <1>1, <2>3, TopsFit
  <2>5. Len(stack) \in 1 .. Len(stack) /\ Len(h) \in 1 .. Len(h)
    BY <1>1, <2>3, <2>4
  <2> HIDE DEF h
  <2>6. Top(stack) \in StackValue /\ Top(h) \in Operand
    BY <1>1, <2>5, ElementOfSeq DEF Top
  <2> QED
    BY <2>1, <2>4, <2>6
<1>5. ASSUME Cur.opcode = "OPR", OprName(Cur.operand) \in {"RDI", "RDLN"}
      PROVE  /\ Second(h) \in Operand /\ IsSlot(layout, layout.units[f.unit[f.n]], Second(h))
             /\ Second(stack) \in StackValue /\ Fits(Second(stack), Second(h), f, f.n)
  <2>1. IsSlot(layout, layout.units[f.unit[f.n]], Second(h))
    BY <1>2, <1>5 DEF Obeys, Cur
  <2>2. Takes(Cur, layout.units) = 2
    BY <1>5, TakesOf
  <2>3. Len(h) >= 2
    BY <1>1, <1>3, <2>2
  <2>4. Len(stack) >= 2 /\ Fits(Second(stack), Second(h), f, f.n)
    BY <1>1, <2>3, TopsFit
  <2>5. Len(stack) - 1 \in 1 .. Len(stack) /\ Len(h) - 1 \in 1 .. Len(h)
    BY <1>1, <2>3, <2>4
  <2> HIDE DEF h
  <2>6. Second(stack) \in StackValue /\ Second(h) \in Operand
    BY <1>1, <2>5, ElementOfSeq DEF Second
  <2> QED
    BY <2>1, <2>4, <2>6
<1> QED
  BY <1>4, <1>5

LEMMA StoreInOrder ==
  ASSUME DisciplineInv, STO \/ STOI, layout' = layout
  PROVE  InOrder'
<1>1. CASE STO
  <2>1. Step("STO") /\ Leave(SetAt(Popped(stack, 1), Address(Cur), Top(stack)))
    BY <1>1 DEF STO
  <2>2. PICK f : Running(f)
    BY <2>1, StepRuns
  <2>3. Cur.opcode = "STO" /\ Fetching
    BY <2>1, StepRuns
  <2>4. Takes(Cur, layout.units) = 1 /\ Yields(Cur, Held(layout, f, f.n), layout.units) = << >>
    BY <2>3, TakesOf, YieldsOf
  <2>5. /\ Address(Cur) \in Nat /\ InSlot(layout, f, Address(Cur))
        /\ Address(Cur) < Len(stack) - Len(Held(layout, f, f.n))
    BY <2>2, <2>3, DirectAccess
  <2>6. /\ stack' = SetAt(Popped(stack, Takes(Cur, layout.units)), Address(Cur), Top(stack))
        /\ ip' = ip + 1 /\ bp' = bp /\ program' = program
    BY <2>1, <2>4 DEF Leave
  <2> QED
    BY <2>2, <2>3, <2>4, <2>5, <2>6, StoreOn
<1>2. CASE STOI
  <2>1. Step("STOI") /\ Leave(SetAt(Popped(stack, 2), Top(stack).num, Second(stack)))
    BY <1>2 DEF STOI
  <2>2. PICK f : Running(f)
    BY <2>1, StepRuns
  <2>3. Cur.opcode = "STOI"
    BY <2>1, StepRuns
  <2>4. Takes(Cur, layout.units) = 2 /\ Yields(Cur, Held(layout, f, f.n), layout.units) = << >>
    BY <2>3, TakesOf, YieldsOf
  <2> DEFINE a == Top(stack).num
             x == Top(Held(layout, f, f.n))
  <2>5. /\ x \in Operand /\ IsSlot(layout, layout.units[f.unit[f.n]], x)
        /\ Top(stack) \in StackValue /\ Fits(Top(stack), x, f, f.n)
    BY <2>2, <2>3, IndirectAccess
  <2> HIDE DEF x
  <2>6. a \in Nat /\ InSlot(layout, f, a) /\ a < Len(stack) - Len(Held(layout, f, f.n))
    BY <2>2, <2>3, <2>5, RunningFacts, SlotAccess
  <2>7. /\ stack' = SetAt(Popped(stack, Takes(Cur, layout.units)), a, Second(stack))
        /\ ip' = ip + 1 /\ bp' = bp /\ program' = program
    BY <2>1, <2>4 DEF Leave
  <2> HIDE DEF a
  <2> QED
    BY <2>2, <2>3, <2>4, <2>6, <2>7, StoreOn
<1> QED
  BY <1>1, <1>2

LEMMA ReadInOrder ==
  ASSUME DisciplineInv, Read, layout' = layout
  PROVE  InOrder'
<1> DEFINE wholeLine == OprName(Cur.operand) = "RDLN"
           a == Second(stack).num
           v == ReadResult(Truncated(Top(stack)), NextText(wholeLine))
<1>1. /\ Step("OPR") /\ OprName(Cur.operand) \in {"RDI", "RDLN"}
      /\ stack' = SetAt(Popped(stack, 2), Truncated(Second(stack)), v)
      /\ ip' = ip + 1 /\ bp' = bp /\ program' = program
  BY DEF Read, StepOpr
<1> HIDE DEF v
<1>2. PICK f : Running(f)
  BY <1>1, StepRuns
<1>3. Cur.opcode = "OPR"
  BY <1>1, StepRuns
<1>4. Takes(Cur, layout.units) = 2 /\ Yields(Cur, Held(layout, f, f.n), layout.units) = << >>
  BY <1>1, <1>3, TakesOf, YieldsOf
<1> DEFINE y == Second(Held(layout, f, f.n))
<1>5. /\ y \in Operand /\ IsSlot(layout, layout.units[f.unit[f.n]], y)
      /\ Second(stack) \in StackValue /\ Fits(Second(stack), y, f, f.n)
  BY <1>1, <1>2, <1>3, IndirectAccess
<1> HIDE DEF y
<1>6. a \in Nat /\ InSlot(layout, f, a) /\ a < Len(stack) - Len(Held(layout, f, f.n))
      /\ Second(stack).den = 1
  BY <1>2, <1>3, <1>5, RunningFacts, SlotAccess
<1>7. Truncated(Second(stack)) = a
  <2>1. a \div 1 = a /\ a >= 0
    BY <1>6
  <2> QED
    BY <1>6, <2>1 DEF Truncated
<1>8. stack' = SetAt(Popped(stack, Takes(Cur, layout.units)), a, v)
  BY <1>1, <1>4, <1>7
<1> HIDE DEF a
<1> QED
  BY <1>1, <1>2, <1>3, <1>4, <1>6, <1>8, StoreOn

LEMMA CheckInOrder ==
  ASSUME DisciplineInv, CHK, layout' = layout
  PROVE  InOrder'
<1> DEFINE v == IntegerValue(Top(stack).num)
           x == NumberIn(Cur.level, Cur.operand)
<1>1. Step("CHK") /\ Leave(Append(Popped(stack, 1), v))
  BY DEF CHK
<1>2. PICK f : Running(f)
  BY <1>1, StepRuns
<1>3. Cur.opcode = "CHK" /\ ~ Fault /\ Cur.level \in Int /\ Cur.operand \in Int
  BY <1>1, StepRuns, FetchType, RegisterBasics
<1>4. Cur.level <= Top(stack).num /\ Top(stack).num <= Cur.operand
  BY <1>3 DEF Fault, ChkFault
<1>5. x \in Operand /\ Fits(v, x, f, f.n)
  BY <1>3, <1>4 DEF NumberIn, Operand, Fits, IntegerValue
<1>6. Takes(Cur, layout.units) = 1 /\ Yields(Cur, Held(layout, f, f.n), layout.units) = << x >>
  BY <1>3, TakesOf, YieldsOf
<1> HIDE DEF v, x
<1>7. stack \in Seq(StackValue) /\ 1 \in 0 .. Len(stack)
  BY <1>2, <1>3, <1>6, RunningFacts, Supplied
<1>8. Left(layout, f, stack, Append(Popped(stack, 1), v), 1, << x >>)
  BY <1>5, <1>7, ReplacedLeft
<1>9. /\ stack' = Append(Popped(stack, 1), v) /\ ip' = ip + 1 /\ bp' = bp /\ program' = program
  BY <1>1 DEF Leave
<1> QED
  BY <1>2, <1>3, <1>5, <1>6, <1>8, <1>9, LeaveOn

LEMMA JumpInOrder ==
  ASSUME DisciplineInv, JMP \/ JPC, layout' = layout
  PROVE  InOrder'
<1>1. ASSUME NEW op \in {"JMP", "JPC"}, Step(op),
             NEW t, t = Takes(Cur, layout.units), stack' = IF op = "JPC" THEN Popped(stack, t) ELSE stack,
             op = "JMP" => t = 0, op = "JPC" => t = 1,
             ip' = Cur.operand \/ (op = "JPC" /\ ip' = ip + 1), bp' = bp, program' = program
      PROVE  InOrder'
  <2>1. PICK f : Running(f)
    BY <1>1, StepRuns
  <2>2. Cur.opcode = op
    BY <1>1, StepRuns
  <2>3. /\ Given(program, layout, stack) /\ Framed(program, layout, stack, f)
        /\ Cur = Waiting(program, f) /\ f.base[f.n] = bp /\ f.at[f.n] = ip
        /\ stack \in Seq(StackValue) /\ Len(stack) \in Nat
    BY <2>1, RunningFacts
  <2>4. t \in Nat
    BY <1>1
  <2>5. t \in 0 .. Len(stack)
    BY <1>1, <2>1, <2>2, <2>4, Supplied
  <2>6. Left(layout, f, stack, stack', t, << >>)
    <3>1. CASE op = "JPC"
      BY <1>1, <2>3, <2>5, <3>1, PoppedLeft
    <3>2. CASE op = "JMP"
      <4>1. stack' = stack /\ t = 0 /\ Len(<< >>) = 0
        BY <1>1, <3>2
      <4>2. Len(stack) - 0 + 0 = Len(stack)
        BY <2>3
      <4> QED
        BY <4>1, <4>2 DEF Left, Spares
    <3> QED
      BY <1>1, <3>1, <3>2
  <2>7. Standing(program, layout, stack', f.base[f.n], ip')
    BY <1>1, <2>2, <2>3, <2>6, JumpedOn
  <2>8. Standing(program', layout', stack', bp', ip')
    BY <1>1, <2>3, <2>7
  <2> QED
    BY <2>8 DEF InOrder
<1>2. CASE JMP
  <2>1. Step("JMP") /\ stack' = stack /\ ip' = Cur.operand /\ bp' = bp /\ program' = program
    BY <1>2 DEF JMP
  <2>2. Takes(Cur, layout.units) = 0
    BY <2>1, StepRuns, TakesOf
  <2> QED
    BY <1>1, <2>1, <2>2
<1>3. CASE JPC
  <2>1. /\ Step("JPC") /\ stack' = Popped(stack, 1) /\ bp' = bp /\ program' = program
        /\ ip' = Cur.operand \/ ip' = ip + 1
    BY <1>3 DEF JPC
  <2>2. Takes(Cur, layout.units) = 1
    BY <2>1, StepRuns, TakesOf
  <2> QED
    BY <1>1, <2>1, <2>2
<1> QED
  BY <1>2, <1>3

(* The arithmetic of offsets.                                              *)
LEMMA ProductBounds ==
  ASSUME NEW a \in Int, NEW low \in Int, NEW high \in Int, low <= a, a <= high, NEW c \in Nat
  PROVE  low * c <= a * c /\ a * c <= high * c
<1>1. (a - low) * c >= 0 /\ (high - a) * c >= 0
  <2>1. \A m \in Nat : m * c >= 0
    OBVIOUS
  <2> QED
    BY <2>1
<1>2. (a - low) * c = a * c - low * c /\ (high - a) * c = high * c - a * c
  OBVIOUS
<1>3. a * c \in Int /\ low * c \in Int /\ high * c \in Int
  OBVIOUS
<1> QED
  BY <1>1, <1>2, <1>3

LEMMA ComputedType ==
  ASSUME NEW op, NEW x \in Operand, NEW y \in Operand
  PROVE  Computed(op, x, y) \in Operand
<1>1. Anything \in Operand
  BY DEF Anything, Operand
<1>2. /\ x.low \in Int /\ x.high \in Int /\ y.low \in Int /\ y.high \in Int
  BY DEF Operand
<1>3. CASE op = "ADD" /\ x.kind \in {"number", "slot"} /\ y.kind = "number"
  <2>1. x.low + y.low \in Int /\ x.high + y.high \in Int
    BY <1>2
  <2> QED
    BY <1>3, <2>1 DEF Computed, Operand
<1>4. CASE op = "SUB" /\ x.kind = "number" /\ y.kind = "number"
  <2>1. x.low - y.high \in Int /\ x.high - y.low \in Int
    BY <1>2
  <2> QED
    BY <1>4, <2>1 DEF Computed, NumberIn, Operand
<1>5. CASE op = "MUL" /\ x.kind = "number" /\ y.kind = "number" /\ y.low = y.high /\ y.low >= 0
  <2>1. x.low * y.low \in Int /\ x.high * y.low \in Int
    BY <1>2
  <2> QED
    BY <1>5, <2>1 DEF Computed, NumberIn, Operand
<1> QED
  BY <1>1, <1>3, <1>4, <1>5 DEF Computed

LEMMA ComputedFits ==
  ASSUME NEW op, NEW x \in Operand, NEW y \in Operand, NEW f, NEW k,
         NEW v \in StackValue, NEW w \in StackValue, Fits(v, x, f, k), Fits(w, y, f, k),
         x.kind = "slot" => f.base[f.out[k][x.level + 1]] \in Nat
  PROVE  Fits(Arith(op, v, w), Computed(op, x, y), f, k)
<1> DEFINE a == v.num
           c == w.num
           b == f.base[f.out[k][x.level + 1]]
<1>1. /\ x.low \in Int /\ x.high \in Int /\ y.low \in Int /\ y.high \in Int
      /\ a \in Int /\ c \in Int
  BY DEF Operand, StackValue, Value
<1>2. y.kind = "number" => w.kind = "Integer" /\ y.low <= c /\ c <= y.high
  BY DEF Fits
<1>3. x.kind = "number" => v.kind = "Integer" /\ x.low <= a /\ a <= x.high
  BY DEF Fits
<1>4. x.kind = "slot" => /\ v.kind = "Integer" /\ b + x.low <= a /\ a <= b + x.high
                         /\ x.level + 1 \in 1 .. Len(f.out[k])
  BY DEF Fits
<1>5. ASSUME op \in {"ADD", "SUB", "MUL"}, v.kind = "Integer", w.kind = "Integer"
      PROVE  Arith(op, v, w) = IntegerValue(IntResult(op, a, c))
  BY <1>5 DEF Arith, UsesReal
<1>6. \A n : IntegerValue(n).kind = "Integer" /\ IntegerValue(n).num = n
  BY DEF IntegerValue
<1>7. CASE op = "ADD" /\ x.kind = "number" /\ y.kind = "number"
  <2>1. Arith(op, v, w).kind = "Integer" /\ Arith(op, v, w).num = a + c
    BY <1>2, <1>3, <1>5, <1>6, <1>7 DEF IntResult
  <2>2. /\ Computed(op, x, y).kind = "number" /\ Computed(op, x, y).low = x.low + y.low
        /\ Computed(op, x, y).high = x.high + y.high
    BY <1>7 DEF Computed, Operand
  <2>3. x.low + y.low <= a + c /\ a + c <= x.high + y.high
    BY <1>1, <1>2, <1>3, <1>7
  <2> QED
    BY <2>1, <2>2, <2>3 DEF Fits
<1>8. CASE op = "ADD" /\ x.kind = "slot" /\ y.kind = "number"
  <2>1. Arith(op, v, w).kind = "Integer" /\ Arith(op, v, w).num = a + c
    BY <1>2, <1>4, <1>5, <1>6, <1>8 DEF IntResult
  <2>2. /\ Computed(op, x, y).kind = "slot" /\ Computed(op, x, y).low = x.low + y.low
        /\ Computed(op, x, y).high = x.high + y.high /\ Computed(op, x, y).level = x.level
    BY <1>8 DEF Computed, Operand
  <2>3. b \in Nat
    BY <1>8
  <2>4. b + x.low <= a /\ a <= b + x.high /\ y.low <= c /\ c <= y.high
    BY <1>2, <1>4, <1>8
  <2> HIDE DEF a, b, c
  <2>5. b + (x.low + y.low) <= a + c /\ a + c <= b + (x.high + y.high)
    BY <1>1, <2>3, <2>4
  <2> QED
    BY <1>4, <1>8, <2>1, <2>2, <2>5 DEF Fits, b
<1>9. CASE op = "SUB" /\ x.kind = "number" /\ y.kind = "number"
  <2>1. Arith(op, v, w).kind = "Integer" /\ Arith(op, v, w).num = a - c
    BY <1>2, <1>3, <1>5, <1>6, <1>9 DEF IntResult
  <2>2. Computed(op, x, y) = NumberIn(x.low - y.high, x.high - y.low)
    BY <1>9 DEF Computed
  <2>3. x.low - y.high <= a - c /\ a - c <= x.high - y.low
    BY <1>1, <1>2, <1>3, <1>9
  <2> QED
    BY <2>1, <2>2, <2>3 DEF Fits, NumberIn
<1>10. CASE op = "MUL" /\ x.kind = "number" /\ y.kind = "number" /\ y.low = y.high /\ y.low >= 0
  <2>1. Arith(op, v, w).kind = "Integer" /\ Arith(op, v, w).num = a * c
    BY <1>2, <1>3, <1>5, <1>6, <1>10 DEF IntResult
  <2>2. Computed(op, x, y) = NumberIn(x.low * y.low, x.high * y.low)
    BY <1>10 DEF Computed
  <2>3. c = y.low /\ c \in Nat
    BY <1>1, <1>2, <1>10
  <2>4. x.low * c <= a * c /\ a * c <= x.high * c
    BY <1>1, <1>3, <1>10, <2>3, ProductBounds
  <2> QED
    BY <2>1, <2>2, <2>3, <2>4 DEF Fits, NumberIn
<1> DEFINE known ==
      \/ op = "ADD" /\ x.kind \in {"number", "slot"} /\ y.kind = "number"
      \/ op = "SUB" /\ x.kind = "number" /\ y.kind = "number"
      \/ op = "MUL" /\ x.kind = "number" /\ y.kind = "number" /\ y.low = y.high /\ y.low >= 0
<1>11. CASE ~ known
  <2>1. Computed(op, x, y) = Anything
    BY <1>11 DEF Computed
  <2> QED
    BY <2>1 DEF Fits, Anything
<1> QED
  BY <1>7, <1>8, <1>9, <1>10, <1>11

LEMMA OperationInOrder ==
  ASSUME DisciplineInv, Negate \/ BinaryComparison \/ Write \/ Discard, layout' = layout
  PROVE  InOrder'
<1>1. CASE Negate
  <2>1. Step("OPR") /\ OprName(Cur.operand) = "NEG"
        /\ Leave(Append(Popped(stack, 1), Negated(Top(stack))))
    BY <1>1 DEF Negate, StepOpr
  <2>2. PICK f : Running(f)
    BY <2>1, StepRuns
  <2>3. Cur.opcode = "OPR"
    BY <2>1, StepRuns
  <2>4. Takes(Cur, layout.units) = 1
        /\ Yields(Cur, Held(layout, f, f.n), layout.units) = << Anything >>
    BY <2>1, <2>3, TakesOf, YieldsOf
  <2> QED
    BY <2>1, <2>2, <2>3, <2>4, AnythingOn
<1>2. CASE BinaryComparison
  <2> DEFINE v == Compare(OprName(Cur.operand), Second(stack), Top(stack))
  <2>1. Step("OPR") /\ OprName(Cur.operand) \in CompareOps /\ Leave(Append(Popped(stack, 2), v))
    BY <1>2 DEF BinaryComparison, StepOpr
  <2> HIDE DEF v
  <2>2. PICK f : Running(f)
    BY <2>1, StepRuns
  <2>3. Cur.opcode = "OPR"
    BY <2>1, StepRuns
  <2>4. Takes(Cur, layout.units) = 2
        /\ Yields(Cur, Held(layout, f, f.n), layout.units) = << Anything >>
    BY <2>1, <2>3, TakesOf, YieldsOf
  <2> QED
    BY <2>1, <2>2, <2>3, <2>4, AnythingOn
<1>3. CASE Write \/ Discard
  <2>1. /\ Step("OPR") /\ OprName(Cur.operand) \in {"WRT", "WRTLN", "POP"}
        /\ stack' = Popped(stack, 1) /\ ip' = ip + 1 /\ bp' = bp /\ program' = program
    BY <1>3 DEF Write, Discard, StepOpr, Leave
  <2>2. PICK f : Running(f)
    BY <2>1, StepRuns
  <2>3. Cur.opcode = "OPR"
    BY <2>1, StepRuns
  <2>4. Takes(Cur, layout.units) = 1 /\ Yields(Cur, Held(layout, f, f.n), layout.units) = << >>
    BY <2>1, <2>3, TakesOf, YieldsOf
  <2>5. stack \in Seq(StackValue) /\ 1 \in 0 .. Len(stack)
    BY <2>2, <2>3, <2>4, RunningFacts, Supplied
  <2>6. Left(layout, f, stack, Popped(stack, 1), 1, << >>)
    BY <2>5, PoppedLeft
  <2> QED
    BY <2>1, <2>2, <2>3, <2>4, <2>6, LeaveOn
<1> QED
  BY <1>1, <1>2, <1>3

LEMMA ArithmeticInOrder ==
  ASSUME DisciplineInv, BinaryArithmetic, layout' = layout
  PROVE  InOrder'
<1> DEFINE op == OprName(Cur.operand)
           v == Arith(op, Second(stack), Top(stack))
<1>1. Step("OPR") /\ op \in ArithOps /\ Leave(Append(Popped(stack, 2), v))
  BY DEF BinaryArithmetic, StepOpr
<1>2. PICK f : Running(f)
  BY <1>1, StepRuns
<1>3. Cur.opcode = "OPR"
  BY <1>1, StepRuns
<1> DEFINE h == Held(layout, f, f.n)
           x == Second(h)
           y == Top(h)
           z == Computed(op, x, y)
<1>4. Takes(Cur, layout.units) = 2 /\ Yields(Cur, h, layout.units) = << z >>
  BY <1>1, <1>3, TakesOf, YieldsOf
<1>5. /\ stack \in Seq(StackValue) /\ 2 \in 0 .. Len(stack) /\ 2 <= Len(h)
      /\ Len(stack) \in Nat /\ Len(h) \in Nat /\ h \in Seq(Operand)
      /\ Given(program, layout, stack) /\ Framed(program, layout, stack, f) /\ ~ Entering(f, f.n)
  BY <1>2, <1>3, <1>4, RunningFacts, Supplied
<1>6. Fits(Top(stack), y, f, f.n) /\ Fits(Second(stack), x, f, f.n)
  BY <1>5, TopsFit
<1>7. x \in Operand /\ y \in Operand /\ Top(stack) \in StackValue /\ Second(stack) \in StackValue
  <2>1. /\ Len(h) \in 1 .. Len(h) /\ Len(h) - 1 \in 1 .. Len(h)
        /\ Len(stack) \in 1 .. Len(stack) /\ Len(stack) - 1 \in 1 .. Len(stack)
    BY <1>5
  <2> HIDE DEF h
  <2> QED
    BY <1>5, <2>1, ElementOfSeq DEF Top, Second
<1>8. x.kind = "slot" => f.base[f.out[f.n][x.level + 1]] \in Nat
  <2> HAVE x.kind = "slot"
  <2>1. x.level + 1 \in 1 .. Len(f.out[f.n])
    BY <1>6 DEF Fits
  <2>2. f.n \in 1 .. f.n
    BY <1>5, RunningFrame
  <2>3. f.out[f.n][x.level + 1] \in 1 .. f.n
    BY <1>5, <2>1, <2>2 DEF Framed, Displayed
  <2> QED
    BY <1>5, <2>3 DEF Framed, FrameTypes
<1> HIDE DEF x, y, h
<1>9. Fits(v, z, f, f.n) /\ z \in Operand
  BY <1>6, <1>7, <1>8, ComputedFits, ComputedType
<1> HIDE DEF v, z
<1>10. Left(layout, f, stack, Append(Popped(stack, 2), v), 2, << z >>)
  BY <1>5, <1>9, ReplacedLeft
<1>11. stack' = Append(Popped(stack, 2), v) /\ ip' = ip + 1 /\ bp' = bp /\ program' = program
  BY <1>1 DEF Leave
<1> QED
  BY <1>2, <1>3, <1>4, <1>9, <1>10, <1>11, LeaveOn DEF h

(* INT, CAL and RET.                                                       *)
LEMMA EnterInOrder ==
  ASSUME DisciplineInv, INT, layout' = layout
  PROVE  InOrder'
<1> DEFINE z == [k \in 1 .. Cur.operand - HeaderSize |-> IntegerValue(0)]
<1>1. Step("INT") /\ stack' = stack \o z /\ ip' = ip + 1 /\ bp' = bp /\ program' = program
  BY DEF INT, Leave
<1>2. PICK f : Running(f)
  BY <1>1, StepRuns
<1>3. Cur.opcode = "INT"
  BY <1>1, StepRuns
<1>4. /\ Given(program, layout, stack) /\ Framed(program, layout, stack, f)
      /\ Cur = Waiting(program, f) /\ f.base[f.n] = bp /\ f.at[f.n] = ip
      /\ stack \in Seq(StackValue) /\ Len(stack) \in Nat
      /\ Obeys(program, layout, ip) /\ UnitAt(layout, ip) = layout.units[f.unit[f.n]]
  BY <1>2, RunningFacts
<1>5. Cur.operand \in Nat /\ Cur.operand >= 3
  <2>1. Cur.operand = layout.units[f.unit[f.n]].size
    BY <1>3, <1>4 DEF Obeys, Cur
  <2>2. f.unit[f.n] \in DOMAIN layout.units
    BY <1>4, RunningFrame DEF Framed, FrameTypes
  <2> QED
    BY <1>4, <2>1, <2>2, UnitFacts DEF Given
<1>6. z \in Seq(StackValue) /\ Len(z) = Cur.operand - 3
  <2>1. IntegerValue(0) \in StackValue
    <3>1. 0 \in Int32
      BY ConstantBounds DEF Int32, IntMin
    <3> QED
      BY <3>1, IntegerValueType
  <2>2. Cur.operand - HeaderSize = Cur.operand - 3 /\ Cur.operand - 3 \in Nat
    BY <1>5 DEF HeaderSize
  <2>3. z \in [1 .. Cur.operand - 3 -> StackValue]
    BY <2>1, <2>2
  <2> HIDE DEF z
  <2> QED
    BY <2>2, <2>3
<1> HIDE DEF z
<1>7. Len(stack') = Len(stack) + (Cur.operand - 3) /\ \A i \in 1 .. Len(stack) : stack'[i] = stack[i]
  <2>1. /\ Len(stack \o z) = Len(stack) + Len(z)
        /\ \A i \in 1 .. Len(stack) + Len(z) :
             (stack \o z)[i] = IF i <= Len(stack) THEN stack[i] ELSE z[i - Len(stack)]
    BY <1>4, <1>6, ConcatProperties
  <2>2. \A i \in 1 .. Len(stack) : i \in 1 .. Len(stack) + Len(z) /\ i <= Len(stack)
    BY <1>4, <1>5, <1>6
  <2> QED
    BY <1>1, <1>6, <2>1, <2>2
<1>8. Spares(layout, f, stack, stack', Len(stack))
  BY <1>7 DEF Spares
<1>9. Standing(program, layout, stack', f.base[f.n], f.at[f.n] + 1)
  BY <1>3, <1>4, <1>7, <1>8, EnteredOn
<1>10. Standing(program', layout', stack', bp', ip')
  BY <1>1, <1>4, <1>9
<1> QED
  BY <1>10 DEF InOrder

LEMMA CallInOrder ==
  ASSUME DisciplineInv, CAL, layout' = layout
  PROVE  InOrder'
<1> DEFINE b == AsInt(FrameBase(Cur))
           z == << IntegerValue(b), IntegerValue(AsInt(bp)), IntegerValue(ip + 1) >>
<1>1. /\ Step("CAL") /\ stack' = stack \o z /\ bp' = Len(stack) /\ ip' = Cur.operand
      /\ program' = program
  BY DEF CAL
<1>2. PICK f : Running(f)
  BY <1>1, StepRuns
<1>3. Cur.opcode = "CAL" /\ TypeOK
  BY <1>1, StepRuns
<1>4. /\ Given(program, layout, stack) /\ Framed(program, layout, stack, f)
      /\ Cur = Waiting(program, f) /\ f.base[f.n] = bp /\ f.at[f.n] = ip
      /\ stack \in Seq(StackValue) /\ Len(stack) \in Nat
      /\ Obeys(program, layout, ip) /\ UnitAt(layout, ip) = layout.units[f.unit[f.n]]
  BY <1>2, RunningFacts
<1>5. f.n \in 1 .. f.n /\ f.n \in Nat
  BY <1>4, RunningFrame
<1>6. Cur.level \in 0 .. Len(f.out[f.n]) - 1 /\ Len(f.out[f.n]) \in Nat
  <2>1. Cur.level \in Levels(layout.units[f.unit[f.n]])
    BY <1>3, <1>4 DEF Obeys, Cur
  <2>2. Len(f.out[f.n]) = Len(layout.units[f.unit[f.n]].chain) /\ Len(f.out[f.n]) \in Nat
    BY <1>4, <1>5, LenProperties DEF Framed, FrameTypes, Displayed, Chain
  <2> QED
    BY <2>1, <2>2 DEF Levels
<1> DEFINE q == f.out[f.n][Cur.level + 1]
<1>7. FrameBase(Cur) = f.base[q]
  <2>1. LeadsOut(stack, f, f.n, Cur.level)
    BY <1>4, <1>5, <1>6, WalkLeadsOut
  <2> QED
    BY <1>4, <2>1 DEF LeadsOut, FrameBase
<1>8. q \in 1 .. f.n
  <2>1. Cur.level + 1 \in 1 .. Len(f.out[f.n])
    BY <1>6
  <2> QED
    BY <1>4, <1>5, <2>1 DEF Framed, Displayed
<1>9. \A k \in 1 .. f.n : f.base[k] \in Nat /\ f.base[k] <= IntMax
  <2> TAKE k \in 1 .. f.n
  <2>1. f.base[k] + 3 <= Len(stack)
    BY <1>4, FrameOnStack
  <2>2. f.base[k] \in Nat
    BY <1>4 DEF Framed, FrameTypes
  <2>3. Len(stack) <= IntMax
    BY <1>4, ConstantBounds DEF Given
  <2> QED
    BY <1>4, <2>1, <2>2, <2>3, ConstantBounds
<1>10. AsInt(FrameBase(Cur)) = f.base[q] /\ AsInt(bp) = f.base[f.n]
  <2>1. f.base[q] \in Nat /\ f.base[q] <= IntMax /\ f.base[f.n] \in Nat /\ f.base[f.n] <= IntMax
    BY <1>5, <1>8, <1>9
  <2> HIDE DEF q
  <2> QED
    BY <1>4, <1>7, <2>1, ConstantBounds DEF AsInt
<1>11. /\ z[1] = IntegerValue(f.base[q]) /\ z[2] = IntegerValue(f.base[f.n])
       /\ z[3] = IntegerValue(f.at[f.n] + 1)
  BY <1>4, <1>10
<1> DEFINE S == {IntegerValue(b), IntegerValue(AsInt(bp)), IntegerValue(ip + 1)} \cup StackValue
<1>12. z \in Seq(S) /\ Len(z) = 3
  OBVIOUS
<1>13. stack \in Seq(S)
  BY <1>4, SeqMonotonic
<1> HIDE DEF z, S
<1>14. /\ Len(stack \o z) = Len(stack) + 3
       /\ \A i \in 1 .. Len(stack) + 3 :
            (stack \o z)[i] = IF i <= Len(stack) THEN stack[i] ELSE z[i - Len(stack)]
  <2>1. /\ Len(stack \o z) = Len(stack) + Len(z)
        /\ \A i \in 1 .. Len(stack) + Len(z) :
             (stack \o z)[i] = IF i <= Len(stack) THEN stack[i] ELSE z[i - Len(stack)]
    BY <1>12, <1>13, ConcatProperties
  <2>2. Len(stack) + Len(z) = Len(stack) + 3
    BY <1>12
  <2> QED
    BY <2>1, <2>2
<1>15. /\ \A i \in 1 .. Len(stack) : i \in 1 .. Len(stack) + 3 /\ i <= Len(stack)
       /\ \A j \in 1 .. 3 : /\ Len(stack) + j \in 1 .. Len(stack) + 3 /\ ~ (Len(stack) + j <= Len(stack))
                            /\ (Len(stack) + j) - Len(stack) = j
  BY <1>4
<1>16. \A j \in 1 .. 3 : (stack \o z)[Len(stack) + j] = z[j]
  BY <1>14, <1>15
<1>17. /\ (stack \o z)[Len(stack) + 1] = z[1] /\ (stack \o z)[Len(stack) + 2] = z[2]
       /\ (stack \o z)[Len(stack) + 3] = z[3]
  <2>1. 1 \in 1 .. 3 /\ 2 \in 1 .. 3 /\ 3 \in 1 .. 3
    OBVIOUS
  <2> HIDE DEF q, b
  <2> QED
    BY ONLY <1>16, <2>1
<1>18. Called(stack, f, Cur, stack')
  BY <1>1, <1>11, <1>14, <1>15, <1>17 DEF Called
<1>19. Standing(program, layout, stack', Len(stack), Cur.operand)
  BY <1>3, <1>4, <1>18, CalledOn
<1>20. Standing(program', layout', stack', bp', ip')
  BY <1>1, <1>19
<1> QED
  BY <1>20 DEF InOrder

LEMMA ReturnInOrder ==
  ASSUME DisciplineInv, RET, layout' = layout
  PROVE  InOrder'
<1> DEFINE c == CleanupBase(Cur)
           r == IF Cur.operand = 1 THEN << Top(stack) >> ELSE << >>
<1>1. /\ Step("RET") /\ program' = program
      /\ IF bp = 0 /\ DynamicLink.num = 0 THEN status' = "halted"
         ELSE /\ stack' = PopTo(stack, c) \o r
              /\ bp' = AsSize(DynamicLink.num) /\ ip' = AsSize(ReturnAddress.num)
  BY DEF RET
<1>2. PICK f : Running(f)
  BY <1>1, StepRuns
<1>3. Cur.opcode = "RET" /\ TypeOK /\ Fetching
  BY <1>1, StepRuns
<1>4. /\ Given(program, layout, stack) /\ Framed(program, layout, stack, f)
      /\ Cur = Waiting(program, f) /\ f.base[f.n] = bp /\ f.at[f.n] = ip
      /\ stack \in Seq(StackValue) /\ Len(stack) \in Nat
      /\ Obeys(program, layout, ip) /\ UnitAt(layout, ip) = layout.units[f.unit[f.n]]
  BY <1>2, RunningFacts
<1>5. f.n \in 1 .. f.n /\ f.n \in Nat /\ f.unit[f.n] \in DOMAIN layout.units
  BY <1>4, RunningFrame DEF Framed, FrameTypes
<1>6. bp \in Nat /\ bp + 3 <= Len(stack) /\ (f.n = 1 <=> bp = 0) /\ 0 <= Low(layout, f, f.n)
  BY <1>4, <1>5, RunningFrame, FrameOnStack
<1>7. Len(stack) <= MaxStackSize
  BY <1>4 DEF Given
<1>8. (bp + 1) % SizeModulus = bp + 1 /\ (bp + 2) % SizeModulus = bp + 2
  <2>1. bp + 1 \in 0 .. SizeModulus - 1 /\ bp + 2 \in 0 .. SizeModulus - 1
    BY <1>4, <1>6, <1>7, ConstantBounds
  <2> QED
    BY <2>1, ConstantBounds
<1>9. DynamicLink = stack[bp + 2] /\ ReturnAddress = stack[bp + 3]
  <2>1. (bp + 1) + 1 = bp + 2 /\ (bp + 2) + 1 = bp + 3
    BY <1>6
  <2> QED
    BY <1>8, <2>1 DEF DynamicLink, ReturnAddress, At
<1>10. Linked(stack, f, f.n)
  BY <1>4, <1>5 DEF Framed
<1>11. \A n : IntegerValue(n).num = n
  BY DEF IntegerValue
<1>12. CASE f.n = 1
  <2>1. DynamicLink = IntegerValue(0)
    BY <1>4, <1>9, <1>10, <1>12 DEF Linked
  <2>2. status' = "halted"
    BY <1>1, <1>6, <1>11, <1>12, <2>1
  <2> QED
    BY <2>2 DEF InOrder
<1>13. CASE f.n # 1
  <2>1. /\ DynamicLink = IntegerValue(f.base[f.n - 1])
        /\ ReturnAddress = IntegerValue(f.at[f.n - 1] + 1)
    BY <1>4, <1>9, <1>10, <1>13 DEF Linked
  <2>2. /\ stack' = PopTo(stack, c) \o r
        /\ bp' = AsSize(f.base[f.n - 1]) /\ ip' = AsSize(f.at[f.n - 1] + 1)
    BY <1>1, <1>6, <1>11, <1>13, <2>1
  <2>3. f.base[f.n - 1] \in Nat /\ f.at[f.n - 1] \in Nat
    <3>1. f.n - 1 \in 1 .. f.n
      BY <1>5, <1>13
    <3>2. f.base[f.n - 1] \in Nat /\ f.at[f.n - 1] \in DOMAIN layout.owner
      BY <1>4, <3>1 DEF Framed, FrameTypes
    <3> QED
      BY <1>4, <3>2, AddressFacts DEF Given
  <2>4. bp' = f.base[f.n - 1] /\ ip' = f.at[f.n - 1] + 1
    BY <2>2, <2>3 DEF AsSize
  <2>5. /\ Cur.level = Params(layout, f, f.n) /\ Cur.operand \in {0, 1}
    <3>1. Cur.level = layout.units[f.unit[f.n]].params /\ Cur.operand = layout.units[f.unit[f.n]].result
      BY <1>3, <1>4 DEF Obeys, Cur
    <3>2. layout.units[f.unit[f.n]].result \in {0, 1}
      BY <1>4, <1>5, UnitFacts DEF Given
    <3> QED
      BY <3>1, <3>2 DEF Params
  <2>6. c = Low(layout, f, f.n) /\ Params(layout, f, f.n) \in Nat
    BY <1>4, <1>5, <2>5, FrameFacts DEF CleanupBase, Low
  <2>7. c \in 0 .. Len(stack)
    <3>1. c = bp - Params(layout, f, f.n)
      BY <1>4, <2>6 DEF Low
    <3> QED
      BY <1>4, <1>6, <2>6, <3>1
  <2> HIDE DEF c
  <2> DEFINE d == PopTo(stack, c)
             S == StackValue \cup {Top(stack)}
  <2>8. d \in Seq(StackValue) /\ Len(d) = c /\ \A i \in 1 .. c : d[i] = stack[i]
    BY <1>4, <2>7, PopToProperties
  <2> HIDE DEF d
  <2>9. d \in Seq(S)
    BY <2>8, SeqMonotonic
  <2>10. r \in Seq(S) /\ Len(r) = Cur.operand
    <3>1. << Top(stack) >> \in Seq(S) /\ Len(<< Top(stack) >>) = 1
      <4>1. Top(stack) \in S
        OBVIOUS
      <4> QED
        BY <4>1, Singleton
    <3>2. << >> \in Seq(S) /\ Len(<< >>) = 0
      OBVIOUS
    <3>3. CASE Cur.operand = 1
      BY <3>1, <3>3
    <3>4. CASE Cur.operand = 0
      BY <3>2, <3>4
    <3> QED
      BY <2>5, <3>3, <3>4
  <2> HIDE DEF r, S
  <2>11. /\ Len(d \o r) = Len(d) + Len(r)
         /\ \A i \in 1 .. Len(d) + Len(r) : (d \o r)[i] = IF i <= Len(d) THEN d[i] ELSE r[i - Len(d)]
    BY <2>9, <2>10, ConcatProperties
  <2>12. stack' = d \o r
    BY <2>2 DEF d
  <2>13. Len(stack') = Low(layout, f, f.n) + Cur.operand
    BY <2>6, <2>8, <2>10, <2>11, <2>12
  <2>14. \A i \in 1 .. Low(layout, f, f.n) : stack'[i] = stack[i]
    <3>1. \A i \in 1 .. c : i \in 1 .. Len(d) + Len(r) /\ i <= Len(d)
      BY <2>5, <2>7, <2>8, <2>10
    <3> QED
      BY <2>6, <2>8, <2>11, <2>12, <3>1
  <2>15. Spares(layout, f, stack, stack', Low(layout, f, f.n))
    BY <2>14 DEF Spares
  <2>16. Standing(program, layout, stack', f.base[f.n - 1], f.at[f.n - 1] + 1)
    BY <1>3, <1>4, <1>13, <2>13, <2>15, ReturnedOn
  <2>17. Standing(program', layout', stack', bp', ip')
    BY <1>1, <2>4, <2>16
  <2> QED
    BY <2>17 DEF InOrder
<1> QED
  BY <1>12, <1>13

-----------------------------------------------------------------------------
(* The invariant.                                                          *)

LEMMA InitDiscipline == DisciplineInit => DisciplineInv
<1> SUFFICES ASSUME DisciplineInit PROVE DisciplineInv
  OBVIOUS
<1>1. /\ program \in Program /\ Len(program.code) <= IntMax /\ Ready
      /\ Disciplined(program, layout)
  BY DEF DisciplineInit
<1>2. stack = << IntegerValue(0), IntegerValue(0), IntegerValue(0) >>
  BY <1>1 DEF Ready
<1>3. stack \in Seq(StackValue) /\ Len(stack) = 3
  <2>1. 0 \in Int32
    BY ConstantBounds DEF Int32, IntMin
  <2>2. IntegerValue(0) \in StackValue
    BY <2>1, IntegerValueType
  <2> QED
    BY <1>2, <2>2
<1>4. TypeOK
  <2>1. 0 \in Register
    BY ConstantBounds, RegisterBasics
  <2> QED
    BY <1>1, <1>3, <2>1, ConstantBounds, InputsAssumption DEF Ready, TypeOK, Status
<1>5. Given(program, layout, stack)
  BY <1>1, <1>4 DEF TypeOK, Program, Given
<1>6. Standing(program, layout, stack, 0, 0)
  BY <1>2, <1>5, StartStands
<1> QED
  BY <1>1, <1>4, <1>6 DEF DisciplineInv, InOrder, Ready

LEMMA NextDiscipline ==
  ASSUME DisciplineInv, [Next /\ UNCHANGED layout]_disciplineVars
  PROVE  DisciplineInv'
<1>1. [Next]_vars /\ layout' = layout
  BY DEF disciplineVars, vars
<1>2. TypeOK'
  BY <1>1, NextTypeOK DEF DisciplineInv
<1>3. Disciplined(program, layout)'
  <2>1. program' = program
    BY <1>1 DEF Next, Execute, Stopped, vars, Leave, PushValue, INT, LIT, LITB, LITS, LITR, LOD,
      STO, ADDR, LODI, STOI, CHK, JMP, JPC, CAL, RET, Negate, BinaryArithmetic, BinaryComparison,
      Write, Discard, Read, Throw, RunOff
  <2>2. Disciplined(program', layout')
    BY <1>1, <2>1 DEF DisciplineInv
  <2> QED
    BY <2>2
<1>4. InOrder'
  <2>1. CASE INT
    BY <1>1, <2>1, EnterInOrder
  <2>2. CASE LIT \/ LITB \/ LITS \/ LITR
    BY <1>1, <2>2, LiteralInOrder
  <2>3. CASE LOD \/ ADDR \/ LODI
    BY <1>1, <2>3, LoadInOrder
  <2>4. CASE STO \/ STOI
    BY <1>1, <2>4, StoreInOrder
  <2>5. CASE CHK
    BY <1>1, <2>5, CheckInOrder
  <2>6. CASE JMP \/ JPC
    BY <1>1, <2>6, JumpInOrder
  <2>7. CASE CAL
    BY <1>1, <2>7, CallInOrder
  <2>8. CASE RET
    BY <1>1, <2>8, ReturnInOrder
  <2>9. CASE Negate \/ BinaryComparison \/ Write \/ Discard
    BY <1>1, <2>9, OperationInOrder
  <2>10. CASE BinaryArithmetic
    BY <1>1, <2>10, ArithmeticInOrder
  <2>11. CASE Read
    BY <1>1, <2>11, ReadInOrder
  <2>12. CASE Throw \/ RunOff
    BY <2>12 DEF Throw, RunOff, InOrder
  <2>13. CASE UNCHANGED vars
    <3>1. /\ status' = status /\ program' = program /\ stack' = stack /\ bp' = bp /\ ip' = ip
      BY <2>13 DEF vars
    <3> QED
      BY <1>1, <3>1 DEF DisciplineInv, InOrder
  <2> QED
    BY <1>1, <2>1, <2>2, <2>3, <2>4, <2>5, <2>6, <2>7, <2>8, <2>9, <2>10, <2>11, <2>12, <2>13
    DEF Next, Execute, Stopped
<1> QED
  BY <1>2, <1>3, <1>4 DEF DisciplineInv

-----------------------------------------------------------------------------
(* The activations are the frames.                                         *)

(* The bases below b, when g gives those below smaller ones.               *)
BasesBelow(b, g) ==
  {b} \cup (IF b = 0 \/ ~Within(stack, b + 1) THEN {}
            ELSE IF Saved(b, 1) \in 0 .. b - 1 THEN g[Saved(b, 1)] ELSE {})

BasesRun(n, g) == g = [b \in 0 .. n |-> BasesBelow(b, g)]

LEMMA BasesAgree ==
  ASSUME NEW b \in Nat, NEW g, NEW h, \A c \in 0 .. b - 1 : h[c] = g[c]
  PROVE  BasesBelow(b, h) = BasesBelow(b, g)
BY DEF BasesBelow

LEMMA BasesExist ==
  ASSUME NEW n \in Nat
  PROVE  \E g : BasesRun(n, g)
<1> DEFINE S == {m \in Nat : \E g : BasesRun(m, g)}
<1>1. 0 \in S
  <2> DEFINE g == [b \in 0 .. 0 |-> BasesBelow(b, << >>)]
  <2>1. \A b \in 0 .. 0 : g[b] = BasesBelow(b, g)
    <3> TAKE b \in 0 .. 0
    <3>1. g[b] = BasesBelow(b, << >>)
      OBVIOUS
    <3> HIDE DEF g
    <3> QED
      BY <3>1, BasesAgree
  <2>2. g = [b \in 0 .. 0 |-> g[b]]
    OBVIOUS
  <2> HIDE DEF g
  <2>3. BasesRun(0, g)
    BY <2>1, <2>2 DEF BasesRun
  <2> QED
    BY <2>3
<1>2. ASSUME NEW m \in Nat, m \in S
      PROVE  m + 1 \in S
  <2>1. PICK g : BasesRun(m, g)
    BY <1>2
  <2> DEFINE h == [b \in 0 .. m + 1 |-> IF b = m + 1 THEN BasesBelow(b, g) ELSE g[b]]
  <2>2. \A b \in 0 .. m : h[b] = g[b] /\ g[b] = BasesBelow(b, g)
    <3> TAKE b \in 0 .. m
    <3>1. b \in 0 .. m + 1 /\ b # m + 1
      OBVIOUS
    <3>2. g[b] = BasesBelow(b, g)
      BY <2>1 DEF BasesRun
    <3> QED
      BY <3>1, <3>2
  <2>3. h[m + 1] = BasesBelow(m + 1, g)
    OBVIOUS
  <2>4. h = [b \in 0 .. m + 1 |-> h[b]]
    OBVIOUS
  <2> HIDE DEF h
  <2>5. ASSUME NEW b \in 0 .. m + 1
        PROVE  h[b] = BasesBelow(b, h)
    <3>1. \A c \in 0 .. b - 1 : h[c] = g[c]
      BY <2>2
    <3>2. BasesBelow(b, h) = BasesBelow(b, g)
      BY <3>1, BasesAgree
    <3> QED
      BY <2>2, <2>3, <3>2
  <2>6. BasesRun(m + 1, h)
    BY <2>4, <2>5 DEF BasesRun
  <2> QED
    BY <2>6
<1>3. Nat \subseteq S
  <2> HIDE DEF S
  <2> QED
    BY <1>1, <1>2, NaturalsIn
<1> QED
  BY <1>3

LEMMA ActiveDef ==
  ASSUME Len(stack) \in Nat, bp \in 0 .. Len(stack)
  PROVE  \E g : BasesRun(Len(stack), g) /\ ActiveBases = g[bp]
<1> DEFINE g == CHOOSE h : BasesRun(Len(stack), h)
<1>1. BasesRun(Len(stack), g)
  BY BasesExist
<1>2. ActiveBases = g[bp]
  BY DEF ActiveBases, BasesRun, BasesBelow
<1> HIDE DEF g
<1> QED
  BY <1>1, <1>2

(* The header of a frame tells of the frames below it.                     *)
HeaderTells(f, k) ==
  /\ Within(stack, f.base[k] + 1)
  /\ Saved(f.base[k], 0) = (IF k = 1 THEN 0 ELSE f.base[f.out[k][2]])
  /\ Saved(f.base[k], 1) = (IF k = 1 THEN 0 ELSE f.base[k - 1])
  /\ Saved(f.base[k], 2) = (IF k = 1 THEN 0 ELSE f.at[k - 1] + 1)

LEMMA HeaderFacts ==
  ASSUME NEW f, Given(program, layout, stack), Framed(program, layout, stack, f),
         NEW k \in 1 .. f.n
  PROVE  HeaderTells(f, k)
<1> DEFINE b == f.base[k]
           x == IF k = 1 THEN 0 ELSE f.base[f.out[k][2]]
           y == IF k = 1 THEN 0 ELSE f.base[k - 1]
           z == IF k = 1 THEN 0 ELSE f.at[k - 1] + 1
<1>1. b \in Nat /\ b + 3 <= Len(stack) /\ Len(stack) \in Nat
  BY FrameFacts, FrameOnStack
<1>2. /\ stack[b + 1] = IntegerValue(x) /\ stack[b + 2] = IntegerValue(y)
      /\ stack[b + 3] = IntegerValue(z)
  BY DEF Framed, Linked
<1> HIDE DEF b, x, y, z
<1>3. Within(stack, b + 1)
  BY <1>1 DEF Within
<1>4. b + 0 + 1 = b + 1 /\ b + 1 + 1 = b + 2 /\ b + 2 + 1 = b + 3
  BY <1>1
<1>5. At(stack, b + 0) = IntegerValue(x) /\ At(stack, b + 1) = IntegerValue(y)
      /\ At(stack, b + 2) = IntegerValue(z)
  BY <1>2, <1>4 DEF At
<1>6. Saved(b, 0) = x /\ Saved(b, 1) = y /\ Saved(b, 2) = z
  BY <1>5 DEF Saved, IntegerValue
<1> QED
  BY <1>3, <1>6 DEF HeaderTells, b, x, y, z

BasesUpTo(f, k) == {f.base[j] : j \in 1 .. k}

LEMMA ActiveFrames ==
  ASSUME NEW f, Given(program, layout, stack), Framed(program, layout, stack, f),
         f.base[f.n] = bp
  PROVE  ActiveBases = BasesUpTo(f, f.n)
<1>1. f.n \in Nat /\ f.n >= 1 /\ Len(stack) \in Nat /\ f.n \in 1 .. f.n /\ 1 \in 1 .. f.n
  BY RunningFrame
<1>2. ASSUME NEW k \in 1 .. f.n
      PROVE  f.base[k] \in 0 .. Len(stack)
  <2>1. f.base[k] \in Nat
    BY FrameFacts
  <2>2. f.base[k] + 3 <= Len(stack)
    BY FrameOnStack
  <2> QED
    BY <1>1, <2>1, <2>2
<1>3. PICK g : BasesRun(Len(stack), g) /\ ActiveBases = g[bp]
  BY <1>1, <1>2, ActiveDef
<1>4. \A k \in 1 .. f.n : g[f.base[k]] = BasesBelow(f.base[k], g)
  BY <1>2, <1>3 DEF BasesRun
<1> DEFINE S == {d \in Nat : d + 1 <= f.n => g[f.base[d + 1]] = BasesUpTo(f, d + 1)}
<1>5. 0 \in S
  <2>1. f.base[1] = 0
    BY DEF Framed, Outermost
  <2>2. g[f.base[1]] = {0}
    BY <1>1, <1>4, <2>1 DEF BasesBelow
  <2>3. BasesUpTo(f, 1) = {0}
    BY <2>1 DEF BasesUpTo
  <2> QED
    BY <2>2, <2>3
<1>6. ASSUME NEW d \in Nat, d \in S
      PROVE  d + 1 \in S
  <2> SUFFICES ASSUME d + 1 + 1 <= f.n
               PROVE  g[f.base[d + 1 + 1]] = BasesUpTo(f, d + 1 + 1)
    OBVIOUS
  <2> DEFINE m == d + 1
  <2>1. m \in 1 .. f.n /\ m + 1 \in 1 .. f.n /\ m < m + 1 /\ m + 1 # 1 /\ (m + 1) - 1 = m /\ m \in Nat
    BY <1>1
  <2>2. g[f.base[m]] = BasesUpTo(f, m)
    BY <1>6, <2>1
  <2> HIDE DEF m
  <2>3. Within(stack, f.base[m + 1] + 1) /\ Saved(f.base[m + 1], 1) = f.base[m]
    <3>1. HeaderTells(f, m + 1)
      BY <2>1, HeaderFacts
    <3> QED
      BY <2>1, <3>1 DEF HeaderTells
  <2>4. f.base[m] < f.base[m + 1]
    BY <2>1, FramesApart
  <2>5. f.base[m] \in 0 .. f.base[m + 1] - 1 /\ f.base[m + 1] # 0
    BY <1>2, <2>1, <2>4
  <2>6. g[f.base[m + 1]] = {f.base[m + 1]} \cup BasesUpTo(f, m)
    BY <1>4, <2>1, <2>2, <2>3, <2>5 DEF BasesBelow
  <2>7. BasesUpTo(f, m + 1) = {f.base[m + 1]} \cup BasesUpTo(f, m)
    <3>1. 1 .. m + 1 = {m + 1} \cup 1 .. m
      BY <2>1
    <3> QED
      BY <3>1 DEF BasesUpTo
  <2> QED
    BY <2>6, <2>7 DEF m
<1>7. Nat \subseteq S
  <2> HIDE DEF S
  <2> QED
    BY <1>5, <1>6, NaturalsIn
<1>8. f.n - 1 \in Nat /\ (f.n - 1) + 1 = f.n
  BY <1>1
<1>9. f.n - 1 \in S
  BY <1>7, <1>8
<1> QED
  BY <1>3, <1>8, <1>9

(* The unit a header tells is the one the frame is of.                     *)
LEMMA FrameUnit ==
  ASSUME NEW f, Given(program, layout, stack), Framed(program, layout, stack, f),
         NEW k \in 1 .. f.n
  PROVE  /\ UnitOf(f.base[k]) = f.unit[k] /\ FrameOf(f.base[k]) = layout.units[f.unit[k]]
         /\ k # 1 => k - 1 \in 1 .. f.n - 1 /\ CallOf(f.base[k]) = program.code[f.at[k - 1] + 1]
<1>1. k = 1 <=> f.base[k] = 0
  BY FrameOnStack
<1>2. CASE k = 1
  <2>1. f.base[1] = 0 /\ f.unit[1] = 0
    BY DEF Framed, Outermost
  <2> QED
    BY <1>2, <2>1 DEF UnitOf, FrameOf
<1>3. CASE k # 1
  <2>1. f.n \in Nat /\ k - 1 \in 1 .. f.n - 1 /\ (k - 1) + 1 = k
    BY <1>3, RunningFrame
  <2>2. CallOf(f.base[k]) = program.code[f.at[k - 1] + 1]
    BY <1>3, HeaderFacts DEF HeaderTells, CallOf
  <2>3. program.code[f.at[k - 1] + 1].operand = f.unit[(k - 1) + 1]
    BY <2>1 DEF Framed, Calls
  <2>4. UnitOf(f.base[k]) = f.unit[k]
    BY <1>1, <1>3, <2>1, <2>2, <2>3 DEF UnitOf
  <2> QED
    BY <2>1, <2>2, <2>4 DEF FrameOf
<1> QED
  BY <1>2, <1>3

LEMMA InvFramesIntact == DisciplineInv => FramesIntact
<1> SUFFICES ASSUME DisciplineInv, Entered, NEW b \in ActiveBases \ {0}
             PROVE  /\ Saved(b, 2) \in 1 .. Len(program.code)
                    /\ CallOf(b).opcode = "CAL"
                    /\ UnitOf(b) \in DOMAIN layout.units \ {0}
                    /\ Saved(b, 1) \in ActiveBases
                    /\ Saved(b, 1) + FrameOf(Saved(b, 1)).size <= b - FrameOf(b).params
                    /\ Saved(b, 0) \in ActiveBases
                    /\ FrameOf(b).chain = << UnitOf(b) >> \o FrameOf(Saved(b, 0)).chain
  BY DEF FramesIntact
<1>1. PICK f : Running(f)
  BY InvRunning DEF Entered
<1>2. /\ Given(program, layout, stack) /\ Framed(program, layout, stack, f) /\ f.base[f.n] = bp
  BY <1>1, RunningFacts
<1>3. f.n \in Nat /\ f.n \in 1 .. f.n /\ ActiveBases = BasesUpTo(f, f.n)
  BY <1>2, RunningFrame, ActiveFrames
<1>4. PICK k \in 1 .. f.n : b = f.base[k]
  BY <1>3 DEF BasesUpTo
<1>5. k # 1
  BY <1>2, <1>4, FrameOnStack
<1> DEFINE j == k - 1
<1>6. j \in 1 .. f.n - 1 /\ j \in 1 .. f.n /\ j + 1 = k
  BY <1>3, <1>5
<1>7. HeaderTells(f, k)
  BY <1>2, HeaderFacts
<1>8. /\ Saved(b, 0) = f.base[f.out[k][2]] /\ Saved(b, 1) = f.base[j] /\ Saved(b, 2) = f.at[j] + 1
  BY <1>4, <1>5, <1>7 DEF HeaderTells
<1>9. /\ UnitOf(b) = f.unit[k] /\ FrameOf(b) = layout.units[f.unit[k]]
      /\ CallOf(b) = program.code[f.at[j] + 1]
  BY <1>2, <1>4, <1>5, FrameUnit
<1> HIDE DEF j
<1>10. /\ program.code[f.at[j] + 1].opcode = "CAL" /\ f.unit[j + 1] # 0
       /\ Low(layout, f, j + 1) = f.base[j] + Size(layout, f, j) + Kept(layout, f, j)
  BY <1>2, <1>6, CallerFacts
<1>11. f.at[j] \in DOMAIN layout.owner /\ f.unit[k] \in DOMAIN layout.units
  BY <1>2, <1>6 DEF Framed, FrameTypes
<1>12. f.at[j] + 1 \in 1 .. Len(program.code)
  BY <1>2, <1>11, AddressFacts DEF Given
<1>13. f.base[j] + layout.units[f.unit[j]].size <= b - layout.units[f.unit[k]].params
  <2> DEFINE z == Size(layout, f, j)
             h == Kept(layout, f, j)
             m == Params(layout, f, k)
             c == f.base[j]
  <2>1. h \in Nat
    BY <1>2, <1>6, FrameRegion
  <2>2. c \in Nat /\ z \in Nat
    BY <1>2, <1>6, FrameFacts
  <2>3. b \in Nat /\ m \in Nat
    BY <1>2, <1>4, FrameFacts
  <2>4. b - m = c + z + h
    BY <1>4, <1>6, <1>10 DEF Low
  <2> HIDE DEF z, h, m, c
  <2>5. c + z <= b - m
    BY <2>1, <2>2, <2>3, <2>4
  <2> QED
    BY <2>5 DEF z, m, c, Size, Params
<1>14. FrameOf(f.base[j]) = layout.units[f.unit[j]]
  BY <1>2, <1>6, FrameUnit
<1> DEFINE q == f.out[k][2]
<1>15. Len(f.out[k]) \in Nat /\ Len(f.out[k]) >= 2
  <2>1. Len(f.out[k]) = Len(Chain(layout, f, k)) /\ Len(f.out[k]) \in Nat
    BY <1>2, FrameFacts
  <2>2. Len(layout.units[f.unit[k]].chain) >= 2
    BY <1>2, <1>6, <1>10, <1>11, UnitFacts DEF Given
  <2> QED
    BY <2>1, <2>2 DEF Chain
<1>16. 2 \in 1 .. Len(f.out[k])
  BY <1>15
<1>17. q \in 1 .. f.n /\ f.unit[q] = Chain(layout, f, k)[2]
  <2>1. q \in 1 .. k /\ f.unit[q] = Chain(layout, f, k)[2]
    BY <1>2, <1>16 DEF Framed, Displayed
  <2> QED
    BY <1>3, <2>1
<1> HIDE DEF q
<1>18. FrameOf(f.base[q]) = layout.units[f.unit[q]]
  BY <1>2, <1>17, FrameUnit
<1>19. layout.units[f.unit[k]].chain
         = << f.unit[k] >> \o layout.units[layout.units[f.unit[k]].chain[2]].chain
  <2>1. UnitsNest(layout)
    BY <1>2 DEF Given, Disciplined
  <2> QED
    BY <1>6, <1>10, <1>11, <2>1 DEF UnitsNest
<1>20. FrameOf(b).chain = << UnitOf(b) >> \o FrameOf(f.base[q]).chain
  BY <1>9, <1>17, <1>18, <1>19 DEF Chain
<1>21. f.base[j] \in ActiveBases /\ f.base[q] \in ActiveBases
  BY <1>3, <1>6, <1>17 DEF BasesUpTo
<1>22. f.unit[k] # 0
  BY <1>6, <1>10
<1> QED
  BY <1>8, <1>9, <1>10, <1>11, <1>12, <1>13, <1>14, <1>20, <1>21, <1>22 DEF q

LEMMA InvOperandsBalanced == DisciplineInv => OperandsBalanced
<1> DEFINE n == Len(stack) - (bp + FrameOf(bp).size)
<1> SUFFICES ASSUME DisciplineInv, Entered
             PROVE  /\ n >= 0
                    /\ Cur.opcode = "JMP" => n = 0
                    /\ Cur.opcode \in {"JPC", "STO"} => n = 1
                    /\ Cur.opcode = "STOI" => n = 2
                    /\ Cur.opcode = "RET" => n = Cur.operand
  BY DEF OperandsBalanced
<1>1. PICK f : Running(f)
  BY InvRunning DEF Entered
<1> DEFINE h == Held(layout, f, f.n)
<1>2. /\ Given(program, layout, stack) /\ Framed(program, layout, stack, f) /\ f.base[f.n] = bp
      /\ Obeys(program, layout, ip) /\ layout.operands[ip] = h /\ ~ Entering(f, f.n)
      /\ Len(h) \in Nat
  BY <1>1, RunningFacts DEF Entered
<1>3. n = Len(h)
  <2> DEFINE z == Size(layout, f, f.n)
  <2>1. /\ bp \in Nat /\ z \in Nat /\ Len(stack) = bp + z + Len(h) /\ f.n \in 1 .. f.n
    BY <1>2, RunningFrame
  <2>2. FrameOf(bp).size = z
    <3>1. FrameOf(f.base[f.n]) = layout.units[f.unit[f.n]]
      BY <1>2, <2>1, FrameUnit
    <3> QED
      BY <1>2, <3>1 DEF Size
  <2> HIDE DEF z, h
  <2> QED
    BY <1>2, <2>1, <2>2
<1>4. /\ Cur.opcode = "JMP" => h = << >>
      /\ Cur.opcode \in {"JPC", "STO"} => Len(h) = 1
      /\ Cur.opcode = "STOI" => Len(h) = 2
      /\ Cur.opcode = "RET" => Cur.operand = UnitAt(layout, ip).result
                               /\ Len(h) = UnitAt(layout, ip).result
  BY <1>2 DEF Obeys, Cur
<1> HIDE DEF n, h
<1>5. h = << >> => Len(h) = 0
  BY EmptySeq
<1> QED
  BY <1>2, <1>3, <1>4, <1>5

(* The bases a level of the running unit leads to.                         *)
LEMMA EnclosingFrames ==
  ASSUME DisciplineInv, NEW f, Running(f), NEW level \in Levels(FrameOf(bp))
  PROVE  /\ f.out[f.n][level + 1] \in 1 .. f.n
         /\ WalkStaticChain(stack, bp, level) = f.base[f.out[f.n][level + 1]]
         /\ FrameOf(f.base[f.out[f.n][level + 1]]) = UnitOut(layout, FrameOf(bp), level)
<1> DEFINE m == f.n
           q == f.out[m][level + 1]
<1>1. /\ Given(program, layout, stack) /\ Framed(program, layout, stack, f) /\ f.base[m] = bp
  BY RunningFacts
<1>2. m \in 1 .. f.n /\ m \in Nat
  BY <1>1, RunningFrame
<1>3. FrameOf(bp) = layout.units[f.unit[m]]
  <2> HIDE DEF m
  <2>1. FrameOf(f.base[m]) = layout.units[f.unit[m]]
    BY <1>1, <1>2, FrameUnit
  <2> QED
    BY <1>1, <2>1
<1>4. Len(f.out[m]) \in Nat /\ Len(f.out[m]) = Len(Chain(layout, f, m))
  BY <1>1, <1>2, LenProperties DEF Framed, FrameTypes, Displayed
<1>5. level \in 0 .. Len(f.out[m]) - 1 /\ level + 1 \in 1 .. Len(f.out[m])
  BY <1>3, <1>4 DEF Levels, Chain
<1>6. q \in 1 .. f.n /\ f.unit[q] = Chain(layout, f, m)[level + 1]
  BY <1>1, <1>2, <1>5 DEF Framed, Displayed
<1> HIDE DEF m
<1>7. LeadsOut(stack, f, m, level)
  BY <1>1, <1>2, <1>5, WalkLeadsOut
<1>8. WalkStaticChain(stack, bp, level) = f.base[q]
  BY <1>1, <1>7 DEF LeadsOut
<1> HIDE DEF q
<1>9. FrameOf(f.base[q]) = layout.units[f.unit[q]]
  BY <1>1, <1>6, FrameUnit
<1>10. FrameOf(f.base[q]) = UnitOut(layout, FrameOf(bp), level)
  BY <1>3, <1>6, <1>9 DEF UnitOut, Chain
<1> QED
  BY <1>6, <1>8, <1>10 DEF q, m

(* What the running activation may reach.                                  *)
Enclosing == {WalkStaticChain(stack, bp, level) : level \in Levels(FrameOf(bp))}

Visible == UNION {OwnSlots(b) : b \in Enclosing}

LEMMA SlotVisible ==
  ASSUME DisciplineInv, NEW f, Running(f), Cur.opcode # "INT",
         NEW x \in Operand, IsSlot(layout, layout.units[f.unit[f.n]], x),
         NEW v \in StackValue, Fits(v, x, f, f.n)
  PROVE  v.num \in Visible /\ v.den = 1 /\ v.num \in Nat
<1>1. /\ Given(program, layout, stack) /\ Framed(program, layout, stack, f) /\ f.base[f.n] = bp
      /\ ~ Entering(f, f.n)
  BY RunningFacts
<1>2. FrameOf(bp) = layout.units[f.unit[f.n]]
  <2>1. f.n \in 1 .. f.n
    BY <1>1, RunningFrame
  <2>2. FrameOf(f.base[f.n]) = layout.units[f.unit[f.n]]
    BY <1>1, <2>1, FrameUnit
  <2> QED
    BY <1>1, <2>2
<1>3. /\ v.num \in Nat /\ v.den = 1
      /\ \E level \in Levels(FrameOf(bp)), s \in SlotsOf(UnitOut(layout, FrameOf(bp), x.level)) :
           level = x.level /\ v.num = f.base[f.out[f.n][level + 1]] + s
  BY <1>1, <1>2, SlotAccess
<1>4. PICK level \in Levels(FrameOf(bp)) :
        \E s \in SlotsOf(UnitOut(layout, FrameOf(bp), x.level)) :
          level = x.level /\ v.num = f.base[f.out[f.n][level + 1]] + s
  BY <1>3
<1>5. PICK s \in SlotsOf(UnitOut(layout, FrameOf(bp), x.level)) :
        level = x.level /\ v.num = f.base[f.out[f.n][level + 1]] + s
  BY <1>4
<1> DEFINE b == f.base[f.out[f.n][level + 1]]
<1>6. WalkStaticChain(stack, bp, level) = b /\ FrameOf(b) = UnitOut(layout, FrameOf(bp), level)
  BY EnclosingFrames
<1>7. v.num = b + s /\ s \in SlotsOf(FrameOf(b))
  BY <1>5, <1>6
<1> HIDE DEF b
<1>8. b \in Enclosing /\ v.num \in OwnSlots(b)
  BY <1>6, <1>7 DEF Enclosing, OwnSlots
<1> QED
  BY <1>3, <1>8 DEF Visible

LEMMA InvAccessesOwnSlots == DisciplineInv => AccessesOwnSlots
<1> SUFFICES ASSUME DisciplineInv, Entered, Succeeds
             PROVE  /\ Enclosing \subseteq ActiveBases
                    /\ Cur.opcode \in {"LOD", "STO", "ADDR"} =>
                         Address(Cur) \in OwnSlots(FrameBase(Cur))
                    /\ Cur.opcode \in {"LODI", "STOI"} => Top(stack).num \in Visible
                    /\ Cur.opcode = "OPR" /\ OprName(Cur.operand) \in {"RDI", "RDLN"} =>
                         Truncated(Second(stack)) \in Visible
  BY DEF AccessesOwnSlots, Enclosing, Visible
<1>1. PICK f : Running(f)
  BY InvRunning DEF Entered
<1>2. /\ Given(program, layout, stack) /\ Framed(program, layout, stack, f) /\ f.base[f.n] = bp
      /\ Obeys(program, layout, ip) /\ UnitAt(layout, ip) = layout.units[f.unit[f.n]]
  BY <1>1, RunningFacts
<1>3. FrameOf(bp) = layout.units[f.unit[f.n]]
  <2>1. f.n \in 1 .. f.n
    BY <1>2, RunningFrame
  <2>2. FrameOf(f.base[f.n]) = layout.units[f.unit[f.n]]
    BY <1>2, <2>1, FrameUnit
  <2> QED
    BY <1>2, <2>2
<1>4. Enclosing \subseteq ActiveBases
  <2>1. ActiveBases = BasesUpTo(f, f.n)
    BY <1>2, ActiveFrames
  <2>2. ASSUME NEW level \in Levels(FrameOf(bp))
        PROVE  WalkStaticChain(stack, bp, level) \in ActiveBases
    BY <1>1, <2>1, EnclosingFrames DEF BasesUpTo
  <2> QED
    BY <2>2 DEF Enclosing
<1>5. ASSUME Cur.opcode \in {"LOD", "STO", "ADDR"}
      PROVE  Address(Cur) \in OwnSlots(FrameBase(Cur))
  <2>1. /\ FrameBase(Cur) = f.base[f.out[f.n][Cur.level + 1]]
        /\ Address(Cur) = FrameBase(Cur) + Cur.operand
    BY <1>1, <1>5, DirectAccess DEF Entered
  <2>2. /\ Cur.level \in Levels(FrameOf(bp))
        /\ Cur.operand \in SlotsOf(UnitOut(layout, FrameOf(bp), Cur.level))
    BY <1>2, <1>3, <1>5 DEF Obeys, Cur
  <2>3. FrameOf(f.base[f.out[f.n][Cur.level + 1]]) = UnitOut(layout, FrameOf(bp), Cur.level)
    BY <1>1, <2>2, EnclosingFrames
  <2> QED
    BY <2>1, <2>2, <2>3 DEF OwnSlots
<1>6. ASSUME Cur.opcode \in {"LODI", "STOI"} PROVE Top(stack).num \in Visible
  <2> DEFINE x == Top(Held(layout, f, f.n))
  <2>1. /\ x \in Operand /\ IsSlot(layout, layout.units[f.unit[f.n]], x)
        /\ Top(stack) \in StackValue /\ Fits(Top(stack), x, f, f.n)
    BY <1>1, <1>6, IndirectAccess
  <2> HIDE DEF x
  <2> QED
    BY <1>1, <1>6, <2>1, SlotVisible
<1>7. ASSUME Cur.opcode = "OPR", OprName(Cur.operand) \in {"RDI", "RDLN"}
      PROVE  Truncated(Second(stack)) \in Visible
  <2> DEFINE x == Second(Held(layout, f, f.n))
             a == Second(stack).num
  <2>1. /\ x \in Operand /\ IsSlot(layout, layout.units[f.unit[f.n]], x)
        /\ Second(stack) \in StackValue /\ Fits(Second(stack), x, f, f.n)
    BY <1>1, <1>7, IndirectAccess
  <2> HIDE DEF x
  <2>2. a \in Visible /\ Second(stack).den = 1 /\ a \in Nat
    BY <1>1, <1>7, <2>1, SlotVisible
  <2>3. Truncated(Second(stack)) = a
    <3>1. a \div 1 = a /\ a >= 0
      BY <2>2
    <3> QED
      BY <2>2, <3>1 DEF Truncated
  <2> QED
    BY <2>2, <2>3
<1> QED
  BY <1>4, <1>5, <1>6, <1>7

(* Every step of the static chain the running unit may ask for is there.   *)
LEMMA ChainUnbroken ==
  ASSUME DisciplineInv, NEW f, Running(f), NEW level \in Levels(layout.units[f.unit[f.n]])
  PROVE  FrameFound(stack, bp, level)
<1> DEFINE q == f.out[f.n][level + 1]
           b == f.base[q]
<1>1. /\ Given(program, layout, stack) /\ Framed(program, layout, stack, f) /\ f.base[f.n] = bp
      /\ Len(stack) \in Nat
  BY RunningFacts
<1>2. f.n \in 1 .. f.n
  BY <1>1, RunningFrame
<1>3. level \in Levels(FrameOf(bp))
  <2>1. FrameOf(f.base[f.n]) = layout.units[f.unit[f.n]]
    BY <1>1, <1>2, FrameUnit
  <2> QED
    BY <1>1, <2>1
<1>4. q \in 1 .. f.n /\ WalkStaticChain(stack, bp, level) = b
  BY <1>3, EnclosingFrames
<1>5. level = 0 => b = bp
  <2>1. f.out[f.n][1] = f.n
    BY <1>1, <1>2 DEF Framed, Displayed
  <2> QED
    BY <1>1, <2>1
<1> HIDE DEF q
<1>6. b \in Nat /\ b + 3 <= Len(stack)
  <2>1. b \in Nat
    BY <1>1, <1>4 DEF Framed, FrameTypes
  <2>2. f.base[q] + 3 <= Len(stack)
    BY <1>1, <1>4, FrameOnStack
  <2> QED
    BY <2>1, <2>2
<1> HIDE DEF b
<1>7. b \in 0 .. Len(stack) - 1
  BY <1>1, <1>6
<1> QED
  BY <1>4, <1>5, <1>7 DEF FrameFound

LEMMA DirectAccessPasses ==
  ASSUME DisciplineInv, Fetching, Cur.opcode \in {"LOD", "STO"}, NEW f, Running(f)
  PROVE  ~ SlotFault(Cur) /\ (Cur.opcode = "STO" => ~ StoFault(Cur))
<1>1. /\ Given(program, layout, stack) /\ Framed(program, layout, stack, f)
      /\ ~ Entering(f, f.n) /\ f.base[f.n] = bp /\ Len(stack) \in Nat
      /\ Len(Held(layout, f, f.n)) \in Nat
      /\ Obeys(program, layout, ip) /\ UnitAt(layout, ip) = layout.units[f.unit[f.n]]
  BY RunningFacts
<1>2. /\ Cur.level \in Levels(layout.units[f.unit[f.n]])
      /\ Cur.operand \in SlotsOf(UnitOut(layout, layout.units[f.unit[f.n]], Cur.level))
  BY <1>1 DEF Obeys, Cur
<1>3. FrameFound(stack, bp, Cur.level)
  BY <1>2, ChainUnbroken
<1>4. SlotFound(layout, stack, f, Cur.level, Cur.operand)
  BY <1>1, <1>2, SlotOutwards
<1>5. /\ FrameBase(Cur) = f.base[f.out[f.n][Cur.level + 1]]
      /\ Address(Cur) = FrameBase(Cur) + Cur.operand /\ Address(Cur) \in Nat
      /\ Address(Cur) < Len(stack) - Len(Held(layout, f, f.n))
  BY DirectAccess
<1>6. Cur.operand \notin 0 .. 2
  BY <1>4 DEF SlotFound
<1>7. Cur.level # 0 => Address(Cur) < bp
  BY <1>1, <1>4, <1>5 DEF SlotFound
<1>8. Cur.level = 0 => FrameBase(Cur) = bp
  <2>1. f.n \in 1 .. f.n
    BY <1>1, RunningFrame
  <2>2. f.out[f.n][1] = f.n
    BY <1>1, <2>1 DEF Framed, Displayed
  <2> QED
    BY <1>1, <1>5, <2>2
<1>9. Address(Cur) < Len(stack)
  BY <1>1, <1>5
<1>10. 0 <= Address(Cur) /\ Address(Cur) < FrameTop(Cur)
  BY <1>5, <1>7, <1>8, <1>9 DEF FrameTop
<1>11. Cur.operand \notin 0 .. HeaderSize - 1
  BY <1>6 DEF HeaderSize
<1>12. ~ SlotFault(Cur)
  BY <1>3, <1>10, <1>11 DEF SlotFault
<1>13. ASSUME Cur.opcode = "STO" PROVE Within(stack, Address(Cur) + 1)
  <2>1. Len(Held(layout, f, f.n)) = 1
    <3>1. layout.operands[ip] = Held(layout, f, f.n)
      BY RunningFacts
    <3> QED
      BY <1>1, <1>13, <3>1 DEF Obeys, Cur
  <2> QED
    BY <1>1, <1>5, <2>1 DEF Within
<1> QED
  BY <1>12, <1>13 DEF StoFault

LEMMA IndirectAccessPasses ==
  ASSUME DisciplineInv, Cur.opcode \in {"LODI", "STOI"}, NEW f, Running(f)
  PROVE  /\ Len(stack) >= 1 /\ stack # << >> /\ IsInteger(Top(stack)) /\ Top(stack).num \in Nat
         /\ Cur.opcode = "LODI" => Top(stack).num < Len(stack) - 1
         /\ Cur.opcode = "STOI" => Len(stack) >= 2 /\ Top(stack).num < Len(stack) - 2
<1> DEFINE a == Top(stack).num
           x == Top(Held(layout, f, f.n))
           h == Len(Held(layout, f, f.n))
<1>1. /\ Given(program, layout, stack) /\ Framed(program, layout, stack, f)
      /\ ~ Entering(f, f.n) /\ Len(stack) \in Nat /\ h \in Nat
  BY RunningFacts
<1>2. /\ x \in Operand /\ IsSlot(layout, layout.units[f.unit[f.n]], x)
      /\ Top(stack) \in StackValue /\ Fits(Top(stack), x, f, f.n)
  BY IndirectAccess
<1>3. (Cur.opcode = "LODI" => h >= 1) /\ (Cur.opcode = "STOI" => h >= 2)
  <2>1. /\ Cur.opcode = "LODI" => Takes(Cur, layout.units) = 1
        /\ Cur.opcode = "STOI" => Takes(Cur, layout.units) = 2
    BY TakesOf
  <2>2. Takes(Cur, layout.units) \in Nat => Takes(Cur, layout.units) <= h
    BY Supplied
  <2> HIDE DEF h
  <2> QED
    BY <1>1, <2>1, <2>2
<1> HIDE DEF x
<1>4. a \in Nat /\ a < Len(stack) - h /\ IsInteger(Top(stack))
  BY <1>1, <1>2, SlotAccess
<1> HIDE DEF a, h
<1>5. /\ Len(stack) >= 1
      /\ Cur.opcode = "LODI" => a < Len(stack) - 1
      /\ Cur.opcode = "STOI" => Len(stack) >= 2 /\ a < Len(stack) - 2
  BY <1>1, <1>3, <1>4
<1>6. stack # << >>
  BY <1>5, EmptySeq
<1> QED
  BY <1>4, <1>5, <1>6 DEF a

LEMMA ReadPasses ==
  ASSUME DisciplineInv, Cur.opcode = "OPR", OprName(Cur.operand) \in {"RDI", "RDLN"},
         NEW f, Running(f)
  PROVE  /\ Holds2(stack) /\ IsNumeric(Second(stack))
         /\ Truncated(Second(stack)) \in 0 .. Len(stack) - 3
<1> DEFINE a == Second(stack).num
           x == Second(Held(layout, f, f.n))
           h == Len(Held(layout, f, f.n))
<1>1. /\ Given(program, layout, stack) /\ Framed(program, layout, stack, f)
      /\ ~ Entering(f, f.n) /\ Len(stack) \in Nat /\ h \in Nat
  BY RunningFacts
<1>2. /\ x \in Operand /\ IsSlot(layout, layout.units[f.unit[f.n]], x)
      /\ Second(stack) \in StackValue /\ Fits(Second(stack), x, f, f.n)
  BY IndirectAccess
<1>3. h >= 2
  <2>1. Takes(Cur, layout.units) = 2
    BY TakesOf
  <2> HIDE DEF h
  <2>2. Takes(Cur, layout.units) <= Len(Held(layout, f, f.n))
    BY <2>1, Supplied
  <2> QED
    BY <2>1, <2>2 DEF h
<1> HIDE DEF x
<1>4. /\ a \in Nat /\ a < Len(stack) - h /\ IsInteger(Second(stack)) /\ Second(stack).den = 1
  BY <1>1, <1>2, SlotAccess
<1> HIDE DEF a, h
<1>5. Len(stack) >= 2 /\ a \in 0 .. Len(stack) - 3
  BY <1>1, <1>3, <1>4
<1>6. Truncated(Second(stack)) = a
  <2>1. a \div 1 = a /\ a >= 0
    BY <1>4
  <2> QED
    BY <1>4, <2>1 DEF Truncated, a
<1>7. IsNumeric(Second(stack))
  BY <1>4 DEF IsInteger, IsNumeric
<1> QED
  BY <1>5, <1>6, <1>7 DEF Holds2

LEMMA ReturnPasses ==
  ASSUME DisciplineInv, Fetching, Cur.opcode = "RET", NEW f, Running(f)
  PROVE  ~ RetFault(Cur)
<1>1. /\ Given(program, layout, stack) /\ Framed(program, layout, stack, f)
      /\ f.base[f.n] = bp /\ ~ Entering(f, f.n) /\ Len(stack) \in Nat
      /\ layout.operands[ip] = Held(layout, f, f.n)
      /\ Obeys(program, layout, ip) /\ UnitAt(layout, ip) = layout.units[f.unit[f.n]]
  BY RunningFacts
<1>2. f.n \in 1 .. f.n /\ f.n \in Nat /\ f.unit[f.n] \in DOMAIN layout.units
  BY <1>1, RunningFrame DEF Framed, FrameTypes
<1> DEFINE r == layout.units[f.unit[f.n]].result
           low == Low(layout, f, f.n)
           size == Size(layout, f, f.n)
<1>3. Cur.level = Params(layout, f, f.n) /\ Cur.operand = r /\ Len(Held(layout, f, f.n)) = r
  BY <1>1 DEF Obeys, Cur, Params
<1>4. r \in {0, 1} /\ size \in Nat /\ size >= 3 /\ Params(layout, f, f.n) \in Nat
  BY <1>1, <1>2, UnitFacts DEF Given, Size, Params
<1>5. bp \in Nat /\ Len(stack) = bp + size + r
  <2>1. /\ f.base[f.n] \in Nat
        /\ Len(stack) = f.base[f.n] + size + Len(Held(layout, f, f.n))
    BY <1>1, RunningFrame
  <2> HIDE DEF r, size
  <2> QED
    BY <1>1, <1>3, <2>1
<1>6. 0 <= low /\ (f.n = 1 <=> bp = 0)
  BY <1>1, <1>2, FrameOnStack
<1>7. low = bp - Params(layout, f, f.n) /\ CleanupBase(Cur) = low
  BY <1>1, <1>3 DEF Low, CleanupBase
<1> HIDE DEF r, low, size
<1>8. (bp + 1) % SizeModulus = bp + 1 /\ (bp + 2) % SizeModulus = bp + 2
  <2>1. Len(stack) <= MaxStackSize
    BY <1>1 DEF Given
  <2>2. bp + 1 \in 0 .. SizeModulus - 1 /\ bp + 2 \in 0 .. SizeModulus - 1
    BY <1>1, <1>4, <1>5, <2>1, ConstantBounds
  <2> QED
    BY <2>2, ConstantBounds
<1>9. At(stack, bp + 1) = stack[bp + 2] /\ At(stack, bp + 2) = stack[bp + 3]
  <2>1. (bp + 1) + 1 = bp + 2 /\ (bp + 2) + 1 = bp + 3
    BY <1>5
  <2> QED
    BY <2>1 DEF At
<1>10. Linked(stack, f, f.n)
  BY <1>1, <1>2 DEF Framed
<1>11. /\ stack[bp + 2] = IntegerValue(IF f.n = 1 THEN 0 ELSE f.base[f.n - 1])
       /\ stack[bp + 3] = IntegerValue(IF f.n = 1 THEN 0 ELSE f.at[f.n - 1] + 1)
  BY <1>1, <1>10 DEF Linked
<1>12. \A n : IntegerValue(n).num = n /\ IsInteger(IntegerValue(n))
  BY DEF IntegerValue, IsInteger
<1>13. Cur.level <= bp /\ Cur.operand <= Len(stack) /\ low <= Len(stack) - Cur.operand
       /\ bp + 1 < Len(stack) - Cur.operand /\ bp + 2 < Len(stack) - Cur.operand
  BY <1>3, <1>4, <1>5, <1>6, <1>7
<1>14. ASSUME NEW k \in 1 .. 2
       PROVE  LET slot == (bp + k) % SizeModulus
              IN  slot < Len(stack) - Cur.operand /\ IsInteger(At(stack, slot))
  <2>1. CASE k = 1
    BY <1>8, <1>9, <1>11, <1>12, <1>13, <2>1
  <2>2. CASE k = 2
    BY <1>8, <1>9, <1>11, <1>12, <1>13, <2>2
  <2> QED
    BY <2>1, <2>2
<1>15. ASSUME bp > 0 PROVE 0 <= DynamicLink.num /\ DynamicLink.num < low
  <2>1. f.n # 1
    BY <1>5, <1>6, <1>15
  <2> DEFINE b == f.base[f.n - 1]
  <2>2. f.n - 1 \in 1 .. f.n /\ f.n - 1 < f.n
    BY <1>2, <2>1
  <2>3. DynamicLink.num = b
    BY <1>8, <1>9, <1>11, <1>12, <2>1 DEF DynamicLink
  <2>4. b \in Nat
    BY <1>1, <2>2 DEF Framed, FrameTypes
  <2>5. High(layout, stack, f, f.n - 1) <= low
    BY <1>1, <1>2, <2>2, FramesApart DEF low
  <2>6. /\ b + 3 <= High(layout, stack, f, f.n - 1) /\ High(layout, stack, f, f.n - 1) \in Int
    BY <1>1, <2>2, FrameRegion
  <2> HIDE DEF b
  <2>7. b < low
    BY <1>4, <1>5, <1>7, <2>4, <2>5, <2>6
  <2> QED
    BY <2>3, <2>4, <2>7
<1>16. /\ ~ (Cur.level > bp) /\ ~ (Len(stack) < Cur.operand)
       /\ ~ (CleanupBase(Cur) > Len(stack) - Cur.operand)
  BY <1>3, <1>4, <1>5, <1>7, <1>13
<1>17. ~ (\E k \in 1 .. 2 : LET slot == (bp + k) % SizeModulus IN
            slot >= Len(stack) - Cur.operand \/ ~IsInteger(At(stack, slot)))
  <2>1. Len(stack) - Cur.operand \in Int /\ bp + 1 \in Int /\ bp + 2 \in Int
    BY <1>1, <1>3, <1>4, <1>5
  <2> SUFFICES ASSUME NEW k \in 1 .. 2
               PROVE  LET slot == (bp + k) % SizeModulus IN
                        ~ (slot >= Len(stack) - Cur.operand) /\ IsInteger(At(stack, slot))
    OBVIOUS
  <2>2. (bp + k) % SizeModulus \in Int
    BY <1>8, <2>1
  <2> QED
    BY <1>14, <2>1, <2>2
<1> QED
  BY <1>7, <1>15, <1>16, <1>17 DEF RetFault

LEMMA InvFramesNeverFault == DisciplineInv => FramesNeverFault
<1> SUFFICES ASSUME DisciplineInv, Entered
             PROVE  /\ Cur.opcode = "LOD" => ~ SlotFault(Cur)
                    /\ Cur.opcode = "STO" => ~ StoFault(Cur)
                    /\ Cur.opcode \in {"ADDR", "CAL"} => FrameFound(stack, bp, Cur.level)
                    /\ Cur.opcode = "ADDR" => Address(Cur) >= 0
                    /\ Cur.opcode = "LODI" => ~ LodiFault
                    /\ Cur.opcode = "STOI" => ~ StoiFault
                    /\ Cur.opcode = "RET" => ~ RetFault(Cur)
                    /\ Cur.opcode = "OPR" /\ OprName(Cur.operand) \in {"RDI", "RDLN"} =>
                         /\ Holds2(stack) /\ IsNumeric(Second(stack))
                         /\ Truncated(Second(stack)) \in 0 .. Len(stack) - 3
  BY DEF FramesNeverFault
<1>1. PICK f : Running(f)
  BY InvRunning DEF Entered
<1>2. (Cur.opcode = "LOD" => ~ SlotFault(Cur)) /\ (Cur.opcode = "STO" => ~ StoFault(Cur))
  BY <1>1, DirectAccessPasses DEF Entered
<1>3. ASSUME Cur.opcode \in {"ADDR", "CAL"} PROVE FrameFound(stack, bp, Cur.level)
  <2>1. Obeys(program, layout, ip) /\ UnitAt(layout, ip) = layout.units[f.unit[f.n]]
    BY <1>1, RunningFacts
  <2>2. Cur.level \in Levels(layout.units[f.unit[f.n]])
    BY <1>3, <2>1 DEF Obeys, Cur
  <2> QED
    BY <1>1, <2>2, ChainUnbroken
<1>4. Cur.opcode = "LODI" => ~ LodiFault
  <2> SUFFICES ASSUME Cur.opcode = "LODI" PROVE ~ LodiFault
    OBVIOUS
  <2>1. /\ stack # << >> /\ IsInteger(Top(stack)) /\ Top(stack).num \in Nat
        /\ Top(stack).num < Len(stack) - 1
    BY <1>1, IndirectAccessPasses
  <2> QED
    BY <2>1 DEF LodiFault
<1>5. Cur.opcode = "STOI" => ~ StoiFault
  <2> SUFFICES ASSUME Cur.opcode = "STOI" PROVE ~ StoiFault
    OBVIOUS
  <2>1. /\ IsInteger(Top(stack)) /\ Top(stack).num \in Nat
        /\ Len(stack) >= 2 /\ Top(stack).num < Len(stack) - 2
    BY <1>1, IndirectAccessPasses
  <2> QED
    BY <2>1 DEF StoiFault, Holds2
<1>6. Cur.opcode = "RET" => ~ RetFault(Cur)
  BY <1>1, ReturnPasses DEF Entered
<1>7. Cur.opcode = "OPR" /\ OprName(Cur.operand) \in {"RDI", "RDLN"} =>
        /\ Holds2(stack) /\ IsNumeric(Second(stack))
        /\ Truncated(Second(stack)) \in 0 .. Len(stack) - 3
  BY <1>1, ReadPasses
<1>8. ASSUME Cur.opcode = "ADDR" PROVE Address(Cur) >= 0
  <2>1. Address(Cur) \in Nat
    BY <1>1, <1>8, DirectAccess DEF Entered
  <2> QED
    BY <2>1
<1> QED
  BY <1>2, <1>3, <1>4, <1>5, <1>6, <1>7, <1>8

LEMMA Invariant == DisciplineSpec => []DisciplineInv
BY InitDiscipline, NextDiscipline, PTL DEF DisciplineSpec

(* On every disciplined program, on every input, each activation keeps the *)
(* header CAL gave it: it returns behind its call, to the activation that  *)
(* called it and above whose variables its arguments lie, and its static   *)
(* link is an activation of the unit it is declared in.                    *)
THEOREM FramesStayIntact == DisciplineSpec => []FramesIntact
BY Invariant, InvFramesIntact, PTL

(* On every disciplined program the running activation has the operands    *)
(* its instruction needs and no others: none at a jump, one value at a     *)
(* condition and an assignment, the result alone at a return.              *)
THEOREM OperandsStayBalanced == DisciplineSpec => []OperandsBalanced
BY Invariant, InvOperandsBalanced, PTL

(* On every disciplined program an access, direct or by a computed         *)
(* address, goes to a variable or a parameter of an activation of the      *)
(* running subprogram or of one around it.                                 *)
THEOREM AccessesStayInSlots == DisciplineSpec => []AccessesOwnSlots
BY Invariant, InvAccessesOwnSlots, PTL

(* On every disciplined program the interpreter's checks of its frames     *)
(* reject nothing: no static link is missing, no access out of the bounds  *)
(* of its frame, no return finds its links or the stack out of place.      *)
THEOREM FramesDoNotFault == DisciplineSpec => []FramesNeverFault
BY Invariant, InvFramesNeverFault, PTL

(* A disciplined program never runs past its last instruction: execute's   *)
(* loop ends by the return of the main program or by an exception.         *)
THEOREM DisciplinedCodeEndsInside == DisciplineSpec => [](status # "ran off")
<1>1. DisciplineInit => status # "ran off"
  BY DEF DisciplineInit, Ready
<1>2. ASSUME status # "ran off", DisciplineInv, [Next /\ UNCHANGED layout]_disciplineVars
      PROVE  (status # "ran off")'
  <2>1. ~ RunOff
    <3> SUFFICES ASSUME RunOff PROVE FALSE
      OBVIOUS
    <3>1. status = "running" /\ ip >= Len(program.code)
      BY DEF RunOff
    <3>2. PICK f : Running(f)
      BY <1>2, <3>1, InvRunning
    <3>3. ip \in Nat /\ ip < Len(program.code) /\ Len(program.code) \in Nat
      BY <1>2, <3>2, RunningFacts, AddressFacts DEF Given
    <3> QED
      BY <3>1, <3>3
  <2>2. [Next]_vars
    BY <1>2 DEF disciplineVars, vars
  <2> QED
    BY <1>2, <2>1, <2>2 DEF Next, Execute, Stopped, vars, Leave, PushValue, INT, LIT, LITB, LITS,
      LITR, LOD, STO, ADDR, LODI, STOI, CHK, JMP, JPC, CAL, RET, Negate, BinaryArithmetic,
      BinaryComparison, Write, Discard, Read, Throw
<1> QED
  BY <1>1, <1>2, Invariant, PTL DEF DisciplineSpec

=============================================================================
