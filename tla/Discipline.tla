------------------------------ MODULE Discipline ------------------------------
(***************************************************************************)
(* What code must be like for the interpreter to keep its activations in   *)
(* order, as a property of the code alone: a layout says of each address   *)
(* to which unit (the main program or a subprogram) it belongs and what    *)
(* operands are on the stack there, and of each unit its slots and the     *)
(* units around it.  Each instruction must agree with the layout before    *)
(* and behind it.                                                          *)
(*                                                                         *)
(* The generator writes such code, without saying so: an address is a path *)
(* of checked indices from a variable, and between two statements nothing  *)
(* is left on the stack.                                                   *)
(***************************************************************************)
EXTENDS Interpreter

VARIABLE layout

disciplineVars == << vars, layout >>

-----------------------------------------------------------------------------
(* What is known of an operand: nothing, that it is an Integer between two *)
(* bounds, or the address of a slot between two of the unit level levels   *)
(* further out.                                                            *)

Anything == [kind |-> "any", level |-> 0, low |-> 0, high |-> 0]

NumberIn(low, high) == [kind |-> "number", level |-> 0, low |-> low, high |-> high]

Operand == [kind : {"any", "number", "slot"}, level : Nat, low : Int, high : Int]

SlotOf(level, slot) == [kind |-> "slot", level |-> level, low |-> slot, high |-> slot]

(* The arithmetic of offsets; of everything else nothing is known.         *)
Computed(op, x, y) ==
  CASE op = "ADD" /\ x.kind \in {"number", "slot"} /\ y.kind = "number" ->
         [x EXCEPT !.low = @ + y.low, !.high = @ + y.high]
    [] op = "SUB" /\ x.kind = "number" /\ y.kind = "number" ->
         NumberIn(x.low - y.high, x.high - y.low)
    [] op = "MUL" /\ x.kind = "number" /\ y.kind = "number" /\ y.low = y.high /\ y.low >= 0 ->
         NumberIn(x.low * y.low, x.high * y.low)
    [] OTHER -> Anything

-----------------------------------------------------------------------------
(* A unit goes by the address of its first instruction, the main program   *)
(* by 0.  Its parameters lie below the frame, its variables behind the     *)
(* header; chain leads from it out to the main program.                    *)

Unit(l) ==
  [size : {n \in Nat : n >= HeaderSize}, params : Nat, result : {0, 1},
   chain : Seq(DOMAIN l.units)]

SlotsOf(unit) == -unit.params .. -1 \cup HeaderSize .. unit.size - 1

(* How many operands an instruction takes.                                 *)
Takes(i, units) ==
  CASE i.opcode \in {"STO", "LODI", "CHK", "JPC"} -> 1
    [] i.opcode = "STOI" -> 2
    [] i.opcode = "CAL" -> units[i.operand].params
    [] i.opcode = "OPR" /\ OprName(i.operand) \in {"NEG", "WRT", "WRTLN", "POP"} -> 1
    [] i.opcode = "OPR" /\ OprName(i.operand) \in ArithOps \cup CompareOps \cup {"RDI", "RDLN"} -> 2
    [] OTHER -> 0

(* What it leaves in their place.                                          *)
Yields(i, s, units) ==
  CASE i.opcode = "LIT" -> << NumberIn(i.operand, i.operand) >>
    [] i.opcode = "ADDR" -> << SlotOf(i.level, i.operand) >>
    [] i.opcode = "CHK" -> << NumberIn(i.level, i.operand) >>
    [] i.opcode \in {"LITB", "LITS", "LITR", "LOD", "LODI"} -> << Anything >>
    [] i.opcode = "CAL" -> IF units[i.operand].result = 1 THEN << Anything >> ELSE << >>
    [] i.opcode = "OPR" /\ OprName(i.operand) \in ArithOps ->
         << Computed(OprName(i.operand), Second(s), Top(s)) >>
    [] i.opcode = "OPR" /\ OprName(i.operand) \in CompareOps \cup {"NEG"} -> << Anything >>
    [] OTHER -> << >>

Behind(i, s, units) == Popped(s, Takes(i, units)) \o Yields(i, s, units)

-----------------------------------------------------------------------------
UnitAt(l, a) == l.units[l.owner[a]]

(* The unit some levels further out.                                       *)
UnitOut(l, unit, level) == l.units[unit.chain[level + 1]]

Levels(unit) == 0 .. Len(unit.chain) - 1

(* An operand is the address of a variable or a parameter.                 *)
IsSlot(l, unit, x) ==
  /\ x.kind = "slot" /\ x.level \in Levels(unit)
  /\ x.low .. x.high \subseteq SlotsOf(UnitOut(l, unit, x.level))

(* Execution may go on at b with the operands s.                           *)
GoesOn(p, l, a, b, s) ==
  /\ b \in DOMAIN l.owner /\ l.owner[b] = l.owner[a] /\ b # l.owner[b]
  /\ l.operands[b] = s

Obeys(p, l, a) ==
  LET i    == p.code[a + 1]
      unit == UnitAt(l, a)
      s    == l.operands[a]
  IN  /\ i.opcode = "INT" <=> a = l.owner[a]
      /\ i.opcode = "INT" => s = << >> /\ i.operand = unit.size
      /\ i.opcode \in {"LOD", "STO", "ADDR"} =>
           i.level \in Levels(unit) /\ i.operand \in SlotsOf(UnitOut(l, unit, i.level))
      /\ i.opcode = "CAL" =>
           /\ i.operand \in DOMAIN l.units \ {0} /\ i.level \in Levels(unit)
           /\ l.units[i.operand].chain[2] = unit.chain[i.level + 1]
      /\ Len(s) >= Takes(i, l.units)
      /\ i.opcode = "RET" =>
           i.level = unit.params /\ i.operand = unit.result /\ Len(s) = unit.result
      /\ i.opcode \in {"LODI", "STOI"} => IsSlot(l, unit, Top(s))
      /\ i.opcode = "OPR" /\ OprName(i.operand) \in {"RDI", "RDLN"} => IsSlot(l, unit, Second(s))
      /\ i.opcode = "JMP" => s = << >>
      /\ i.opcode \in {"JPC", "STO"} => Len(s) = 1
      /\ i.opcode = "STOI" => Len(s) = 2
      /\ i.opcode \notin {"JMP", "RET"} => GoesOn(p, l, a, a + 1, Behind(i, s, l.units))
      /\ i.opcode \in {"JMP", "JPC"} => GoesOn(p, l, a, i.operand, Behind(i, s, l.units))

(* The units nest, and a unit's first instruction is its own.              *)
UnitsNest(l) ==
  /\ 0 \in DOMAIN l.units /\ l.units[0].chain = << 0 >>
  /\ l.units[0].params = 0 /\ l.units[0].result = 0
  /\ \A u \in DOMAIN l.units : l.units[u] \in Unit(l) /\ u \in DOMAIN l.owner /\ l.owner[u] = u
  /\ \A u \in DOMAIN l.units \ {0} :
       LET chain == l.units[u].chain
       IN  Len(chain) >= 2 /\ chain = << u >> \o l.units[chain[2]].chain

Disciplined(p, l) ==
  /\ UnitsNest(l)
  /\ DOMAIN l.owner = 0 .. Len(p.code) - 1
  /\ \A a \in DOMAIN l.owner :
       l.owner[a] \in DOMAIN l.units /\ l.operands[a] \in Seq(Operand) /\ Obeys(p, l, a)

(* The machine on such code.                                               *)
DisciplineInit ==
  /\ program \in Program /\ Len(program.code) <= IntMax
  /\ Ready
  /\ Disciplined(program, layout)

DisciplineSpec == DisciplineInit /\ [][Next /\ UNCHANGED layout]_disciplineVars

-----------------------------------------------------------------------------
(* The activations on the stack.                                           *)

(* The instruction that called the activation, and the unit it called.     *)
CallOf(base) == program.code[Saved(base, 2)]

UnitOf(base) == IF base = 0 THEN 0 ELSE CallOf(base).operand

FrameOf(base) == layout.units[UnitOf(base)]

VariableSlots(base) == base + HeaderSize .. base + FrameOf(base).size - 1
OwnSlots(base)      == {base + slot : slot \in SlotsOf(FrameOf(base))}

(* The header of the running frame exists and INT has added its variables. *)
Entered == status = "running" /\ Fetching /\ Cur.opcode # "INT"

(* Every activation has the header CAL gave it: it returns behind a call   *)
(* of a subprogram, its dynamic link is the activation that called, above  *)
(* whose variables its arguments lie, and its static link is an activation *)
(* of the unit it is declared in.  Violated if a store hits a header or a  *)
(* call computes the wrong static distance.                                *)
FramesIntact ==
  Entered =>
    \A b \in ActiveBases \ {0} :
      LET caller == Saved(b, 1)
          parent == Saved(b, 0)
      IN  /\ Saved(b, 2) \in 1 .. Len(program.code)
          /\ CallOf(b).opcode = "CAL"
          /\ UnitOf(b) \in DOMAIN layout.units \ {0}
          /\ caller \in ActiveBases
          /\ caller + FrameOf(caller).size <= b - FrameOf(b).params
          /\ parent \in ActiveBases
          /\ FrameOf(b).chain = << UnitOf(b) >> \o FrameOf(parent).chain

(* Between two statements the running activation has no operands left over *)
(* and none missing: a jump finds exactly its frame, a condition and an    *)
(* assignment one value more, a return the result and nothing else.        *)
OperandsBalanced ==
  Entered =>
    LET operands == Len(stack) - (bp + FrameOf(bp).size) IN
    /\ operands >= 0
    /\ Cur.opcode = "JMP" => operands = 0
    /\ Cur.opcode \in {"JPC", "STO"} => operands = 1
    /\ Cur.opcode = "STOI" => operands = 2
    /\ Cur.opcode = "RET" => operands = Cur.operand

(* An access goes to a variable or a parameter of an activation of the     *)
(* running subprogram or of one around it, never to a header, an operand   *)
(* or another activation: a direct access at once, an indirect one after   *)
(* the bounds of every index were checked.                                 *)
AccessesOwnSlots ==
  Entered /\ Succeeds =>
    LET enclosing == {WalkStaticChain(stack, bp, l) : l \in Levels(FrameOf(bp))}
        visible   == UNION {OwnSlots(b) : b \in enclosing}
    IN  /\ enclosing \subseteq ActiveBases
        /\ Cur.opcode \in {"LOD", "STO", "ADDR"} => Address(Cur) \in OwnSlots(FrameBase(Cur))
        /\ Cur.opcode \in {"LODI", "STOI"} => Top(stack).num \in visible
        /\ Cur.opcode = "OPR" /\ OprName(Cur.operand) \in {"RDI", "RDLN"} =>
             Truncated(Second(stack)) \in visible

(* The checks by which the interpreter protects its frames never reject    *)
(* generated code: no static link is missing, no access is out of the      *)
(* bounds of its frame, no return finds its links or the stack out of      *)
(* place.  What is left to throw are the bounds of indices, operands of    *)
(* the wrong value or kind, the input and a full stack.                    *)
FramesNeverFault ==
  Entered =>
    /\ Cur.opcode = "LOD" => ~SlotFault(Cur)
    /\ Cur.opcode = "STO" => ~StoFault(Cur)
    /\ Cur.opcode \in {"ADDR", "CAL"} => FrameFound(stack, bp, Cur.level)
    /\ Cur.opcode = "ADDR" => Address(Cur) >= 0
    /\ Cur.opcode = "LODI" => ~LodiFault
    /\ Cur.opcode = "STOI" => ~StoiFault
    /\ Cur.opcode = "RET" => ~RetFault(Cur)
    /\ Cur.opcode = "OPR" /\ OprName(Cur.operand) \in {"RDI", "RDLN"} =>
         /\ Holds2(stack) /\ IsNumeric(Second(stack))
         /\ Truncated(Second(stack)) \in 0 .. Len(stack) - 3

=============================================================================
