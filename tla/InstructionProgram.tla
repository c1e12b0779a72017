-------------------------- MODULE InstructionProgram --------------------------
(***************************************************************************)
(* The intermediate code: instructions <<opcode, level, operand>>, the     *)
(* operation codes of OPR, and a program with its string and real pools,   *)
(* as the code generator builds it (emit, patch, addString, addReal) and   *)
(* the interpreter reads it.  Addresses count from 0, as in the C++.       *)
(***************************************************************************)
EXTENDS Integers, Sequences

CONSTANTS
  OperandRange,   \* the ints an instruction's fields can hold
  PoolText,       \* the texts of the string pool
  PoolReal        \* the values of the real pool

OpCode ==
  {"INT", "LIT", "LOD", "STO", "CAL", "JMP", "JPC", "OPR", "RET",
   "LITB", "LITS", "LITR", "ADDR", "LODI", "STOI", "CHK"}

(* The operand of OPR selects an operation by its number.                  *)
OprCode ==
  << "NEG", "ADD", "SUB", "MUL", "DIV", "MOD", "EQL", "NEQ", "LSS", "GEQ",
     "GTR", "LEQ", "WRT", "WRTLN", "POP", "RDI", "RDLN" >>

OprNumber(name) == CHOOSE n \in 1 .. Len(OprCode) : OprCode[n] = name

OprName(n) == IF n \in 1 .. Len(OprCode) THEN OprCode[n] ELSE "invalid"

Instruction == [opcode : OpCode, level : OperandRange, operand : OperandRange]

Instr(op, lev, opd) == [opcode |-> op, level |-> lev, operand |-> opd]

Program ==
  [code : Seq(Instruction), strings : Seq(PoolText), reals : Seq(PoolReal)]

EmptyProgram == [code |-> << >>, strings |-> << >>, reals |-> << >>]

-----------------------------------------------------------------------------

CurrentAddress(p) == Len(p.code)

Emit(p, op, lev, opd) ==
  [p EXCEPT !.code = Append(@, Instr(op, lev, opd))]

EmitOpr(p, name) == Emit(p, "OPR", 0, OprNumber(name))

Patch(p, address, opd) == [p EXCEPT !.code[address + 1].operand = opd]

AddString(p, t) == [p EXCEPT !.strings = Append(@, t)]

AddReal(p, r) == [p EXCEPT !.reals = Append(@, r)]

InPool(pool, index) == 0 <= index /\ index < Len(pool)

(* A jump may go to the end of the program, where execution stops.         *)
IsJumpTarget(p, address) == 0 <= address /\ address <= Len(p.code)

=============================================================================
