----------------------------- MODULE Interpreter -----------------------------
(***************************************************************************)
(* The interpreter of the intermediate code (class Interpreter): a stack   *)
(* machine that keeps every activation record on one stack.                *)
(*                                                                         *)
(* A frame at base b holds the static link at b, the dynamic link at b+1,  *)
(* the return address at b+2, the local variables from b+3 on, and above   *)
(* them the operands of the expression under evaluation.  The arguments of *)
(* a call lie just below b, pushed by the caller.                          *)
(*                                                                         *)
(* One action per instruction, and one, Throw, for the exceptions: Fault   *)
(* collects the conditions under which an instruction throws.  After an    *)
(* exception execute's caller reads nothing of the machine but the fact    *)
(* that it failed, so Throw changes only the status and the two classes of *)
(* exceptions (runtime_error, out_of_range) are one.                       *)
(***************************************************************************)
EXTENDS StackMachine

CONSTANTS
  Programs,   \* the programs to execute
  Inputs      \* the inputs to execute them on: sequences of non-empty lines

INSTANCE InstructionProgram WITH
  OperandRange <- Int32,
  PoolText     <- Text,
  PoolReal     <- {v \in Value : v.kind = "Real"}

ASSUME ProgramsAssumption ==
  /\ Programs \subseteq Program
  /\ \A p \in Programs : Len(p.code) <= IntMax

ASSUME InputsAssumption == Inputs \subseteq Seq(Seq(Words) \ {<< >>})

VARIABLES
  program,   \* the program under execution, never changed
  stack,     \* machine_
  bp,        \* bp_, a size_t: the base of the running frame
  ip,        \* ip_, a size_t: the address of the next instruction
  output,    \* output_: the texts written so far
  input,     \* what is left of the input
  status     \* running; halted by RET, ran off the end, or threw

vars == << program, stack, bp, ip, output, input, status >>

HeaderSize == 3   \* FRAME_HEADER_SIZE: static link, dynamic link, return address

Status == {"running", "halted", "ran off", "error"}

OutputItem == [text : Text, newline : BOOLEAN]

(* The machine as the constructor and execute leave it before the loop.    *)
Ready ==
  /\ input \in Inputs
  /\ stack = << IntegerValue(0), IntegerValue(0), IntegerValue(0) >>
  /\ bp = 0
  /\ ip = 0
  /\ output = << >>
  /\ status = "running"

Init == program \in Programs /\ Ready

-----------------------------------------------------------------------------
(* The instruction under execution and what makes it throw.                *)

Cur == program.code[ip + 1]

Fetching == status = "running" /\ ip < Len(program.code)

(* validateInstruction.                                                    *)
InvalidInstruction(i) ==
  \/ i.opcode = "INT" /\ (i.level # 0 \/ i.operand < HeaderSize)
  \/ /\ i.opcode \in {"LIT", "LITB", "LITS", "LITR", "JMP", "JPC", "OPR", "LODI", "STOI"}
     /\ i.level # 0
  \/ i.opcode \in {"LOD", "STO", "CAL", "ADDR", "RET"} /\ i.level < 0
  \/ i.opcode = "RET" /\ i.operand \notin {0, 1}
  \/ i.opcode = "CHK" /\ i.level > i.operand
  \/ i.opcode \in {"JMP", "JPC", "CAL"} /\ ~IsJumpTarget(program, i.operand)

FrameBase(i) == WalkStaticChain(stack, bp, i.level)

Address(i) == WrapInt(AsInt(FrameBase(i)) + i.operand)

(* The bound of a direct access: all of the running frame, and for an      *)
(* outer frame everything below the running one.                           *)
FrameTop(i) == IF FrameBase(i) = bp THEN Len(stack) ELSE bp

(* Mutant: the header is protected from direct accesses of level 0 only.   *)
SlotFaultOwnHeader(i) ==
  \/ ~FrameFound(stack, bp, i.level)
  \/ i.level = 0 /\ i.operand \in 0 .. HeaderSize - 1
  \/ ~(0 <= Address(i) /\ Address(i) < FrameTop(i))

SlotFault(i) ==
  \/ ~FrameFound(stack, bp, i.level)
  \/ i.operand \in 0 .. HeaderSize - 1
  \/ ~(0 <= Address(i) /\ Address(i) < FrameTop(i))

LodFault(i) == SlotFault(i) \/ ~Within(stack, Address(i)) \/ ~HasRoom(stack, 1)

(* The value to store is popped before the slot is written.                *)
StoFault(i) == SlotFault(i) \/ ~Within(stack, Address(i) + 1)

CalFault(i) == ~FrameFound(stack, bp, i.level) \/ ~HasRoom(stack, HeaderSize)

AddrFault(i) ==
  ~FrameFound(stack, bp, i.level) \/ Address(i) < 0 \/ ~HasRoom(stack, 1)

LodiFault ==
  \/ stack = << >> \/ ~IsInteger(Top(stack))
  \/ ~(0 <= Top(stack).num /\ Top(stack).num < Len(stack) - 1)

StoiFault ==
  \/ ~Holds2(stack) \/ ~IsInteger(Top(stack))
  \/ ~(0 <= Top(stack).num /\ Top(stack).num < Len(stack) - 2)

ChkFault(i) ==
  \/ stack = << >> \/ Top(stack).kind \notin {"Integer", "Boolean"}
  \/ ~(i.level <= Top(stack).num /\ Top(stack).num <= i.operand)

(* The header slots RET reads, and the bottom of what it removes.          *)
DynamicLink   == At(stack, (bp + 1) % SizeModulus)
ReturnAddress == At(stack, (bp + 2) % SizeModulus)
CleanupBase(i) == bp - i.level

(* Mutant: the dynamic link may lead up to the frame that is left.         *)
RetFaultAnyLink(i) ==
  \/ i.level > bp
  \/ Len(stack) < i.operand
  \/ \E k \in 1 .. 2 : LET slot == (bp + k) % SizeModulus IN
       slot >= Len(stack) - i.operand \/ ~IsInteger(At(stack, slot))
  \/ bp > 0 /\ ~(0 <= DynamicLink.num /\ DynamicLink.num <= bp)
  \/ CleanupBase(i) > Len(stack) - i.operand

(* Mutant: below the arguments the caller must have more than its header.  *)
RetFaultAboveHeader(i) ==
  \/ i.level > bp
  \/ Len(stack) < i.operand
  \/ \E k \in 1 .. 2 : LET slot == (bp + k) % SizeModulus IN
       slot >= Len(stack) - i.operand \/ ~IsInteger(At(stack, slot))
  \/ bp > 0 /\ ~(0 <= DynamicLink.num /\ DynamicLink.num + HeaderSize < CleanupBase(i))
  \/ CleanupBase(i) > Len(stack) - i.operand

RetFault(i) ==
  \/ i.level > bp
  \/ Len(stack) < i.operand
  \/ \E k \in 1 .. 2 : LET slot == (bp + k) % SizeModulus IN
       slot >= Len(stack) - i.operand \/ ~IsInteger(At(stack, slot))
  \/ bp > 0 /\ ~(0 <= DynamicLink.num /\ DynamicLink.num < CleanupBase(i))
  \/ CleanupBase(i) > Len(stack) - i.operand

(* The text the next read takes: a word, or for readln the rest of a line. *)
NextText(wholeLine) ==
  IF wholeLine THEN Head(input) ELSE << Head(Head(input)) >>

ReadsFault(wholeLine) ==
  \/ ~Holds2(stack) \/ ~IsNumeric(Top(stack)) \/ ~IsNumeric(Second(stack))
  \/ ~(0 <= Truncated(Second(stack)) /\ Truncated(Second(stack)) < Len(stack) - 2)
  \/ input = << >>
  \/ ReadFault(Truncated(Top(stack)), NextText(wholeLine))

OprFault(name) ==
  \/ name = "invalid"
  \/ name = "NEG" /\ (stack = << >> \/ NegFault(Top(stack)))
  \/ name \in ArithOps /\ (~Holds2(stack) \/ ArithFault(name, Second(stack), Top(stack)))
  \/ name \in CompareOps /\ ~Holds2(stack)
  \/ name \in {"WRT", "WRTLN", "POP"} /\ stack = << >>
  \/ name \in {"RDI", "RDLN"} /\ ReadsFault(name = "RDLN")

Fault ==
  LET i == Cur IN
  \/ InvalidInstruction(i)
  \/ i.opcode = "INT" /\ ~HasRoom(stack, i.operand - HeaderSize)
  \/ i.opcode \in {"LIT", "LITB", "LITS", "LITR"} /\ ~HasRoom(stack, 1)
  \/ i.opcode = "LITS" /\ ~InPool(program.strings, i.operand)
  \/ i.opcode = "LITR" /\ ~InPool(program.reals, i.operand)
  \/ i.opcode = "LOD" /\ LodFault(i)
  \/ i.opcode = "STO" /\ StoFault(i)
  \/ i.opcode = "JPC" /\ (stack = << >> \/ ~IsNumeric(Top(stack)))
  \/ i.opcode = "CAL" /\ CalFault(i)
  \/ i.opcode = "RET" /\ RetFault(i)
  \/ i.opcode = "ADDR" /\ AddrFault(i)
  \/ i.opcode = "LODI" /\ LodiFault
  \/ i.opcode = "STOI" /\ StoiFault
  \/ i.opcode = "CHK" /\ ChkFault(i)
  \/ i.opcode = "OPR" /\ OprFault(OprName(i.operand))

Succeeds == ~Fault

-----------------------------------------------------------------------------
(* The instructions.                                                       *)

Step(op) == Fetching /\ Cur.opcode = op /\ Succeeds

StepOpr(names) == Step("OPR") /\ OprName(Cur.operand) \in names

(* An instruction that only works on the stack.                            *)
Leave(newStack) ==
  /\ stack' = newStack
  /\ ip' = ip + 1
  /\ UNCHANGED << program, bp, output, input, status >>

PushValue(v) == Leave(Append(stack, v))

(* The frame of the main program has its header before execution starts,   *)
(* that of a subprogram gets it from CAL: INT adds the variables.          *)
INT ==
  /\ Step("INT")
  /\ Leave(stack \o [k \in 1 .. Cur.operand - HeaderSize |-> IntegerValue(0)])

LIT  == Step("LIT")  /\ PushValue(IntegerValue(Cur.operand))
LITB == Step("LITB") /\ PushValue(BooleanValue(Cur.operand # 0))
LITS == Step("LITS") /\ PushValue(StringValue(program.strings[Cur.operand + 1]))
LITR == Step("LITR") /\ PushValue(program.reals[Cur.operand + 1])

LOD  == Step("LOD")  /\ PushValue(At(stack, Address(Cur)))
ADDR == Step("ADDR") /\ PushValue(IntegerValue(Address(Cur)))

STO == Step("STO") /\ Leave(SetAt(Popped(stack, 1), Address(Cur), Top(stack)))

LODI ==
  /\ Step("LODI")
  /\ Leave(Append(Popped(stack, 1), At(stack, Top(stack).num)))

STOI ==
  /\ Step("STOI")
  /\ Leave(SetAt(Popped(stack, 2), Top(stack).num, Second(stack)))

CHK ==
  /\ Step("CHK")
  /\ Leave(Append(Popped(stack, 1), IntegerValue(Top(stack).num)))

JMP ==
  /\ Step("JMP")
  /\ ip' = Cur.operand
  /\ UNCHANGED << program, stack, bp, output, input, status >>

JPC ==
  /\ Step("JPC")
  /\ stack' = Popped(stack, 1)
  /\ ip' = IF Holds(Top(stack)) THEN ip + 1 ELSE Cur.operand
  /\ UNCHANGED << program, bp, output, input, status >>

(* The return address is that of the instruction after CAL.                *)
CAL ==
  /\ Step("CAL")
  /\ stack' = stack \o << IntegerValue(AsInt(FrameBase(Cur))),
                          IntegerValue(AsInt(bp)), IntegerValue(ip + 1) >>
  /\ bp' = Len(stack)
  /\ ip' = Cur.operand
  /\ UNCHANGED << program, output, input, status >>

(* RET of the main program stops; any other goes back to the caller with   *)
(* the arguments removed and the result, if there is one, in their place.  *)
(* The saved return address is not checked.                                *)
RET ==
  /\ Step("RET")
  /\ IF bp = 0 /\ DynamicLink.num = 0
     THEN /\ stack' = << >>
          /\ ip' = ip + 1
          /\ status' = "halted"
          /\ UNCHANGED bp
     ELSE /\ stack' = PopTo(stack, CleanupBase(Cur))
                       \o (IF Cur.operand = 1 THEN << Top(stack) >> ELSE << >>)
          /\ bp' = AsSize(DynamicLink.num)
          /\ ip' = AsSize(ReturnAddress.num)
          /\ UNCHANGED status
  /\ UNCHANGED << program, output, input >>

Negate == StepOpr({"NEG"}) /\ Leave(Append(Popped(stack, 1), Negated(Top(stack))))

BinaryArithmetic ==
  /\ StepOpr(ArithOps)
  /\ Leave(Append(Popped(stack, 2),
                  Arith(OprName(Cur.operand), Second(stack), Top(stack))))

BinaryComparison ==
  /\ StepOpr(CompareOps)
  /\ Leave(Append(Popped(stack, 2),
                  Compare(OprName(Cur.operand), Second(stack), Top(stack))))

Write ==
  /\ StepOpr({"WRT", "WRTLN"})
  /\ stack' = Popped(stack, 1)
  /\ output' = Append(output, [text    |-> ToText(Top(stack)),
                               newline |-> OprName(Cur.operand) = "WRTLN"])
  /\ ip' = ip + 1
  /\ UNCHANGED << program, bp, input, status >>

Discard == StepOpr({"POP"}) /\ Leave(Popped(stack, 1))

(* executeRead: what is left of a line stays for the next read; an empty   *)
(* rest is skipped with the white space.                                   *)
Read ==
  /\ StepOpr({"RDI", "RDLN"})
  /\ LET wholeLine == OprName(Cur.operand) = "RDLN"
         address   == Truncated(Second(stack))
         line      == Head(input)
     IN  /\ stack' = SetAt(Popped(stack, 2), address,
                           ReadResult(Truncated(Top(stack)), NextText(wholeLine)))
         /\ input' = IF wholeLine \/ Len(line) = 1 THEN Tail(input)
                     ELSE << Tail(line) >> \o Tail(input)
  /\ ip' = ip + 1
  /\ UNCHANGED << program, bp, output, status >>

(* An exception ends execute.                                              *)
Throw ==
  /\ Fetching
  /\ ~Succeeds
  /\ status' = "error"
  /\ UNCHANGED << program, stack, bp, ip, output, input >>

(* The loop of execute ends when ip leaves the program.                    *)
RunOff ==
  /\ status = "running"
  /\ ip >= Len(program.code)
  /\ status' = "ran off"
  /\ UNCHANGED << program, stack, bp, ip, output, input >>

Stopped == status # "running" /\ UNCHANGED vars

Execute ==
  \/ INT \/ LIT \/ LITB \/ LITS \/ LITR
  \/ LOD \/ STO \/ ADDR \/ LODI \/ STOI \/ CHK
  \/ JMP \/ JPC \/ CAL \/ RET
  \/ Negate \/ BinaryArithmetic \/ BinaryComparison \/ Write \/ Discard \/ Read
  \/ Throw \/ RunOff

Next == Execute \/ Stopped

Spec == Init /\ [][Next]_vars

FairSpec == Spec /\ WF_vars(Execute)

-----------------------------------------------------------------------------
(* The activations on the stack: the running one, and those its dynamic    *)
(* link and theirs lead to.                                                *)

Saved(base, slot) == At(stack, base + slot).num

ActiveBases ==
  LET below[b \in 0 .. Len(stack)] ==
        {b} \cup (IF b = 0 \/ ~Within(stack, b + 1) THEN {}
                  ELSE IF Saved(b, 1) \in 0 .. b - 1 THEN below[Saved(b, 1)] ELSE {})
  IN  below[bp]

-----------------------------------------------------------------------------
(* Properties of every program, compiled or written by hand.               *)

(* The machine holds well-formed values only: an Integer never leaves the  *)
(* 32 bits whatever was computed or read, and the stack never exceeds      *)
(* MAX_STACK_SIZE.  bp and ip may leave the stack and the program, but     *)
(* only to what the conversion of an int to a size_t yields.               *)
TypeOK ==
  /\ program \in Program /\ Len(program.code) <= IntMax
  /\ stack \in Seq(StackValue)
  /\ Len(stack) <= MaxStackSize
  /\ bp \in Register
  /\ ip \in Register
  /\ output \in Seq(OutputItem)
  /\ input \in Seq(Seq(Words) \ {<< >>})
  /\ status \in Status

(* A return from a subprogram always unwinds, even when the program has    *)
(* overwritten its own frame header: the caller's frame lies below the     *)
(* arguments, and nothing below them is touched.                           *)
ReturnUnwinds ==
  [][Fetching /\ Cur.opcode = "RET" /\ bp > 0 /\ status' = "running" =>
       /\ bp' + Cur.level < bp
       /\ PopTo(stack', bp - Cur.level) = PopTo(stack, bp - Cur.level)
       /\ Len(stack') = bp - Cur.level + Cur.operand]_vars

(* A store to a variable never overwrites the links and the return address *)
(* of the running activation, nor those of the activation it stores into,  *)
(* whatever the level and the operand of the instruction, and however the  *)
(* addition of base and operand wraps around.                              *)
StoresSpareHeaders ==
  [][Fetching /\ Cur.opcode = "STO" /\ status' = "running" =>
       \A base \in {bp, FrameBase(Cur)}, k \in 0 .. HeaderSize - 1 :
         Within(stack', base + k) => At(stack', base + k) = At(stack, base + k)]_vars

(* A load or a store through the static chain stays below the activations  *)
(* that were started after the one it is meant for.                        *)
NoAccessAcrossFrames ==
  Fetching /\ Succeeds /\ Cur.opcode \in {"LOD", "STO"} =>
    \A b \in ActiveBases : FrameBase(Cur) < b => Address(Cur) < b

=============================================================================
