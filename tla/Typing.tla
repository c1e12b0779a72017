-------------------------------- MODULE Typing --------------------------------
(***************************************************************************)
(* What the type checker's acceptance promises about the execution: the    *)
(* compiled program of module Backend, with a record of the slots that     *)
(* were given a value.                                                     *)
(***************************************************************************)
EXTENDS Backend

VARIABLE assigned   \* the stack's slots stored to since their frame exists

typingVars == << allVars, assigned >>

TypingInit == BackendInit /\ assigned = {}

(* The slot the current instruction stores to, if it stores.               *)
StoreTarget ==
  IF ~Fetching \/ ~Succeeds THEN {}
  ELSE CASE Cur.opcode = "STO"  -> {Address(Cur)}
         [] Cur.opcode = "STOI" -> {Top(stack).num}
         [] Cur.opcode = "OPR" /\ OprName(Cur.operand) \in {"RDI", "RDLN"} ->
              {Truncated(Second(stack))}
         [] OTHER -> {}

TypingNext ==
  /\ BackendNext
  /\ assigned' = {a \in assigned \cup StoreTarget : a < Len(stack')}

TypingSpec == TypingInit /\ [][TypingNext]_typingVars

-----------------------------------------------------------------------------
(* An accepted program never stops because a value has the wrong kind: no  *)
(* text is added, negated or tested, no remainder is taken of a Real, and  *)
(* an index is an Integer.                                                 *)
NoTypeFault ==
  status = "running" /\ Fetching /\ stack # << >> =>
    /\ Cur.opcode = "JPC" => IsNumeric(Top(stack))
    /\ Cur.opcode = "CHK" => IsInteger(Top(stack))
    /\ Cur.opcode = "OPR" =>
         LET op == OprName(Cur.operand) IN
         /\ op \in ArithOps \cup {"NEG"} => IsNumeric(Top(stack))
         /\ op \in ArithOps => IsNumeric(Second(stack))
         /\ op = "MOD" => ~UsesReal(op, Second(stack), Top(stack))

(* A variable of the program or of a subprogram is read only after a value *)
(* was stored there.                                                       *)
LoadsAreAssigned ==
  Entered /\ Succeeds /\ Cur.opcode = "LOD" =>
    (Address(Cur) \in VariableSlots(FrameBase(Cur)) => Address(Cur) \in assigned)

(* A function returns by an explicit return or assignment to its name: the *)
(* 0 that is returned where its code ends, two instructions before what    *)
(* the jump over the function leads to, is never reached.                  *)
FunctionsReturn ==
  \A u \in DOMAIN layout.units :
    layout.units[u].result = 1 => ip # program.code[u].operand - 2

=============================================================================
