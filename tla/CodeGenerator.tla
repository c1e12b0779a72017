---------------------------- MODULE CodeGenerator ----------------------------
(***************************************************************************)
(* The code generator (class CodeGenerator): a decorated tree and its      *)
(* symbol table to a program of the stack machine.  The members of the     *)
(* class are the fields of a record g that every operator returns changed: *)
(*   program   the instructions emitted so far                             *)
(*   table     the symbol table                                            *)
(*   level     currentLevel_                                               *)
(*   entries   procAddresses_: table index -> address of the INT           *)
(*   psizes    procPsizeByLevel_: psizes[l + 1] belongs to level l         *)
(*   failed    an exception was thrown: nothing more is generated, and     *)
(*             nothing of g is used                                        *)
(***************************************************************************)
EXTENDS ScopeBuilder, InstructionProgram

FRAME_HEADER_SIZE == 3

EmitTo(g, op, lev, opd) == [g EXCEPT !.program = Emit(@, op, lev, opd)]

EmitOp(g, name) == [g EXCEPT !.program = EmitOpr(@, name)]

Here(g) == CurrentAddress(g.program)

(* Mutant: the jump goes to the last instruction emitted.                  *)
PatchHereShort(g, address) == [g EXCEPT !.program = Patch(@, address, CurrentAddress(@) - 1)]

(* The jump at an address goes to the next instruction to be emitted.      *)
PatchHere(g, address) == [g EXCEPT !.program = Patch(@, address, CurrentAddress(@))]

Failed(g) == [g EXCEPT !.failed = TRUE]

FailedIf(condition, g) == IF condition THEN Failed(g) ELSE g

EntryOf(g, node) == TabAt(g.table, node.tabIdx)

-----------------------------------------------------------------------------
(* Addresses and sizes.                                                    *)

PsizeOf(g, lev) == IF lev \in 0 .. Len(g.psizes) - 1 THEN g.psizes[lev + 1] ELSE 0

SetPsize(g, lev, psze) ==
  [g EXCEPT !.psizes = [l \in 1 .. Max({Len(g.psizes), lev + 1}) |->
                          IF l = lev + 1 THEN psze
                          ELSE IF l <= Len(g.psizes) THEN g.psizes[l] ELSE 0]]

(* Mutant: a variable's address still counts the parameters before it.     *)
AddressOfEntryCountingParameters(g, e) ==
  IF e.obj = "parameter" THEN e.adr - PsizeOf(g, e.lev) ELSE e.adr + FRAME_HEADER_SIZE

(* Parameters lie below the frame, variables above its header.             *)
AddressOfEntry(g, e) ==
  e.adr - PsizeOf(g, e.lev) + (IF e.obj = "parameter" THEN 0 ELSE FRAME_HEADER_SIZE)

VariableAddress(g, node) == AddressOfEntry(g, EntryOf(g, node))

(* Mutant: the level of the declared block is taken for the declaration's. *)
LevelDifferenceShort(g, node) ==
  IF node.tabIdx = NO_INDEX THEN 0 ELSE Max({0, g.level - EntryOf(g, node).lev - 1})

LevelDifference(g, node) ==
  IF node.tabIdx = NO_INDEX THEN 0 ELSE Max({0, g.level - EntryOf(g, node).lev})

(* The slots of a block: up to the end of its last variable, parameter or  *)
(* field, whose size may be that of another block.                         *)
RECURSIVE BlockVariableSize(_, _)

TypeSize(t, type, ref) ==
  IF ref = NO_INDEX THEN 1
  ELSE IF type = "Array" THEN Max({1, ATabAt(t, ref).size})
  ELSE IF type = "Record" THEN Max({1, BlockVariableSize(t, ref)})
  ELSE 1

BlockVariableSize(t, block) ==
  LET end(e) == e.adr + TypeSize(t, e.type, e.ref)
      ends[i \in {NO_INDEX} \cup 0 .. Len(t.tab) - 1] ==
        IF i = NO_INDEX THEN {0, BTabAt(t, block).vsze}
        ELSE ends[TabAt(t, i).link] \cup
               {end(e) : e \in {x \in {TabAt(t, i)} : x.obj \in {"variable", "parameter", "field"}}}
  IN  Max(ends[BTabAt(t, block).last])

InitialFrameSize(g, node) ==
  FRAME_HEADER_SIZE + BlockVariableSize(g.table, EntryOf(g, node).ref)

ProcFrameSize(g, block) ==
  FRAME_HEADER_SIZE +
    Max({0, BlockVariableSize(g.table, block) - BTabAt(g.table, block).psze})

-----------------------------------------------------------------------------
(* Expressions.  A node of the wrong kind makes the generator throw.       *)

MapBinaryOp(op) ==
  CASE op = "Add" -> "ADD"  [] op = "Sub" -> "SUB"
    [] op = "Mul" -> "MUL"  [] op = "And" -> "MUL"
    [] op = "Div" -> "DIV"  [] op = "IntDiv" -> "DIV"
    [] op = "Mod" -> "MOD"
    [] op = "Eq" -> "EQL"   [] op = "Ne" -> "NEQ"
    [] op = "Lt" -> "LSS"   [] op = "Le" -> "LEQ"
    [] op = "Gt" -> "GTR"   [] op = "Ge" -> "GEQ"

RECURSIVE GenerateExpression(_, _)

GenerateExpressions(g, nodes) == FoldLeft(GenerateExpression, g, nodes)

(* The constant's value is its address; a String has no code.              *)
LoadEntry(g, node, e) ==
  CASE e.obj = "constant" -> EmitTo(g, "LIT", 0, e.adr)
    [] e.obj \in {"variable", "parameter"} ->
         EmitTo(g, "LOD", LevelDifference(g, node), AddressOfEntry(g, e))
    [] OTHER -> Failed(g)

GenerateVar(g, node) ==
  IF node.tabIdx = NO_INDEX THEN Failed(g) ELSE LoadEntry(g, node, EntryOf(g, node))

(* Mutant: the bounds of the index are not checked.                        *)
EmitOffsetUnchecked(g, a) ==
  EmitOp(EmitTo(EmitOp(EmitTo(g, "LIT", 0, a.low), "SUB"), "LIT", 0, a.elsz), "MUL")

(* The offset of the element whose index has been pushed, after a check.   *)
EmitOffset(g, a) ==
  EmitOp(EmitTo(EmitOp(EmitTo(EmitTo(g, "CHK", a.low, a.high), "LIT", 0, a.low), "SUB"),
                "LIT", 0, a.elsz), "MUL")

(* acc: [g, ref], the generator and the array type of the next dimension.  *)
GenerateIndex(acc, index) ==
  IF acc.ref = NO_INDEX THEN [acc EXCEPT !.g = Failed(@)]
  ELSE [g   |-> EmitOp(EmitOffset(GenerateExpression(acc.g, index),
                                  ATabAt(acc.g.table, acc.ref)), "ADD"),
        ref |-> ATabAt(acc.g.table, acc.ref).eref]

EmitField(g, offset) == IF offset = 0 THEN g ELSE EmitOp(EmitTo(g, "LIT", 0, offset), "ADD")

RECURSIVE GenerateAddress(_, _)
GenerateAddress(g, node) ==
  CASE node.kind = "Var" ->
         IF node.tabIdx = NO_INDEX THEN Failed(g)
         ELSE EmitTo(g, "ADDR", LevelDifference(g, node), VariableAddress(g, node))
    [] node.kind = "ArrayAccess" ->
         FoldLeft(GenerateIndex,
                  [g |-> GenerateAddress(g, node.base), ref |-> node.base.typeRef],
                  node.indices).g
    [] node.kind = "FieldAccess" ->
         EmitField(GenerateAddress(g, node.base),
                   IF node.tabIdx = NO_INDEX THEN 0 ELSE EntryOf(g, node).adr)
    [] OTHER -> Failed(g)

TypeCode(type) ==
  CASE type \in {"Integer", "Subrange", "Enumerated"} -> 1
    [] type = "Real" -> 2
    [] type = "Char" -> 3
    [] type = "Boolean" -> 4
    [] type = "String" -> 5
    [] OTHER -> 0

RuntimeTypeCode(g, node) ==
  TypeCode(IF node.inferredType = "Unknown" /\ node.tabIdx # NO_INDEX
           THEN EntryOf(g, node).type ELSE node.inferredType)

GenerateRead(g, node, op, code) ==
  IF code = 0 THEN Failed(g)
  ELSE EmitOp(EmitTo(GenerateAddress(g, node), "LIT", 0, code), op)

(* The names of the built-in procedures are tested before the table is     *)
(* asked what the name means.                                              *)
GenerateWrite(g, node, lastOp) ==
  FoldLeftDomain(LAMBDA h, i :
                   EmitOp(GenerateExpression(h, node.args[i]),
                          IF i = Len(node.args) THEN lastOp ELSE "WRT"),
                 FailedIf(node.args = << >>, g), node.args)

GenerateReads(g, node, op) ==
  FoldLeft(LAMBDA h, target : GenerateRead(h, target, op, RuntimeTypeCode(h, target)),
           FailedIf(node.args = << >>, g), node.args)

GenerateUserCall(g, node) ==
  IF \/ node.tabIdx = NO_INDEX
     \/ EntryOf(g, node).obj \notin {"procedure", "function"}
     \/ node.tabIdx \notin DOMAIN g.entries
  THEN Failed(g)
  ELSE EmitTo(GenerateExpressions(g, node.args), "CAL", LevelDifference(g, node),
              g.entries[node.tabIdx])

GenerateProcCall(g, node) ==
  CASE Folded[node.name] = "write"   -> GenerateWrite(g, node, "WRT")
    [] Folded[node.name] = "writeln" -> GenerateWrite(g, node, "WRTLN")
    [] Folded[node.name] = "read"    -> GenerateReads(g, node, "RDI")
    [] Folded[node.name] = "readln"  -> GenerateReads(g, node, "RDLN")
    [] OTHER                         -> GenerateUserCall(g, node)

EmitUnary(g, op) ==
  CASE op = "Plus"  -> g
    [] op = "Minus" -> EmitOp(g, "NEG")
    [] op = "Not"   -> EmitOp(EmitTo(g, "LIT", 0, 0), "EQL")

(* Or is the sign of the sum.                                              *)
EmitBinary(g, op) ==
  IF op = "Or" THEN EmitOp(EmitTo(EmitOp(g, "ADD"), "LIT", 0, 0), "GTR")
  ELSE EmitOp(g, MapBinaryOp(op))

GenerateExpression(g, node) ==
  IF g.failed THEN g ELSE
  CASE node.kind = "Nil"      -> g
    [] node.kind = "ProcCall" -> GenerateProcCall(g, node)
    [] node.kind = "Var"      -> GenerateVar(g, node)
    [] node.kind \in {"IntLit", "CharLit"} -> EmitTo(g, "LIT", 0, node.value)
    [] node.kind = "BoolLit"  -> EmitTo(g, "LITB", 0, IF node.value THEN 1 ELSE 0)
    [] node.kind = "RealLit"  ->
         EmitTo([g EXCEPT !.program = AddReal(@, node.value)],
                "LITR", 0, Len(g.program.reals))
    [] node.kind = "StringLit" ->
         EmitTo([g EXCEPT !.program = AddString(@, node.value)],
                "LITS", 0, Len(g.program.strings))
    [] node.kind \in {"ArrayAccess", "FieldAccess"} ->
         EmitTo(GenerateAddress(g, node), "LODI", 0, 0)
    [] node.kind = "UnaryOp"  -> EmitUnary(GenerateExpression(g, node.operand), node.op)
    [] node.kind = "BinOp"    ->
         EmitBinary(GenerateExpressions(g, << node.lhs, node.rhs >>), node.op)
    [] OTHER                  -> Failed(g)

-----------------------------------------------------------------------------
(* Statements.                                                             *)

(* A jump whose target is patched later.                                   *)
EmitJump(g, op) == EmitTo(g, op, 0, 0)

StoreOp(g, node) == EmitTo(g, "STO", LevelDifference(g, node), VariableAddress(g, node))
LoadOp(g, node)  == EmitTo(g, "LOD", LevelDifference(g, node), VariableAddress(g, node))

GenerateStore(g, target) ==
  CASE target.kind = "Var" ->
         IF target.tabIdx = NO_INDEX THEN Failed(g) ELSE StoreOp(g, target)
    [] target.kind \in {"ArrayAccess", "FieldAccess"} ->
         EmitTo(GenerateAddress(g, target), "STOI", 0, 0)
    [] OTHER -> Failed(g)

RECURSIVE GenerateStatement(_, _)

GenerateStatements(g, nodes) == FoldLeft(GenerateStatement, g, nodes)

GenerateReturn(g, node) ==
  EmitTo(GenerateExpression(g, node.value), "RET", PsizeOf(g, g.level),
         IF IsNil(node.value) THEN 0 ELSE 1)

(* A statement of parts is generated by operators that each take the       *)
(* generator behind the part before.                                       *)
IfTaken(taken, node, jpc) ==
  IF IsNil(node.elseStmt) THEN PatchHere(taken, jpc)
  ELSE PatchHere(GenerateStatement(PatchHere(EmitJump(taken, "JMP"), jpc), node.elseStmt),
                 Here(taken))

IfTested(tested, node) ==
  IfTaken(GenerateStatement(EmitJump(tested, "JPC"), node.thenStmt), node, Here(tested))

GenerateIf(g, node) == IfTested(GenerateExpression(g, node.condition), node)

(* Mutant: the jump at the end of the loop goes to itself.                 *)
CloseLoopStuck(body, start, exit) == PatchHere(EmitTo(body, "JMP", 0, Here(body)), exit)

(* Back to the start, behind which the jump at exit goes.                  *)
CloseLoop(body, start, exit) == PatchHere(EmitTo(body, "JMP", 0, start), exit)

WhileTested(tested, node, start) ==
  CloseLoop(GenerateStatement(EmitJump(tested, "JPC"), node.body), start, Here(tested))

GenerateWhile(g, node) == WhileTested(GenerateExpression(g, node.condition), node, Here(g))

GenerateRepeat(g, node) ==
  EmitTo(GenerateExpression(GenerateStatement(g, node.body), node.condition),
         "JPC", 0, Here(g))

ForNext(body, node) ==
  StoreOp(EmitOp(EmitTo(LoadOp(body, node), "LIT", 0, 1), IF node.downto THEN "SUB" ELSE "ADD"),
          node)

ForTested(tested, node, start) ==
  CloseLoop(ForNext(GenerateStatement(EmitJump(tested, "JPC"), node.body), node),
            start, Here(tested))

(* The end expression is evaluated anew before every iteration.            *)
ForStarted(start, node) ==
  ForTested(EmitOp(GenerateExpression(LoadOp(start, node), node.endExpr),
                   IF node.downto THEN "GEQ" ELSE "LEQ"),
            node, Here(start))

GenerateFor(g, node) ==
  IF node.tabIdx = NO_INDEX THEN Failed(g)
  ELSE ForStarted(StoreOp(GenerateExpression(g, node.startExpr), node), node)

(* acc: [g, jumps], the jumps to patch later.                              *)
LabelTested(tested, jumps) ==
  [g     |-> PatchHere(EmitJump(EmitJump(tested, "JPC"), "JMP"), Here(tested)),
   jumps |-> Append(jumps, Here(tested) + 1)]

(* The selector is evaluated anew for every label.                         *)
GenerateLabels(g, selector, labels) ==
  FoldLeft(LAMBDA acc, label :
             LabelTested(EmitOp(GenerateExpressions(acc.g, << selector, label >>), "EQL"),
                         acc.jumps),
           [g |-> g, jumps |-> << >>], labels)

PatchAll(g, jumps) == FoldLeft(PatchHere, g, jumps)

BranchEnded(body, noMatch, ends) ==
  [g |-> PatchHere(EmitJump(body, "JMP"), noMatch), jumps |-> Append(ends, Here(body))]

BranchTested(labels, statement, ends) ==
  BranchEnded(GenerateStatement(PatchAll(EmitJump(labels.g, "JMP"), labels.jumps), statement),
              Here(labels.g), ends)

GenerateBranch(acc, selector, branch) ==
  IF branch.labels = << >> THEN acc
  ELSE BranchTested(GenerateLabels(acc.g, selector, branch.labels), branch.statement, acc.jumps)

BranchesEnded(all) == PatchAll(all.g, all.jumps)

GenerateCase(g, node) ==
  BranchesEnded(FoldLeft(LAMBDA acc, branch : GenerateBranch(acc, node.selector, branch),
                         [g |-> g, jumps |-> << >>], node.branches))

(* Mutant: the result of a function called as a statement stays.           *)
KeepResult(g, node) == g

(* A function called as a statement leaves its result, which is dropped.   *)
DropResult(g, node) ==
  IF node.tabIdx # NO_INDEX /\ EntryOf(g, node).obj = "function" THEN EmitOp(g, "POP") ELSE g

GenerateStatement(g, node) ==
  IF g.failed THEN g ELSE
  CASE node.kind = "Nil"      -> g
    [] node.kind = "Assign"   -> GenerateStore(GenerateExpression(g, node.value), node.target)
    [] node.kind = "ProcCall" -> DropResult(GenerateProcCall(g, node), node)
    [] node.kind = "Return"   -> GenerateReturn(g, node)
    [] node.kind = "If"       -> GenerateIf(g, node)
    [] node.kind = "While"    -> GenerateWhile(g, node)
    [] node.kind = "Repeat"   -> GenerateRepeat(g, node)
    [] node.kind = "For"      -> GenerateFor(g, node)
    [] node.kind = "Case"     -> GenerateCase(g, node)
    [] node.kind = "Compound" -> GenerateStatements(g, node.statements)
    [] OTHER                  -> Failed(g)

-----------------------------------------------------------------------------
(* Declarations: a subprogram's code is jumped over where it is declared.  *)

RECURSIVE GenerateSubprogram(_, _)

GenerateNestedDeclarations(g, nodes) ==
  FoldLeft(LAMBDA h, node :
             IF node.kind \in {"ProcDecl", "FuncDecl"} THEN GenerateSubprogram(h, node) ELSE h,
           g, nodes)

GenerateBlock(g, node) ==
  GenerateStatements(GenerateNestedDeclarations(g, node.declarations), node.statements)

(* The block's own level and its address, at which the frame is made.      *)
EnterBlock(g, node, psze) ==
  [SetPsize(g, node.level, psze) EXCEPT !.entries = (node.tabIdx :> Here(g)) @@ @,
                                        !.level = node.level]

EnterSubprogram(g, node, psze) ==
  EmitTo(EnterBlock(g, node, psze), "INT", 0, ProcFrameSize(g, node.typeRef))

(* A function whose end is reached returns 0.                              *)
LeaveSubprogram(g, node, psze) ==
  IF node.kind = "FuncDecl" THEN EmitTo(EmitTo(g, "LIT", 0, 0), "RET", psze, 1)
  ELSE EmitTo(g, "RET", psze, 0)

SubprogramCode(g, node, psze) ==
  LeaveSubprogram(GenerateBlock(EnterSubprogram(g, node, psze), node), node, psze)

(* generateProcDecl and generateFuncDecl.                                  *)
GenerateSubprogram(g, node) ==
  IF g.failed \/ node.tabIdx = NO_INDEX THEN Failed(g)
  ELSE PatchHere([SubprogramCode(EmitJump(g, "JMP"), node,
                                 BTabAt(g.table, node.typeRef).psze) EXCEPT !.level = g.level],
                 Here(g))

GenerateProgram(g, node) ==
  EmitTo(GenerateBlock(EmitTo([SetPsize(g, node.level, 0) EXCEPT !.level = node.level],
                              "INT", 0, InitialFrameSize(g, node)),
                       node),
         "RET", 0, 0)

(* generate                                                                *)
Generate(built) ==
  GenerateProgram([program |-> EmptyProgram, table |-> built.table, level |-> 0,
                   entries |-> << >>, psizes |-> << 0 >>, failed |-> FALSE], built.node)

=============================================================================
