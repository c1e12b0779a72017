---------------------------- MODULE TypeChecker ----------------------------
(***************************************************************************)
(* The type checker (class TypeChecker): a second pass over the decorated  *)
(* tree that settles the types of expressions and reports what does not    *)
(* fit.  It changes no entry of the table.  A report is the mark faulty, as*)
(* in the scope builder.                                                   *)
(*                                                                         *)
(* Check takes the checker and a node and returns both: [c, node].  Only   *)
(* the set of initialized variables outlives a node; the other parts of    *)
(* the checker describe what is around it.                                 *)
(***************************************************************************)
EXTENDS ScopeBuilder

(* initialized     the entries known to have a value: at first constants   *)
(*                 and parameters (seedInitiallyInitialized)               *)
(* target          a target of an assignment or a read is being visited    *)
(* inSubprogram    uses of globals are not checked (suppressGlobalInitCheck)*)
(* currentFunction the function around the node                            *)
Checker(t) ==
  [table |-> t,
   initialized |-> {i \in 0 .. Len(t.tab) - 1 : TabAt(t, i).obj \in {"constant", "parameter"}},
   target |-> FALSE, inSubprogram |-> FALSE, currentFunction |-> NO_INDEX]

Outcome(c, node) == [c |-> c, node |-> node]

Unsettled == {"Error", "Unknown"}

Places == {"Var", "ArrayAccess", "FieldAccess"}

-----------------------------------------------------------------------------
(* Types.                                                                  *)

IsArithmetic(type) == type \in {"Integer", "Real", "Subrange"}

IsRelational(type) == IsArithmetic(type) \/ type \in {"Char", "String", "Boolean"}

(* A subrange counts as the type it is a range of.                         *)
BaseType(t, type, ref) ==
  IF type # "Subrange" THEN type
  ELSE IF ref = NO_INDEX THEN "Integer" ELSE ATabAt(t, ref).xtyp

SameType(type, aRef, bRef) ==
  CASE type \in {"Array", "Record", "Enumerated"} -> aRef # NO_INDEX /\ aRef = bRef
    [] type = "String" -> NO_INDEX \in {aRef, bRef} \/ aRef = bRef
    [] OTHER -> TRUE

(* Mutant: a text may be compared with everything.                         *)
CompatibleWithTexts(t, a, aRef, b, bRef) ==
  \/ a = b /\ SameType(a, aRef, bRef)
  \/ a # b /\ "Subrange" \in {a, b} /\ BaseType(t, a, aRef) = BaseType(t, b, bRef)
  \/ {a, b} = {"Integer", "Real"}
  \/ "String" \in {a, b}

CompatibleWithRef(t, a, aRef, b, bRef) ==
  \/ a = b /\ SameType(a, aRef, bRef)
  \/ a # b /\ "Subrange" \in {a, b} /\ BaseType(t, a, aRef) = BaseType(t, b, bRef)
  \/ {a, b} = {"Integer", "Real"}

(* May a value of type rhs be stored where lhs is expected?                *)
AssignmentCompatible(t, lhs, lhsRef, rhs, rhsRef) ==
  \/ lhs = rhs /\ SameType(lhs, lhsRef, rhsRef)
  \/ lhs # rhs /\ "Subrange" \in {lhs, rhs} /\ BaseType(t, lhs, lhsRef) = BaseType(t, rhs, rhsRef)
  \/ lhs \in {"Real", "Enumerated"} /\ rhs = "Integer"

IsLiteral(node) == node.kind \in {"IntLit", "CharLit", "BoolLit"}

(* constantValue: unlike for the bounds of types, the constant may be of   *)
(* any type.                                                               *)
RECURSIVE ConstantValue(_, _)
ConstantValue(t, node) ==
  CASE IsLiteral(node) -> ConstIntValue(t, node)
    [] node.kind = "UnaryOp" /\ node.op = "Plus"  -> ConstantValue(t, node.operand)
    [] node.kind = "UnaryOp" /\ node.op = "Minus" -> Negated(ConstantValue(t, node.operand))
    [] node.kind = "Var" /\ node.tabIdx # NO_INDEX ->
         IF TabAt(t, node.tabIdx).obj = "constant" THEN Const(TabAt(t, node.tabIdx).adr) ELSE NoConst
    [] OTHER -> NoConst

(* A literal outside the bounds of entry ref of atab.                      *)
LiteralOutside(t, node, ref) ==
  IsLiteral(node) /\
  ConstIntValue(t, node).value \notin ATabAt(t, ref).low .. ATabAt(t, ref).high

-----------------------------------------------------------------------------
(* Must the statement return from function f?  Decided by its shape: a     *)
(* case counts when all its branches do.                                   *)

(* Mutant: a conditional counts when one of its branches does.             *)
IfMustReturnSomewhere(thenReturns, elseReturns) == thenReturns \/ elseReturns

IfMustReturn(thenReturns, elseReturns) == thenReturns /\ elseReturns

RECURSIVE StatementMustReturn(_, _)
StatementMustReturn(node, f) ==
  CASE node.kind = "Return"   -> TRUE
    [] node.kind = "Assign"   -> node.target.kind = "Var" /\ node.target.tabIdx = f
    [] node.kind = "Compound" ->
         \E i \in DOMAIN node.statements : StatementMustReturn(node.statements[i], f)
    [] node.kind = "If"       ->
         IfMustReturn(StatementMustReturn(node.thenStmt, f), StatementMustReturn(node.elseStmt, f))
    [] node.kind = "Case"     ->
         /\ node.branches # << >>
         /\ \A i \in DOMAIN node.branches : StatementMustReturn(node.branches[i].statement, f)
    [] node.kind = "Repeat"   -> StatementMustReturn(node.body, f)
    [] OTHER                  -> FALSE

-----------------------------------------------------------------------------
(* Visiting.                                                               *)

RECURSIVE Check(_, _)

Reported(r, condition) == [r EXCEPT !.node = FaultyIf(condition, @)]

(* The node's child in this field has been visited: r.                     *)
WithChild(node, field, r) == Outcome(r.c, WithParts(node, field :> r.node))

(* The children in these fields, one after the other.                      *)
CheckParts(c, node, fields) ==
  FoldLeft(LAMBDA acc, field : WithChild(acc.node, field, Check(acc.c, acc.node[field])),
           Outcome(c, node), fields)

(* The children in a list: [c, nodes].                                     *)
Visited(nodes, r) == [nodes |-> Append(nodes, r.node), c |-> r.c]

WithChildren(node, field, all) == Outcome(all.c, WithList(node, field, all.nodes))

CheckList(c, node, field) ==
  WithChildren(node, field,
               FoldLeft(LAMBDA acc, child : Visited(acc.nodes, Check(acc.c, child)),
                        [c |-> c, nodes |-> << >>], node[field]))

CheckTarget(c, node) ==
  [Check([c EXCEPT !.target = TRUE], node) EXCEPT !.c.target = c.target]

HasType(node, types) == node.inferredType \in types \cup Unsettled

-----------------------------------------------------------------------------
(* Expressions.                                                            *)

(* The variable of which a place is a component.                           *)
RECURSIVE Base(_)
Base(place) == IF place.kind \in {"ArrayAccess", "FieldAccess"} THEN Base(place.base) ELSE place

MarkInitialized(c, place) ==
  [c EXCEPT !.initialized = @ \cup {b.tabIdx : b \in {x \in {Base(place)} :
                                                  x.kind = "Var" /\ x.tabIdx # NO_INDEX}}]

(* A node the scope builder left without a type takes its entry's.         *)
Settled(t, node) ==
  IF node.inferredType = "Unknown" /\ node.tabIdx # NO_INDEX
  THEN Denotes(t, node, node.tabIdx) ELSE node

(* Mutant: in a subprogram no variable is looked at.                       *)
UninitializedInProgram(c, i) ==
  /\ ~c.target /\ i # NO_INDEX
  /\ ~c.inSubprogram
  /\ TabAt(c.table, i).obj = "variable" /\ i \notin c.initialized

(* A use of entry i before it has a value; in subprograms the variables of *)
(* the program are not looked at.                                          *)
Uninitialized(c, i) ==
  /\ ~c.target /\ i # NO_INDEX
  /\ ~(c.inSubprogram /\ TabAt(c.table, i).lev = 0)
  /\ TabAt(c.table, i).obj = "variable" /\ i \notin c.initialized

CheckVar(c, node) ==
  Outcome(c, FaultyIf(Uninitialized(c, node.tabIdx), Settled(c.table, node)))

(* acc: [c, type, ref, nodes, excess], the type that is indexed next and   *)
(* whether there were more indices than dimensions, the rest of which are  *)
(* not visited.                                                            *)
IndexMisfits(t, index, ref) ==
  \/ /\ {index.inferredType, ATabAt(t, ref).xtyp} \cap Unsettled = {}
     /\ ~CompatibleWithRef(t, ATabAt(t, ref).xtyp, NO_INDEX, index.inferredType, index.typeRef)
  \/ LiteralOutside(t, index, ref)

IndexVisited(acc, r) ==
  IF acc.type # "Array" \/ acc.ref = NO_INDEX
  THEN [acc EXCEPT !.c = r.c, !.nodes = Append(@, r.node), !.excess = TRUE]
  ELSE [c |-> r.c, excess |-> FALSE,
        type |-> ATabAt(r.c.table, acc.ref).etyp, ref |-> ATabAt(r.c.table, acc.ref).eref,
        nodes |-> Append(acc.nodes, FaultyIf(IndexMisfits(r.c.table, r.node, acc.ref), r.node))]

CheckIndex(acc, index) ==
  IF acc.excess THEN [acc EXCEPT !.nodes = Append(@, index)]
  ELSE IndexVisited(acc, Check(acc.c, index))

IndexedAs(all, node) ==
  Outcome(all.c, IF all.excess THEN Faulty([node EXCEPT !.inferredType = "Error"])
                 ELSE Typed(node, all.type, all.ref))

IndicesChecked(node, all) == IndexedAs(all, WithList(node, "indices", all.nodes))

CheckIndices(r) ==
  IndicesChecked(r.node,
    FoldLeft(CheckIndex, [c |-> r.c, type |-> r.node.base.inferredType,
                          ref |-> r.node.base.typeRef, nodes |-> << >>, excess |-> FALSE],
             r.node.indices))

SettledField(r) == [r EXCEPT !.node = Settled(r.c.table, @)]

OperandsFit(t, op, lhs, rhs) ==
  CASE op \in {"Add", "Sub", "Mul", "Div"} ->
         IsArithmetic(lhs.inferredType) /\ IsArithmetic(rhs.inferredType)
    [] op \in {"IntDiv", "Mod"} ->
         {lhs.inferredType, rhs.inferredType} \subseteq {"Integer", "Subrange"}
    [] op \in {"And", "Or"} -> {lhs.inferredType, rhs.inferredType} = {"Boolean"}
    [] OTHER ->
         /\ IsRelational(lhs.inferredType) /\ IsRelational(rhs.inferredType)
         /\ CompatibleWithRef(t, lhs.inferredType, lhs.typeRef, rhs.inferredType, rhs.typeRef)

BinOpSettled(t, node) ==
  IF "Error" \in {node.lhs.inferredType, node.rhs.inferredType}
  THEN [node EXCEPT !.inferredType = "Error"]
  ELSE IF "Unknown" \in {node.lhs.inferredType, node.rhs.inferredType} THEN node
  ELSE IF OperandsFit(t, node.op, node.lhs, node.rhs) THEN BinOpOf(node)
  ELSE Faulty([node EXCEPT !.inferredType = "Error"])

SettledBinOp(r) == [r EXCEPT !.node = BinOpSettled(r.c.table, @)]

OperandFits(node) ==
  IF node.op = "Not" THEN node.operand.inferredType = "Boolean"
  ELSE IsArithmetic(node.operand.inferredType)

UnaryOpSettled(node) ==
  IF OperandFits(node) THEN UnaryOpOf(node)
  ELSE FaultyIf(node.operand.inferredType # "Error", [node EXCEPT !.inferredType = "Error"])

SettledUnaryOp(r) == [r EXCEPT !.node = UnaryOpSettled(@)]

-----------------------------------------------------------------------------
(* Calls.                                                                  *)

(* read and readln visit their arguments as targets.                       *)
MarkRead(r) ==
  Outcome(MarkInitialized(r.c, r.node), FaultyIf(r.node.kind \notin Places, r.node))

CheckReads(c, node) ==
  WithChildren(node, "args",
               FoldLeft(LAMBDA acc, arg : Visited(acc.nodes, MarkRead(CheckTarget(acc.c, arg))),
                        [c |-> c, nodes |-> << >>], node.args))

(* The parameters that end with entry i, oldest first.                     *)
RECURSIVE Parameters(_, _)
Parameters(t, i) ==
  IF i = NO_INDEX THEN << >>
  ELSE IF TabAt(t, i).obj # "parameter" THEN << >>
  ELSE Append(Parameters(t, TabAt(t, i).link), i)

ArgumentFits(t, param, arg) ==
  \/ arg.inferredType \in Unsettled
  \/ AssignmentCompatible(t, TabAt(t, param).type, TabAt(t, param).ref, arg.inferredType, arg.typeRef)

ArgumentsFit(t, params, args) ==
  Len(params) = Len(args) /\ \A i \in DOMAIN params : ArgumentFits(t, params[i], args[i])

(* The built-in procedures have no block, and no parameters to compare.    *)
HasBlock(t, i) ==
  i # NO_INDEX /\ TabAt(t, i).obj \in {"procedure", "function"} /\ TabAt(t, i).ref # NO_INDEX

LastParameter(t, i) == BTabAt(t, TabAt(t, i).ref).lpar

ArgumentsChecked(r) ==
  Reported(r, HasBlock(r.c.table, r.node.tabIdx) /\
              ~ArgumentsFit(r.c.table,
                            Parameters(r.c.table, LastParameter(r.c.table, r.node.tabIdx)),
                            r.node.args))

CheckProcCall(c, node) ==
  IF Folded[node.name] \in {"read", "readln"} THEN CheckReads(c, node)
  ELSE ArgumentsChecked(CheckList(c, node, "args"))

-----------------------------------------------------------------------------
(* Statements.                                                             *)

(* What stands on the left is a place that may be assigned to.  The name of*)
(* a function is one inside that function alone.                           *)
IsAssignable(c, target, base) ==
  /\ target.kind \in Places
  /\ base # NO_INDEX =>
       \/ TabAt(c.table, base).obj \in {"variable", "parameter", "field"}
       \/ /\ TabAt(c.table, base).obj = "function"
          /\ target.kind = "Var" /\ base = c.currentFunction

ValueFits(t, target, value) ==
  AssignmentCompatible(t, target.inferredType, target.typeRef, value.inferredType, value.typeRef)

LiteralFits(t, target, value) ==
  ~(target.inferredType = "Subrange" /\ target.typeRef # NO_INDEX
      /\ LiteralOutside(t, value, target.typeRef))

AssignChecked(r) ==
  IF {r.node.target.inferredType, r.node.value.inferredType} \cap Unsettled # {} THEN r
  ELSE IF ~IsAssignable(r.c, r.node.target, Base(r.node.target).tabIdx)
          \/ ~ValueFits(r.c.table, r.node.target, r.node.value)
  THEN Outcome(r.c, Faulty([r.node EXCEPT !.inferredType = "Error"]))
  ELSE Outcome(MarkInitialized(r.c, r.node.target),
               FaultyIf(~LiteralFits(r.c.table, r.node.target, r.node.value),
                        [r.node EXCEPT !.inferredType = "Void"]))

CheckValue(r) == CheckParts(r.c, r.node, << "value" >>)

CheckAssign(c, node) ==
  AssignChecked(CheckValue(WithChild(node, "target", CheckTarget(c, node.target))))

(* Outside a function any value may be returned.                           *)
ReturnFits(c, value) ==
  \/ c.currentFunction = NO_INDEX
  \/ IsNil(value) \/ value.inferredType \in Unsettled
  \/ AssignmentCompatible(c.table, TabAt(c.table, c.currentFunction).type,
                          TabAt(c.table, c.currentFunction).ref, value.inferredType, value.typeRef)

ReturnChecked(r) == Reported(r, ~ReturnFits(r.c, r.node.value))

ConditionChecked(r) == Reported(r, ~HasType(r.node.condition, {"Boolean"}))

(* The control variable counts as initialized in the body and after it.    *)
IsControl(t, i) == i # NO_INDEX /\ TabAt(t, i).obj \in {"variable", "parameter"}

Controlled(c, i) == IF IsControl(c.table, i) THEN [c EXCEPT !.initialized = @ \cup {i}] ELSE c

ForBody(r) == CheckParts(Controlled(r.c, r.node.tabIdx), r.node, << "body" >>)

ForChecked(r) ==
  Reported(r, \/ ~IsControl(r.c.table, r.node.tabIdx)
              \/ TabAt(r.c.table, r.node.tabIdx).type \notin {"Integer", "Subrange"} \cup Unsettled
              \/ ~HasType(r.node.startExpr, {"Integer", "Subrange"})
              \/ ~HasType(r.node.endExpr, {"Integer", "Subrange"}))

(* acc: [c, nodes, seen], the labels' values so far.                       *)
LabelChecked(acc, r, fits, value) ==
  [c     |-> r.c,
   nodes |-> Append(acc.nodes, FaultyIf(~fits \/ value \cap acc.seen # {}, r.node)),
   seen  |-> IF fits THEN acc.seen \cup value ELSE acc.seen]

LabelVisited(acc, selector, r) ==
  IF r.node.inferredType \in Unsettled THEN LabelChecked(acc, r, TRUE, {})
  ELSE LabelChecked(acc, r,
         CompatibleWithRef(r.c.table, selector.inferredType, selector.typeRef,
                           r.node.inferredType, r.node.typeRef),
         {v.value : v \in {x \in {ConstantValue(r.c.table, r.node)} : x.ok}})

CheckLabels(acc, selector, labels) ==
  FoldLeft(LAMBDA a, label : LabelVisited(a, selector, Check(a.c, label)),
           [acc EXCEPT !.nodes = << >>], labels)

BranchChecked(nodes, seen, r) ==
  [nodes |-> Append(nodes, r.node), c |-> r.c, seen |-> seen]

BranchBody(acc, labels, branch) ==
  BranchChecked(acc.nodes, labels.seen,
                CheckParts(labels.c, WithList(branch, "labels", labels.nodes), << "statement" >>))

CheckBranch(acc, selector, branch) ==
  BranchBody(acc, CheckLabels(acc, selector, branch.labels), branch)

Ordinals == {"Integer", "Char", "Boolean", "Subrange", "Enumerated"}

BranchesChecked(r) ==
  Reported(WithChildren(r.node, "branches",
             FoldLeft(LAMBDA acc, branch : CheckBranch(acc, r.node.selector, branch),
                      [c |-> r.c, nodes |-> << >>, seen |-> {}], r.node.branches)),
           ~HasType(r.node.selector, Ordinals))

-----------------------------------------------------------------------------
(* Declarations.                                                           *)

CheckStatements(r) == CheckList(r.c, r.node, "statements")

(* Declarations and statements.                                            *)
CheckBody(c, node) == CheckStatements(CheckList(c, node, "declarations"))

(* A procedure keeps the function around it as the current one.            *)
Inside(c, node) ==
  [c EXCEPT !.inSubprogram = TRUE,
            !.currentFunction = IF node.kind = "FuncDecl" THEN node.tabIdx ELSE @]

Leave(c, r) ==
  Reported(Outcome([c EXCEPT !.initialized = r.c.initialized], r.node),
           r.node.kind = "FuncDecl" /\
             ~\E i \in DOMAIN r.node.statements :
                 StatementMustReturn(r.node.statements[i], r.node.tabIdx))

CheckSubprogram(c, node) == Leave(c, CheckBody(Inside(c, node), node))

(* The constants an enumerated type lists, looked up in the global scope,  *)
(* the only one still open.                                                *)
NotInteger(t, i) == IsConstant(t, i) /\ TabAt(t, i).type # "Integer"

CheckTypeDecl(c, node) ==
  Outcome(c, FaultyIf(node.typeExpr.kind = "EnumeratedType" /\
                        \E k \in DOMAIN node.typeExpr.identifiers :
                          NotInteger(c.table, Lookup(c.table, node.typeExpr.identifiers[k])),
                      node))

Check(c, node) ==
  CASE node.kind = "Var"         -> CheckVar(c, node)
    [] node.kind = "ArrayAccess" -> CheckIndices(CheckParts(c, node, << "base" >>))
    [] node.kind = "FieldAccess" -> SettledField(CheckParts(c, node, << "base" >>))
    [] node.kind = "BinOp"       -> SettledBinOp(CheckParts(c, node, << "lhs", "rhs" >>))
    [] node.kind = "UnaryOp"     -> SettledUnaryOp(CheckParts(c, node, << "operand" >>))
    [] node.kind = "ProcCall"    -> CheckProcCall(c, node)
    [] node.kind = "Assign"      -> CheckAssign(c, node)
    [] node.kind = "Return"      -> ReturnChecked(CheckParts(c, node, << "value" >>))
    [] node.kind = "If"          ->
         ConditionChecked(CheckParts(c, node, << "condition", "thenStmt", "elseStmt" >>))
    [] node.kind = "While"       -> ConditionChecked(CheckParts(c, node, << "condition", "body" >>))
    [] node.kind = "Repeat"      -> ConditionChecked(CheckParts(c, node, << "body", "condition" >>))
    [] node.kind = "For"         ->
         ForChecked(ForBody(CheckParts(c, node, << "startExpr", "endExpr" >>)))
    [] node.kind = "Case"        -> BranchesChecked(CheckParts(c, node, << "selector" >>))
    [] node.kind = "Compound"    -> CheckList(c, node, "statements")
    [] node.kind = "ConstDecl"   -> CheckParts(c, node, << "value" >>)
    [] node.kind = "TypeDecl"    -> CheckTypeDecl(c, node)
    [] node.kind \in {"ProcDecl", "FuncDecl"} -> CheckSubprogram(c, node)
    [] node.kind = "Program"     -> CheckBody(c, node)
    [] node.kind \in {"IntLit", "RealLit", "CharLit", "StringLit", "BoolLit"} ->
         Outcome(c, VisitExpression(c.table, node))
    [] OTHER -> Outcome(c, node)

(* check: the program as the code generator gets it.                       *)
Checked(t, r) == [table |-> t, node |-> r.node]

TypeCheck(built) == Checked(built.table, Check(Checker(built.table), built.node))

=============================================================================
