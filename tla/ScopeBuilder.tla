---------------------------- MODULE ScopeBuilder ----------------------------
(***************************************************************************)
(* The scope builder (class ScopeBuilder): one pass over the tree that     *)
(* fills the symbol table, allocates the variables' addresses and decorates*)
(* every node with the entry, type and type reference it stands for.       *)
(*                                                                         *)
(* Expressions and statements only read the table: their operators return  *)
(* the decorated node.  Those of types and declarations return the table   *)
(* as well.  An error report is kept as the mark faulty; the mark of a node*)
(* includes those of its children, so that of the program tells whether    *)
(* hasErrors.                                                              *)
(***************************************************************************)
EXTENDS SymbolTable, Ast, SequencesExt

Typed(node, type, ref) == [node EXCEPT !.inferredType = type, !.typeRef = ref]

(* report                                                                  *)
Faulty(node) == [node EXCEPT !.faulty = TRUE]

FaultyIf(condition, node) == IF condition THEN Faulty(node) ELSE node

AnyFaulty(nodes) == \E i \in DOMAIN nodes : nodes[i].faulty

(* The node with these children, by field, in place of its own.            *)
WithParts(node, parts) == FaultyIf(AnyFaulty(parts), parts @@ node)

(* The node with this list of children.                                    *)
WithList(node, field, nodes) == FaultyIf(AnyFaulty(nodes), [node EXCEPT ![field] = nodes])

(* The node stands for entry i of the table.                               *)
Denotes(t, node, i) ==
  [node EXCEPT !.tabIdx = i, !.inferredType = TabAt(t, i).type, !.typeRef = TabAt(t, i).ref]

PrimitiveSize(type) == IF type = "Void" THEN 0 ELSE 1

(* The node stands for entry i, or for nothing that is known.              *)
NamedBy(t, node, i) ==
  IF i = NO_INDEX THEN Faulty(Typed(node, "Error", NO_INDEX)) ELSE Denotes(t, node, i)

SizeOf(t, type, ref) ==
  IF type = "Array" /\ ref # NO_INDEX THEN ATabAt(t, ref).size ELSE PrimitiveSize(type)

-----------------------------------------------------------------------------
(* Expressions.                                                            *)

BinOpType(op, lhs, rhs) ==
  IF op \in RelationalOps \cup {"And", "Or"} THEN "Boolean"
  ELSE IF op = "Div" \/ "Real" \in {lhs.inferredType, rhs.inferredType} THEN "Real"
  ELSE "Integer"

(* An operator's node, whose operands have been visited.                   *)
UnaryOpOf(node) ==
  Typed(node, IF node.op = "Not" THEN "Boolean" ELSE node.operand.inferredType,
        node.operand.typeRef)

BinOpOf(node) == Typed(node, BinOpType(node.op, node.lhs, node.rhs), NO_INDEX)

ElementOf(t, node, base) ==
  IF base.inferredType # "Array" \/ base.typeRef = NO_INDEX THEN Faulty(node)
  ELSE [Typed(node, ATabAt(t, base.typeRef).etyp, ATabAt(t, base.typeRef).eref) EXCEPT
          !.tabIdx = base.tabIdx]

FieldOf(t, node, base) ==
  NamedBy(t, [node EXCEPT !.tabIdx = base.tabIdx],
          IF base.inferredType = "Record" /\ base.typeRef # NO_INDEX
          THEN LookupBlockScope(t, base.typeRef, node.field) ELSE NO_INDEX)

(* The arguments are visited only when the name is known.                  *)
CallOf(t, node, i, args) ==
  IF i = NO_INDEX THEN Faulty(node)
  ELSE FaultyIf(TabAt(t, i).obj \notin {"procedure", "function"},
                WithList(Denotes(t, node, i), "args", args))

RECURSIVE VisitExpression(_, _)

VisitExpressions(t, nodes) == [i \in DOMAIN nodes |-> VisitExpression(t, nodes[i])]

VisitArrayAccess(t, node, base) ==
  ElementOf(t, WithList(WithParts(node, [base |-> base]),
                        "indices", VisitExpressions(t, node.indices)), base)

VisitFieldAccess(t, node, base) == FieldOf(t, WithParts(node, [base |-> base]), base)

VisitExpression(t, node) ==
  CASE node.kind = "IntLit"      -> Typed(node, "Integer", NO_INDEX)
    [] node.kind = "RealLit"     -> Typed(node, "Real", NO_INDEX)
    [] node.kind = "CharLit"     -> Typed(node, "Char", NO_INDEX)
    [] node.kind = "StringLit"   -> Typed(node, "String", Len(node.value))
    [] node.kind = "BoolLit"     -> Typed(node, "Boolean", NO_INDEX)
    [] node.kind = "Var"         -> NamedBy(t, node, Lookup(t, node.name))
    [] node.kind = "ArrayAccess" -> VisitArrayAccess(t, node, VisitExpression(t, node.base))
    [] node.kind = "FieldAccess" -> VisitFieldAccess(t, node, VisitExpression(t, node.base))
    [] node.kind = "ProcCall"    ->
         CallOf(t, node, Lookup(t, node.name), VisitExpressions(t, node.args))
    [] node.kind = "UnaryOp"     ->
         UnaryOpOf(WithParts(node, [operand |-> VisitExpression(t, node.operand)]))
    [] node.kind = "BinOp"       ->
         BinOpOf(WithParts(node, [lhs |-> VisitExpression(t, node.lhs),
                                  rhs |-> VisitExpression(t, node.rhs)]))
    [] OTHER -> node

(* constIntValue: an ordinal constant, or not.                             *)
NoConst == [ok |-> FALSE, value |-> 0]

Const(n) == [ok |-> TRUE, value |-> n]

Negated(const) == [const EXCEPT !.value = -@]

ConstOfEntry(t, i) ==
  IF i # NO_INDEX /\ TabAt(t, i).obj = "constant" /\
     TabAt(t, i).type \in {"Integer", "Char", "Boolean", "Enumerated", "Subrange"}
  THEN Const(TabAt(t, i).adr)
  ELSE NoConst

RECURSIVE ConstIntValue(_, _)
ConstIntValue(t, node) ==
  CASE node.kind \in {"IntLit", "CharLit"} -> Const(node.value)
    [] node.kind = "BoolLit" -> Const(IF node.value THEN 1 ELSE 0)
    [] node.kind = "UnaryOp" /\ node.op = "Plus"  -> ConstIntValue(t, node.operand)
    [] node.kind = "UnaryOp" /\ node.op = "Minus" -> Negated(ConstIntValue(t, node.operand))
    [] node.kind = "Var" -> ConstOfEntry(t, Lookup(t, node.name))
    [] OTHER -> NoConst

-----------------------------------------------------------------------------
(* Statements.                                                             *)

(* An assignment or a return has the type of its value, but not its entry  *)
(* in the table.                                                           *)
ValuedBy(node, tabIdx) ==
  [Typed(node, node.value.inferredType, node.value.typeRef) EXCEPT !.tabIdx = tabIdx]

ControlledBy(t, node, i) == IF i = NO_INDEX THEN Faulty(node) ELSE Denotes(t, node, i)

RECURSIVE VisitStatement(_, _)

VisitStatements(t, nodes) == [i \in DOMAIN nodes |-> VisitStatement(t, nodes[i])]

VisitBranch(t, branch) ==
  WithParts(WithList(branch, "labels", VisitExpressions(t, branch.labels)),
            [statement |-> VisitStatement(t, branch.statement)])

VisitAssign(node) == ValuedBy(node, node.target.tabIdx)
VisitReturn(node) == ValuedBy(node, node.value.tabIdx)

VisitStatement(t, node) ==
  CASE node.kind = "Assign" ->
         VisitAssign(WithParts(node, [target |-> VisitExpression(t, node.target),
                                      value  |-> VisitExpression(t, node.value)]))
    [] node.kind = "Return" ->
         VisitReturn(WithParts(node, [value |-> VisitExpression(t, node.value)]))
    [] node.kind = "If" ->
         WithParts(node, [condition |-> VisitExpression(t, node.condition),
                          thenStmt  |-> VisitStatement(t, node.thenStmt),
                          elseStmt  |-> VisitStatement(t, node.elseStmt)])
    [] node.kind \in {"While", "Repeat"} ->
         WithParts(node, [condition |-> VisitExpression(t, node.condition),
                          body      |-> VisitStatement(t, node.body)])
    [] node.kind = "For" ->
         ControlledBy(t, WithParts(node, [startExpr |-> VisitExpression(t, node.startExpr),
                                          endExpr   |-> VisitExpression(t, node.endExpr),
                                          body      |-> VisitStatement(t, node.body)]),
                      Lookup(t, node.controlVar))
    [] node.kind = "Case" ->
         WithParts(WithList(node, "branches",
                            [i \in DOMAIN node.branches |-> VisitBranch(t, node.branches[i])]),
                   [selector |-> VisitExpression(t, node.selector)])
    [] node.kind = "Compound" ->
         WithList(node, "statements", VisitStatements(t, node.statements))
    [] OTHER -> VisitExpression(t, node)

-----------------------------------------------------------------------------
(* Types.  Resolving one may add to the table: [table, node, size].        *)

Resolved(t, node, type, ref, size) ==
  [table |-> t, node |-> Typed(node, type, ref), size |-> size]

Unresolved(t, node) ==
  [table |-> t, node |-> Faulty(Typed(node, "Error", NO_INDEX)), size |-> 1]

(* The size of a named type is 1, unless it is an array.                   *)
ResolveNamed(t, node, i) ==
  IF i = NO_INDEX \/ TabAt(t, i).obj # "type" THEN Unresolved(t, node)
  ELSE Resolved(t, [node EXCEPT !.tabIdx = i], TabAt(t, i).type, TabAt(t, i).ref,
                SizeOf(t, TabAt(t, i).type, TabAt(t, i).ref))

OrdinalBase(node) == IF node.inferredType = "Subrange" THEN "Integer" ELSE node.inferredType

AddSubrange(t, node, low, high, base) ==
  Resolved(AddArrayType(t, low, high, base, base, NO_INDEX, 1), node, "Subrange",
           Len(t.atab), 1)

(* The node's bounds have been visited; low and high are their values.     *)
ResolveRange(t, node, low, high) ==
  IF \/ ~low.ok \/ ~high.ok
     \/ OrdinalBase(node.low) # OrdinalBase(node.high)
     \/ OrdinalBase(node.low) \notin {"Integer", "Char", "Boolean", "Enumerated"}
     \/ low.value > high.value
  THEN Unresolved(t, node)
  ELSE AddSubrange(t, node, low.value, high.value, OrdinalBase(node.low))

(* Enumerations list constants that are declared already; entries are those*)
(* of the names.  Only a name that is not one's is reported.               *)
IsConstant(t, i) == i # NO_INDEX /\ TabAt(t, i).obj = "constant"

AddEnumerated(t, node, count) ==
  Resolved([AddArrayType(t, 0, count - 1, "Enumerated", "Enumerated", NO_INDEX, 1) EXCEPT
              !.atab[Len(t.atab) + 1].size = 1],
           node, "Enumerated", Len(t.atab), 1)

ResolveEnumerated(t, node, entries) ==
  IF \A k \in DOMAIN entries :
       IsConstant(t, entries[k]) /\ TabAt(t, entries[k]).type = "Integer"
  THEN AddEnumerated(t, node, Max({1, Len(entries)}))
  ELSE Resolved(t, FaultyIf(\E k \in DOMAIN entries : ~IsConstant(t, entries[k]), node),
                "Error", NO_INDEX, 1)

RECURSIVE ResolveType(_, _)

(* One array type per dimension, the last dimension first; the type of     *)
(* each dimension is entered before the array.  acc: what is known of the  *)
(* element type, [table, type, ref, size, ranges, faulty].                 *)
IndexTypeOf(index) ==
  IF index.node.inferredType = "Subrange"
  THEN ATabAt(index.table, index.node.typeRef).xtyp ELSE index.node.inferredType

LastArray(t, ranges, faulty) ==
  [table |-> t, type |-> "Array", ref |-> Len(t.atab) - 1, size |-> t.atab[Len(t.atab)].size,
   ranges |-> ranges, faulty |-> faulty]

Dimension(acc, index, low, high) ==
  LastArray(AddArrayType(index.table, low.value, high.value, IndexTypeOf(index),
                         acc.type, acc.ref, acc.size),
            << index.node >> \o acc.ranges,
            acc.faulty \/ index.node.faulty \/ ~low.ok \/ ~high.ok)

ResolveDimension(acc, range) ==
  Dimension(acc, ResolveType(acc.table, range), ConstIntValue(acc.table, range.low),
            ConstIntValue(acc.table, range.high))

ElementType(element) ==
  [table |-> element.table, type |-> element.node.inferredType, ref |-> element.node.typeRef,
   size |-> element.size, ranges |-> << >>, faulty |-> element.node.faulty]

ArrayOf(node, whole) ==
  Resolved(whole.table, FaultyIf(whole.faulty, [node EXCEPT !.indexTypes = whole.ranges]),
           whole.type, whole.ref, whole.size)

ResolveArrayType(node, element) ==
  ArrayOf([node EXCEPT !.elementType = element.node],
          FoldRight(LAMBDA range, acc : ResolveDimension(acc, range), node.indexTypes,
                    ElementType(element)))

(* The fields of a record are the entries of a block of their own.         *)
InsertField(acc, name, type) ==
  IF LookupCurrentScope(acc.table, name) # NO_INDEX THEN [acc EXCEPT !.faulty = TRUE]
  ELSE [acc EXCEPT !.table = Insert(@, name, "field", type.node.inferredType,
                                    type.node.typeRef, acc.offset),
                   !.offset = @ + type.size]

InsertSection(acc, names, type) ==
  FoldLeft(LAMBDA a, name : InsertField(a, name, type),
           [acc EXCEPT !.table = type.table, !.faulty = @ \/ type.node.faulty], names)

RecordOf(node, block, fields) ==
  Resolved(PopBlock(fields.table), FaultyIf(fields.faulty, node), "Record", block,
           IF fields.offset > 0 THEN fields.offset ELSE 1)

ResolveRecordType(t, node) ==
  RecordOf(node, Len(t.btab),
           FoldLeft(LAMBDA acc, section :
                      InsertSection(acc, section.names,
                                    ResolveType(acc.table, section.typeExpr)),
                    [table |-> PushBlock(t), offset |-> 0, faulty |-> FALSE], node.fields))

ResolveType(t, node) ==
  CASE node.kind = "SimpleType"     -> ResolveNamed(t, node, Lookup(t, node.name))
    [] node.kind = "Range"          ->
         ResolveRange(t, WithParts(node, [low  |-> VisitExpression(t, node.low),
                                          high |-> VisitExpression(t, node.high)]),
                      ConstIntValue(t, node.low), ConstIntValue(t, node.high))
    [] node.kind = "EnumeratedType" ->
         ResolveEnumerated(t, node, [k \in DOMAIN node.identifiers |->
                                       Lookup(t, node.identifiers[k])])
    [] node.kind = "ArrayType"      ->
         ResolveArrayType(node, ResolveType(t, node.elementType))
    [] node.kind = "RecordType"     -> ResolveRecordType(t, node)
    [] OTHER                        -> [table |-> t, node |-> node, size |-> 1]

-----------------------------------------------------------------------------
(* Declarations: [table, node].                                            *)

Declared(t, node) ==
  [table |-> t, node |-> [node EXCEPT !.tabIdx = Inserted(t)]]

DeclareIdentifier(t, node, name, obj, type, ref, adr) ==
  IF LookupCurrentScope(t, name) # NO_INDEX
  THEN [table |-> t, node |-> Faulty([node EXCEPT !.inferredType = "Error"])]
  ELSE Declared(Insert(t, name, obj, type, ref, adr), Typed(node, type, ref))

(* allocateAddress: the next address of the current block, and the table   *)
(* with the size taken.                                                    *)
NextAddress(t) == BTabAt(t, CurrentBlock(t)).vsze

Allocate(t, size) ==
  [t EXCEPT !.btab[CurrentBlock(t) + 1].vsze = @ + (IF size > 0 THEN size ELSE 1)]

VisitConstDecl(t, node, const) ==
  DeclareIdentifier(t, node, node.name, "constant", node.value.inferredType,
                    node.value.typeRef, const.value)

VisitTypeDecl(node, type) ==
  DeclareIdentifier(type.table, WithParts(node, [typeExpr |-> type.node]), node.name, "type",
                    type.node.inferredType, type.node.typeRef, type.size)

VisitVarDecl(node, type) ==
  DeclareIdentifier(Allocate(type.table, type.size), WithParts(node, [typeExpr |-> type.node]),
                    node.name, "variable", type.node.inferredType, type.node.typeRef,
                    NextAddress(type.table))

(* A parameter must not have the name of a user's global.  acc: [table,    *)
(* faulty].                                                                *)
AddParam(acc, added, global) ==
  [table  |-> added.table,
   faulty |-> acc.faulty \/ added.node.faulty \/ global >= FirstUserIndex]

VisitFormalParam(acc, name, type) ==
  AddParam(acc,
           DeclareIdentifier(Allocate(type.table, type.size), type.node, name, "parameter",
                             type.node.inferredType, type.node.typeRef,
                             NextAddress(type.table)),
           LookupGlobalScope(type.table, name))

VisitFormalParams(t, params) ==
  FoldLeft(LAMBDA acc, param :
             VisitFormalParam(acc, param.name, ResolveType(acc.table, param.typeExpr)),
           [table |-> t, faulty |-> FALSE], params)

RECURSIVE VisitDeclaration(_, _)

AppendDeclared(nodes, declared) ==
  [table |-> declared.table, nodes |-> Append(nodes, declared.node)]

VisitDeclarations(t, nodes) ==
  FoldLeft(LAMBDA acc, node : AppendDeclared(acc.nodes, VisitDeclaration(acc.table, node)),
           [table |-> t, nodes |-> << >>], nodes)

(* Declarations and statements of a program or a subprogram.               *)
StatementsIn(inner, node) ==
  [table |-> inner.table,
   node  |-> WithList(WithList(node, "declarations", inner.nodes),
                      "statements", VisitStatements(inner.table, node.statements))]

VisitBody(t, node) == StatementsIn(VisitDeclarations(t, node.declarations), node)

(* The name of a subprogram is declared with the type of its result.       *)
DeclareSubprogram(node, result) ==
  IF node.kind = "FuncDecl"
  THEN DeclareIdentifier(result.table, FaultyIf(result.node.faulty, node), node.name,
                         "function", result.node.inferredType, result.node.typeRef, 0)
  ELSE DeclareIdentifier(result.table, node, node.name, "procedure", "Void", NO_INDEX, 0)

(* Its parameters, which psze counts, and its body are in a block of their *)
(* own, to which its entry refers.                                         *)
OpenBlock(t, tabIdx) ==
  IF tabIdx = NO_INDEX THEN PushBlock(t)
  ELSE [PushBlock(t) EXCEPT !.tab[tabIdx + 1].ref = Len(t.btab)]

CountParams(t, count) ==
  [t EXCEPT !.btab[CurrentBlock(t) + 1].lpar = BTabAt(t, CurrentBlock(t)).last,
            !.btab[CurrentBlock(t) + 1].psze = count]

VisitParamsAndBody(node, params) ==
  VisitBody(CountParams(params.table, Len(node.params)),
            [FaultyIf(params.faulty, node) EXCEPT
               !.level   = params.table.level,
               !.typeRef = IF node.tabIdx = NO_INDEX THEN @ ELSE CurrentBlock(params.table)])

Closed(inner) == [inner EXCEPT !.table = PopBlock(@)]

VisitNamedSubprogram(named) ==
  Closed(VisitParamsAndBody(named.node,
           VisitFormalParams(OpenBlock(named.table, named.node.tabIdx), named.node.params)))

(* visitProcDecl and visitFuncDecl.                                        *)
VisitSubprogram(t, node) ==
  VisitNamedSubprogram(DeclareSubprogram(node, ResolveType(t, node.returnType)))

VisitDeclaration(t, node) ==
  CASE node.kind = "ConstDecl" ->
         VisitConstDecl(t, WithParts(node, [value |-> VisitExpression(t, node.value)]),
                        ConstIntValue(t, node.value))
    [] node.kind = "TypeDecl"  -> VisitTypeDecl(node, ResolveType(t, node.typeExpr))
    [] node.kind = "VarDecl"   -> VisitVarDecl(node, ResolveType(t, node.typeExpr))
    [] OTHER                   -> VisitSubprogram(t, node)

(* build: the table and the decorated program.                             *)
VisitProgram(named) == VisitBody(named.table, named.node)

DeclareProgram(t, node) ==
  DeclareIdentifier(t, [node EXCEPT !.level = t.level], node.name, "program", "Void",
                    CurrentBlock(t), 0)

Build(program) == VisitProgram(DeclareProgram(InitPredefined(EmptyTable), program))

HasErrors(built) == built.node.faulty

=============================================================================
